--------------------------- MODULE DispatchProofs ---------------------------
(***************************************************************************)
(* Proofs about the dispatch tables, for any number of processes, methods, *)
(* signatures and any selector hash.                                       *)
(***************************************************************************)
EXTENDS Dispatch, TLAPS

(* Methods in the hands of addMethod are distinct, and until its table is    *)
(* published nobody else knows the table named after a method.               *)
Active(p) == pc[p] # "idle"
Unknown(m) == m # current /\ \A p \in Procs : dispatch[p] # m

PrivateTables ==
  /\ \A p \in Procs : Active(p) => method[p] \notin todo
  /\ \A p, q \in Procs :
       Active(p) /\ Active(q) /\ method[p] = method[q] => p = q
  /\ \A m \in todo : Unknown(m)
  /\ \A p \in Procs : Active(p) /\ pc[p] # "kill" => Unknown(method[p])

(* A table that a process is about to lock and that is clean is the current  *)
(* one; a table being killed is not; a private table is never dead.          *)
LockTargets ==
  /\ \A p \in Procs :
       pc[p] \in {"lock", "growLock"} /\ state[dispatch[p]] = "clean"
         => dispatch[p] = current
  /\ \A p \in Procs : pc[p] = "kill" => dispatch[p] # current
  /\ \A p \in Procs :
       pc[p] \in {"copy", "publish"} => state[method[p]] # "dead"

LockInv ==
  TypeOK /\ PrivateTables /\ LockTargets /\ LockHeldByOne /\ CurrentIsLive

(* A table under construction is larger than the one it is to replace. *)
LargerTable ==
  \A p \in Procs :
    pc[p] \in {"copy", "publish"} => hash[method[p]] > hash[dispatch[p]]

-----------------------------------------------------------------------------
(* The part of the type invariant a store must re-establish. *)
SlotsOK ==
  /\ slots = [t \in Tables |-> slots[t]]
  /\ \A t \in Tables : slots[t] \in [Elements(t) -> Methods \cup {None}]

(* What growing a table computes: a prime of the search range that is at     *)
(* least the number of words asked for.                                      *)
LEMMA PrimeAtLeast ==
  ASSUME NEW w \in 0 .. MaxWords
  PROVE  /\ smallestPrimeAtLeast(w) \in Nat
         /\ smallestPrimeAtLeast(w) >= w
<1> DEFINE P(p) == SmallestPrimeFrom(FirstOdd(w), p)
<1>1. \E p \in 2 .. MaxHash : P(p)
  BY DispatchAssumption
<1>2. /\ smallestPrimeAtLeast(w) \in 2 .. MaxHash
      /\ P(smallestPrimeAtLeast(w))
  <2> HIDE DEF P
  <2>1. smallestPrimeAtLeast(w) = CHOOSE p \in 2 .. MaxHash : P(p)
    BY DEF smallestPrimeAtLeast, P
  <2> QED
    BY <1>1, <2>1
<1>3. FirstOdd(w) <= smallestPrimeAtLeast(w)
  BY <1>2 DEF SmallestPrimeFrom
<1>4. w <= FirstOdd(w) /\ FirstOdd(w) \in Nat
  BY DispatchAssumption DEF FirstOdd
<1> QED
  BY <1>2, <1>3, <1>4, DispatchAssumption

(* addMethod, its first attempt and its loop keep every variable in its type. *)
LEMMA TypeInit == Init => TypeOK
  BY DispatchAssumption
  DEF Init, TypeOK, Tables, Elements, nMethods, updateableSlots, Labels

(* A store of a method in an element of a table keeps the slots typed. *)
LEMMA StoreType ==
  ASSUME TypeOK, NEW t \in Tables, NEW m \in Methods, NEW i \in Elements(t),
         slots' = [slots EXCEPT ![t][i] = m], UNCHANGED hash
  PROVE  SlotsOK'
<1> DEFINE row == [slots[t] EXCEPT ![i] = m]
<1>1. row \in [Elements(t) -> Methods \cup {None}]
  BY DEF TypeOK
<1>2. slots' = [slots EXCEPT ![t] = row]
  OBVIOUS
<1>3. slots = [u \in Tables |-> slots[u]]
  BY DEF TypeOK
<1>4. /\ slots'[t] = row
      /\ \A u \in Tables : u # t => slots'[u] = slots[u]
      /\ slots' = [u \in Tables |-> slots'[u]]
  <2> HIDE DEF row
  <2> QED
    BY <1>2, <1>3
<1>5. Elements(t)' = Elements(t) /\ \A u \in Tables : Elements(u)' = Elements(u)
  BY DEF Elements
<1> HIDE DEF row
<1> QED
  BY <1>1, <1>4, <1>5 DEF TypeOK, SlotsOK

LEMMA TypeStep ==
  ASSUME TypeOK, [Next]_vars
  PROVE  TypeOK'
<1> USE DEF TypeOK, Tables, Elements, Labels
<1>1. ASSUME NEW p \in Procs, NEW m \in todo, AddMethod(p, m)
      PROVE  TypeOK'
  BY <1>1 DEF AddMethod, Goto, tableVars
<1>2. ASSUME NEW p \in Procs, AddLock(p)
      PROVE  TypeOK'
  <2>1. /\ state' \in [Tables -> {"clean", "beingUpdated", "dead"}]
        /\ pc' \in [Procs -> Labels]
        /\ \A q \in Procs : pc'[q] # "idle" => pc[q] # "idle"
    BY <1>2 DEF AddLock, Goto
  <2> QED
    BY <1>2, <2>1 DEF AddLock
<1>3. ASSUME NEW p \in Procs, AddStore(p)
      PROVE  TypeOK'
  <2>1. method[p] \in Methods
    BY <1>3 DEF AddStore
  <2>2. ASSUME NEW i \in Probe(dispatch[p], method[p]),
               slots' = [slots EXCEPT ![dispatch[p]][i] = method[p]]
        PROVE  SlotsOK'
    BY <2>1, <2>2, <1>3, StoreType DEF Probe, AddStore
  <2>3. SlotsOK'
    BY <1>3, <2>2 DEF AddStore, SlotsOK
  <2> QED
    BY <1>3, <2>1, <2>3 DEF AddStore, Goto, SlotsOK
<1>4. ASSUME NEW p \in Procs, AddUnlock(p)
      PROVE  TypeOK'
  BY <1>4 DEF AddUnlock, Goto
<1>5. ASSUME NEW p \in Procs, Reload(p)
      PROVE  TypeOK'
  BY <1>5 DEF Reload, Goto, tableVars
<1>6. ASSUME NEW p \in Procs, GrowRetry(p)
      PROVE  TypeOK'
  BY <1>6 DEF GrowRetry, Goto, tableVars
<1>7. ASSUME NEW p \in Procs, GrowLock(p)
      PROVE  TypeOK'
  <2> DEFINE larger == IF words[p] < hash[dispatch[p]] + 1
                       THEN hash[dispatch[p]] + 1 ELSE words[p]
             asked == (larger * 100) \div 70
             prime == smallestPrimeAtLeast(asked)
  <2>1. method[p] \in Methods /\ dispatch[p] \in Tables
    BY <1>7 DEF GrowLock
  <2>2. asked \in 0 .. MaxWords
    <3>1. larger \in Nat
      BY <2>1
    <3>2. asked \in Nat
      BY <3>1
    <3> QED
      BY <3>2, <1>7, DispatchAssumption DEF GrowLock, request, loadFactor
  <2>3. prime \in Nat
    BY <2>2, PrimeAtLeast
  <2> HIDE DEF larger, asked, prime
  <2>4. /\ words' = [words EXCEPT ![p] = asked]
        /\ hash' = [hash EXCEPT ![method[p]] = prime]
        /\ slots' = [slots EXCEPT ![method[p]] = updateableSlots(prime)]
        /\ state' = [state EXCEPT ![dispatch[p]] = "beingUpdated",
                                  ![method[p]] = "clean"]
        /\ pc' = [pc EXCEPT ![p] = "copy"]
        /\ cursor' = [cursor EXCEPT ![p] = 0]
        /\ UNCHANGED <<current, method, dispatch, added, todo>>
    BY <1>7 DEF GrowLock, Goto, request, loadFactor, larger, asked, prime
  <2>5. SlotsOK'
    <3> DEFINE row == updateableSlots(prime)
    <3>1. slots = [u \in Tables |-> slots[u]]
      OBVIOUS
    <3>2. /\ slots'[method[p]] = row
          /\ \A u \in Tables : u # method[p] => slots'[u] = slots[u]
          /\ slots' = [u \in Tables |-> slots'[u]]
      <4>1. slots' = [slots EXCEPT ![method[p]] = row]
        BY <2>4
      <4> HIDE DEF row
      <4> QED
        BY <2>1, <4>1, <3>1
    <3>3. /\ hash'[method[p]] = prime
          /\ \A u \in Tables : u # method[p] => hash'[u] = hash[u]
      BY <2>1, <2>4
    <3>4. row \in [0 .. nMethods(prime) - 1 -> Methods \cup {None}]
      BY DEF updateableSlots
    <3>5. \A u \in Tables : slots'[u] \in [Elements(u)' -> Methods \cup {None}]
      <4> HIDE DEF row
      <4> QED
        BY <3>2, <3>3, <3>4
    <3> QED
      BY <3>2, <3>5 DEF SlotsOK
  <2>6. hash' \in [Tables -> Nat]
    BY <2>1, <2>3, <2>4
  <2>7. state' \in [Tables -> {"clean", "beingUpdated", "dead"}]
    BY <2>1, <2>4
  <2>8. \A q \in Procs : pc'[q] # "idle" => method'[q] \in Methods
    BY <2>1, <2>4
  <2>9. /\ words' \in [Procs -> Nat]
        /\ cursor' \in [Procs -> Nat]
        /\ pc' \in [Procs -> Labels]
    BY <2>2, <2>4
  <2>10. UNCHANGED <<current, method, dispatch, added, todo>>
    BY <2>4
  <2> QED
    BY <2>5, <2>6, <2>7, <2>8, <2>9, <2>10 DEF SlotsOK
<1>8. ASSUME NEW p \in Procs, CopyElement(p)
      PROVE  TypeOK'
  <2>1. method[p] \in Methods
    BY <1>8 DEF CopyElement
  <2> DEFINE x == slots[dispatch[p]][cursor[p]]
  <2>2. x \in Methods \cup {None}
    BY <1>8 DEF CopyElement
  <2>3. x # None => x \in Methods
    BY <2>2
  <2>4. ASSUME NEW i \in Probe(method[p], x), x # None,
               slots' = [slots EXCEPT ![method[p]][i] = x]
        PROVE  SlotsOK'
    BY <2>1, <2>3, <2>4, <1>8, StoreType DEF Probe, CopyElement
  <2>5. SlotsOK'
    BY <1>8, <2>4 DEF CopyElement, AddToNew, SlotsOK
  <2>6. /\ cursor' \in [Procs -> Nat]
        /\ pc' \in [Procs -> Labels]
        /\ \A q \in Procs : pc'[q] # "idle" => method[q] \in Methods
    <3>1. \/ cursor' = [cursor EXCEPT ![p] = @ + 1] /\ pc' = pc
          \/ cursor' = cursor /\ pc' = [pc EXCEPT ![p] = "reload"]
      <4> USE <1>8 DEF CopyElement, AddToNew, Goto
      <4>1. CASE x = None
        BY <4>1
      <4>2. CASE x # None
        BY <4>2
      <4> QED
        BY <4>1, <4>2
    <3>2. CASE cursor' = [cursor EXCEPT ![p] = @ + 1] /\ pc' = pc
      BY <3>2
    <3>3. CASE cursor' = cursor /\ pc' = [pc EXCEPT ![p] = "reload"]
      BY <3>3, <2>1
    <3> QED
      BY <3>1, <3>2, <3>3
  <2>7. UNCHANGED <<current, hash, state, method, dispatch, words, added, todo>>
    BY <1>8 DEF CopyElement
  <2> HIDE DEF x
  <2> QED
    BY <2>5, <2>6, <2>7 DEF SlotsOK
<1>9. ASSUME NEW p \in Procs, CopyDone(p)
      PROVE  TypeOK'
  <2>1. method[p] \in Methods
    BY <1>9 DEF CopyDone
  <2>2. ASSUME NEW i \in Probe(method[p], method[p]),
               slots' = [slots EXCEPT ![method[p]][i] = method[p]]
        PROVE  SlotsOK'
    BY <2>1, <2>2, <1>9, StoreType DEF Probe, CopyDone
  <2>3. SlotsOK'
    BY <1>9, <2>2 DEF CopyDone, AddToNew, SlotsOK
  <2> QED
    BY <1>9, <2>1, <2>3 DEF CopyDone, AddToNew, Goto, SlotsOK
<1>10. ASSUME NEW p \in Procs, Publish(p)
       PROVE  TypeOK'
  BY <1>10 DEF Publish, Goto, tableVars
<1>11. ASSUME NEW p \in Procs, Kill(p)
       PROVE  TypeOK'
  BY <1>11 DEF Kill, Goto
<1>12. CASE UNCHANGED vars
  BY <1>12 DEF vars, tableVars
<1> QED
  BY <1>1, <1>2, <1>3, <1>4, <1>5, <1>6, <1>7, <1>8, <1>9, <1>10, <1>11, <1>12
  DEF Next, Step

(* Every variable of the concurrent dispatch tables keeps its type. *)
THEOREM TypeCorrect == Spec => []TypeOK
  BY TypeInit, TypeStep, PTL DEF Spec

-----------------------------------------------------------------------------
(* The lock discipline.  What the steps do to the variables it speaks of.    *)
LockTypes ==
  /\ current \in Tables
  /\ state \in [Tables -> {"clean", "beingUpdated", "dead"}]
  /\ pc \in [Procs -> Labels]
  /\ method \in [Procs -> Methods \cup {None}]
  /\ \A p \in Procs : pc[p] # "idle" => method[p] \in Methods
  /\ dispatch \in [Procs -> Tables]
  /\ todo \in SUBSET Methods

Discipline == PrivateTables /\ LockTargets /\ LockHeldByOne /\ CurrentIsLive

LEMMA LockInit == Init => LockInv
  BY TypeInit, DispatchAssumption
  DEF Init, LockInv, PrivateTables, Active, Unknown, LockTargets,
      LockHeldByOne, Updating, CurrentIsLive, Tables

LEMMA LockStep ==
  ASSUME LockInv, [Next]_vars
  PROVE  LockInv'
<1>1. TypeOK'
  BY TypeStep DEF LockInv
<1>2. LockTypes /\ Discipline
  BY DEF LockInv, TypeOK, LockTypes, Discipline
<1> SUFFICES Discipline'
  BY <1>1 DEF LockInv, Discipline
<1> USE <1>2 DEF LockTypes, Discipline, PrivateTables, Active, Unknown,
                 LockTargets, LockHeldByOne, Updating, CurrentIsLive, Tables,
                 Labels
<1>3. ASSUME NEW p \in Procs, NEW m \in todo, AddMethod(p, m)
      PROVE  Discipline'
  BY <1>3 DEF AddMethod, Goto, tableVars
<1>4. ASSUME NEW p \in Procs, AddLock(p)
      PROVE  Discipline'
  BY <1>4 DEF AddLock, Goto
<1>5. ASSUME NEW p \in Procs, AddStore(p)
      PROVE  Discipline'
  BY <1>5 DEF AddStore, Goto
<1>6. ASSUME NEW p \in Procs, AddUnlock(p)
      PROVE  Discipline'
  BY <1>6 DEF AddUnlock, Goto
<1>7. ASSUME NEW p \in Procs, Reload(p)
      PROVE  Discipline'
  BY <1>7 DEF Reload, Goto, tableVars
<1>8. ASSUME NEW p \in Procs, GrowRetry(p)
      PROVE  Discipline'
  BY <1>8 DEF GrowRetry, Goto, tableVars
<1>9. ASSUME NEW p \in Procs, GrowLock(p)
      PROVE  Discipline'
  BY <1>9 DEF GrowLock, Goto
<1>10. ASSUME NEW p \in Procs, CopyElement(p)
      PROVE  Discipline'
  BY <1>10 DEF CopyElement, AddToNew, Goto
<1>11. ASSUME NEW p \in Procs, CopyDone(p)
      PROVE  Discipline'
  BY <1>11 DEF CopyDone, AddToNew, Goto
<1>12. ASSUME NEW p \in Procs, Publish(p)
      PROVE  Discipline'
  BY <1>12 DEF Publish, Goto, tableVars
<1>13. ASSUME NEW p \in Procs, Kill(p)
      PROVE  Discipline'
  BY <1>13 DEF Kill, Goto
<1>14. CASE UNCHANGED vars
  BY <1>14 DEF vars, tableVars
<1> QED
  BY <1>3, <1>4, <1>5, <1>6, <1>7, <1>8, <1>9, <1>10, <1>11, <1>12, <1>13, <1>14
  DEF Next, Step

(* For any processes and methods: no two processes update one table at a     *)
(* time, a table stays locked and current while it is updated.               *)
THEOREM UpdatesExclude == Spec => []LockHeldByOne
<1>1. LockInv => LockHeldByOne
  BY DEF LockInv
<1> QED
  BY LockInit, LockStep, <1>1, PTL DEF Spec

(* A process that reads `dispatches` never gets a dead table. *)
THEOREM CurrentNeverDead == Spec => []CurrentIsLive
<1>1. LockInv => CurrentIsLive
  BY DEF LockInv
<1> QED
  BY LockInit, LockStep, <1>1, PTL DEF Spec

-----------------------------------------------------------------------------
(* Open addressing.  The chain condition of one table. *)
Chained(t) ==
  \A i \in Elements(t) :
    slots[t][i] # None => i \in Found(t, SigOf[slots[t][i]])

(* A method stored where its probe stops keeps every chain of the table: the *)
(* methods stored before are still met first by their own probes.            *)
LEMMA StoreKeepsChains ==
  ASSUME TypeOK, NEW t \in Tables, Chained(t), NEW m \in Methods,
         NEW i \in Probe(t, m), slots' = [slots EXCEPT ![t][i] = m],
         UNCHANGED hash
  PROVE  Chained(t)'
<1> DEFINE start(s) == doHash(SelectorHash[s], hash[t])
           s0 == SigOf[m]
<1>1. /\ i \in Elements(t) /\ start(s0) <= i
      /\ slots[t][i] # None => SigOf[slots[t][i]] = s0
      /\ \A j \in Elements(t) : start(s0) <= j /\ j < i =>
           slots[t][j] # None /\ SigOf[slots[t][j]] # s0
  BY DEF Probe, Accepts, lookupAddress
<1>2. /\ Elements(t)' = Elements(t)
      /\ m # None
      /\ slots'[t][i] = m
      /\ \A j \in Elements(t) : j # i => slots'[t][j] = slots[t][j]
  BY <1>1, DispatchAssumption DEF TypeOK, Elements
<1>3. \A k \in Elements(t) : slots[t][k] # None =>
        /\ start(SigOf[slots[t][k]]) <= k
        /\ \A j \in Elements(t) : start(SigOf[slots[t][k]]) <= j /\ j < k =>
             slots[t][j] # None /\ SigOf[slots[t][j]] # SigOf[slots[t][k]]
  BY DEF Chained, Found
<1> HIDE DEF start
<1>4. ASSUME NEW k \in Elements(t), slots'[t][k] # None
      PROVE  /\ start(SigOf[slots'[t][k]]) <= k
             /\ \A j \in Elements(t) :
                  start(SigOf[slots'[t][k]]) <= j /\ j < k =>
                    /\ slots'[t][j] # None
                    /\ SigOf[slots'[t][j]] # SigOf[slots'[t][k]]
  <2>1. CASE k = i
    BY <2>1, <1>1, <1>2 DEF Elements
  <2>2. CASE k # i
    BY <2>2, <1>1, <1>2, <1>3, <1>4
  <2> QED
    BY <2>1, <2>2
<1> QED
  BY <1>2, <1>4 DEF Chained, Found, start

LEMMA ChainsStep ==
  ASSUME LockInv, ProbeChains, [Next]_vars
  PROVE  ProbeChains'
<1>1. TypeOK /\ \A t \in Tables : Chained(t)
  BY DEF LockInv, ProbeChains, Chained
<1> SUFFICES \A t \in Tables : Chained(t)'
  BY DEF ProbeChains, Chained
<1>2. ASSUME UNCHANGED <<hash, slots>>, NEW t \in Tables
      PROVE  Chained(t)'
  BY <1>1, <1>2 DEF Chained, Found, Elements
<1>3. ASSUME NEW t \in Tables, NEW m \in Methods, NEW i \in Probe(t, m),
             slots' = [slots EXCEPT ![t][i] = m], UNCHANGED hash,
             NEW u \in Tables
      PROVE  Chained(u)'
  <2>1. CASE u = t
    BY <1>1, <1>3, <2>1, StoreKeepsChains
  <2>2. CASE u # t
    <3>1. slots'[u] = slots[u] /\ hash'[u] = hash[u]
      BY <1>1, <1>3, <2>2 DEF TypeOK
    <3> QED
      BY <1>1, <3>1 DEF Chained, Found, Elements
  <2> QED
    BY <2>1, <2>2
<1>4. ASSUME NEW p \in Procs, AddStore(p)
      PROVE  \A t \in Tables : Chained(t)'
  <2>1. method[p] \in Methods /\ dispatch[p] \in Tables
    BY <1>1, <1>4 DEF AddStore, TypeOK
  <2> QED
    BY <1>2, <1>3, <1>4, <2>1 DEF AddStore
<1>5. ASSUME NEW p \in Procs, GrowLock(p), NEW t \in Tables
      PROVE  Chained(t)'
  <2>1. method[p] \in Tables
    BY <1>1, <1>5 DEF GrowLock, TypeOK, Tables
  <2>2. CASE t = method[p]
    <3>1. \E n : slots' = [slots EXCEPT ![method[p]] = [i \in n |-> None]]
      BY <1>5 DEF GrowLock, updateableSlots
    <3>2. \E n : slots'[t] = [i \in n |-> None]
      BY <1>1, <2>1, <2>2, <3>1 DEF TypeOK
    <3>3. slots'[t] \in [Elements(t)' -> Methods \cup {None}]
      BY TypeStep, <1>1 DEF TypeOK
    <3>4. \A i \in Elements(t)' : slots'[t][i] = None
      BY <3>2, <3>3
    <3> QED
      BY <3>4 DEF Chained
  <2>3. CASE t # method[p]
    <3>1. slots'[t] = slots[t] /\ hash'[t] = hash[t]
      BY <1>1, <1>5, <2>1, <2>3 DEF GrowLock, TypeOK
    <3> QED
      BY <1>1, <3>1 DEF Chained, Found, Elements
  <2> QED
    BY <2>2, <2>3
<1>6. ASSUME NEW p \in Procs, CopyElement(p)
      PROVE  \A t \in Tables : Chained(t)'
  <2> DEFINE x == slots[dispatch[p]][cursor[p]]
  <2>1. method[p] \in Methods /\ method[p] \in Tables /\ UNCHANGED hash
    BY <1>1, <1>6 DEF CopyElement, TypeOK, Tables
  <2>2. x # None => x \in Methods
    BY <1>1, <1>6 DEF CopyElement, TypeOK
  <2>3. \/ UNCHANGED slots
        \/ x # None /\ \E i \in Probe(method[p], x) :
             slots' = [slots EXCEPT ![method[p]][i] = x]
    BY <1>6 DEF CopyElement, AddToNew
  <2> QED
    BY <1>2, <1>3, <2>1, <2>2, <2>3
<1>7. ASSUME NEW p \in Procs, CopyDone(p)
      PROVE  \A t \in Tables : Chained(t)'
  <2>1. method[p] \in Methods /\ method[p] \in Tables /\ UNCHANGED hash
    BY <1>1, <1>7 DEF CopyDone, TypeOK, Tables
  <2>2. \/ UNCHANGED slots
        \/ \E i \in Probe(method[p], method[p]) :
             slots' = [slots EXCEPT ![method[p]][i] = method[p]]
    BY <1>7 DEF CopyDone, AddToNew
  <2> QED
    BY <1>2, <1>3, <2>1, <2>2
<1>8. CASE UNCHANGED <<hash, slots>>
  BY <1>2, <1>8
<1> QED
  BY <1>4, <1>5, <1>6, <1>7, <1>8
  DEF Next, Step, vars, tableVars, AddMethod, AddLock, AddUnlock, Reload,
      GrowRetry, Publish, Kill

(* For any selector hash and any schedule, every method stored in a table is *)
(* met by the probe for its signature before a null element or a namesake.   *)
THEOREM ChainsUnbroken == Spec => []ProbeChains
<1>1. Init => ProbeChains
  BY DEF Init, ProbeChains, Elements, nMethods
<1> QED
  BY LockInit, LockStep, ChainsStep, <1>1, PTL DEF Spec

-----------------------------------------------------------------------------
(* addMethodsTo fills a table that is larger than the one it is to replace.  *)
LEMMA LargerStep ==
  ASSUME LockInv, LargerTable, [Next]_vars
  PROVE  LargerTable'
<1> SUFFICES ASSUME NEW q \in Procs, pc'[q] \in {"copy", "publish"}
             PROVE  hash'[method'[q]] > hash'[dispatch'[q]]
  BY DEF LargerTable
<1>1. /\ LockTypes /\ PrivateTables
      /\ hash \in [Tables -> Nat] /\ words \in [Procs -> Nat]
  BY DEF LockInv, TypeOK, LockTypes
<1>2. ASSUME NEW p \in Procs, GrowLock(p)
      PROVE  hash'[method'[q]] > hash'[dispatch'[q]]
  <2> DEFINE larger == IF words[p] < hash[dispatch[p]] + 1
                       THEN hash[dispatch[p]] + 1 ELSE words[p]
             asked == (larger * 100) \div 70
             prime == smallestPrimeAtLeast(asked)
  <2>1. /\ method[p] \in Methods /\ dispatch[p] \in Tables /\ words[p] \in Nat
        /\ method[p] # dispatch[p]
    BY <1>1, <1>2 DEF GrowLock, LockTypes, PrivateTables, Active, Unknown
  <2>2. larger \in Nat /\ larger > hash[dispatch[p]]
    BY <1>1, <2>1
  <2>3. asked \in Nat /\ asked >= larger
    <3> HIDE DEF larger
    <3> QED
      BY <2>2
  <2>4. asked <= MaxWords
    BY <1>2 DEF GrowLock, request, loadFactor
  <2>5. prime \in Nat /\ prime >= asked
    BY <2>3, <2>4, PrimeAtLeast, DispatchAssumption
  <2>6. /\ hash' = [hash EXCEPT ![method[p]] = prime]
        /\ pc' = [pc EXCEPT ![p] = "copy"]
        /\ UNCHANGED <<method, dispatch>>
    BY <1>2 DEF GrowLock, Goto, request, loadFactor
  <2>7. hash[dispatch[p]] \in Nat
    BY <1>1, <2>1
  <2> HIDE DEF larger, asked, prime
  <2>8. prime > hash[dispatch[p]]
    BY <2>2, <2>3, <2>5, <2>7
  <2>9. CASE q = p
    <3>1. hash'[method[p]] = prime /\ hash'[dispatch[p]] = hash[dispatch[p]]
      BY <1>1, <2>1, <2>6 DEF LockTypes, Tables
    <3> QED
      BY <2>6, <2>8, <2>9, <3>1
  <2>10. CASE q # p
    <3>1. pc[q] \in {"copy", "publish"}
      BY <2>6, <2>10, <1>1 DEF LockTypes
    <3>2. /\ method[q] # method[p] /\ dispatch[q] # method[p]
          /\ method[q] \in Tables /\ dispatch[q] \in Tables
      BY <1>1, <1>2, <2>10, <3>1
      DEF GrowLock, LockTypes, PrivateTables, Active, Unknown, Tables
    <3>3. hash'[method[q]] = hash[method[q]] /\ hash'[dispatch[q]] = hash[dispatch[q]]
      BY <1>1, <2>6, <3>2
    <3> QED
      BY <2>6, <3>1, <3>3 DEF LargerTable
  <2> QED
    BY <2>9, <2>10
<1>3. CASE /\ UNCHANGED hash
           /\ pc[q] \in {"copy", "publish"}
           /\ method'[q] = method[q] /\ dispatch'[q] = dispatch[q]
  BY <1>3 DEF LargerTable
<1>4. CASE UNCHANGED vars
  BY <1>3, <1>4 DEF vars, tableVars
<1>5. ASSUME NEW p \in Procs, NEW m \in todo, AddMethod(p, m)
      PROVE  hash'[method'[q]] > hash'[dispatch'[q]]
  BY <1>1, <1>3, <1>5 DEF AddMethod, Goto, tableVars, LockTypes
<1>6. ASSUME NEW p \in Procs, AddLock(p) \/ AddStore(p) \/ AddUnlock(p)
      PROVE  hash'[method'[q]] > hash'[dispatch'[q]]
  BY <1>1, <1>3, <1>6 DEF AddLock, AddStore, AddUnlock, Goto, LockTypes
<1>7. ASSUME NEW p \in Procs, Reload(p) \/ GrowRetry(p) \/ Publish(p) \/ Kill(p)
      PROVE  hash'[method'[q]] > hash'[dispatch'[q]]
  BY <1>1, <1>3, <1>7
  DEF Reload, GrowRetry, Publish, Kill, Goto, tableVars, LockTypes
<1>8. ASSUME NEW p \in Procs, CopyElement(p) \/ CopyDone(p)
      PROVE  hash'[method'[q]] > hash'[dispatch'[q]]
  BY <1>1, <1>3, <1>8 DEF CopyElement, CopyDone, AddToNew, Goto, LockTypes
<1> QED
  BY <1>2, <1>4, <1>5, <1>6, <1>7, <1>8 DEF Next, Step

(* A table is only ever replaced by a larger one, whatever is asked for. *)
THEOREM ReplacementsGrow == Spec => TablesGrow
<1>1. Init => LargerTable
  BY DEF Init, LargerTable
<1>2. LockInv /\ LargerTable /\ [Next]_vars
        => [current' # current => hash'[current'] > hash[current]]_vars
  <2> SUFFICES ASSUME LockInv, LargerTable, NEW p \in Procs, Publish(p)
               PROVE  hash'[current'] > hash[current]
    BY DEF Next, Step, AddMethod, AddLock, AddStore, AddUnlock, Reload,
           GrowRetry, GrowLock, CopyElement, CopyDone, Kill, vars
  <2>1. dispatch[p] = current
    BY DEF LockInv, LockHeldByOne, Updating, Publish
  <2> QED
    BY <2>1 DEF LargerTable, Publish, tableVars
<1> QED
  BY LockInit, LockStep, LargerStep, <1>1, <1>2, PTL DEF Spec, TablesGrow

(* One process updates a table at a time, and what a send finds published is *)
(* never a dead table, with any number of processes, methods and tables      *)
(* (execute.zig:1577-1585, 1629-1642).                                       *)
THEOREM TablesWellFormed == Spec => []WellFormed
  BY TypeCorrect, UpdatesExclude, CurrentNeverDead, PTL DEF WellFormed


-----------------------------------------------------------------------------
(* The tables implement the method dictionary. *)

(* Method m is in table t, anywhere. *)
Holds(t, m) == \E i \in Elements(t) : slots[t][i] = m

(* What addMethodsTo has moved to the new table so far, and at its end: the  *)
(* methods before the cursor, then all but the one the new method replaces.  *)
Copied(p) ==
  \A m \in Methods :
    /\ pc[p] = "copy" =>
         ( Holds(method[p], m) <=>
             \E i \in Elements(dispatch[p]) :
               i < cursor[p] /\ slots[dispatch[p]][i] = m )
    /\ pc[p] = "publish" =>
         ( Holds(method[p], m) <=>
             \/ m = method[p]
             \/ Holds(dispatch[p], m) /\ SigOf[m] # SigOf[method[p]] )

Copies == \A p \in Procs : Copied(p)

DictInv == LockInv /\ ProbeChains /\ Copies

-----------------------------------------------------------------------------
(* A signature has one element at most, and the probe for it finds that one. *)
LEMMA OneElement ==
  ASSUME TypeOK, NEW t \in Tables, Chained(t),
         NEW i \in Elements(t), NEW j \in Elements(t),
         slots[t][i] # None, slots[t][j] # None,
         SigOf[slots[t][i]] = SigOf[slots[t][j]]
  PROVE  i = j
<1> DEFINE s == SigOf[slots[t][i]]
           start == doHash(SelectorHash[s], hash[t])
<1>1. /\ start <= i
      /\ \A k \in Elements(t) : start <= k /\ k < i =>
           slots[t][k] # None /\ SigOf[slots[t][k]] # s
  BY DEF Chained, Found
<1>2. /\ start <= j
      /\ \A k \in Elements(t) : start <= k /\ k < j =>
           slots[t][k] # None /\ SigOf[slots[t][k]] # s
  BY DEF Chained, Found
<1>3. i \in Int /\ j \in Int
  BY DEF Elements
<1> HIDE DEF start
<1> QED
  BY <1>1, <1>2, <1>3

(* What a send finds is the method of its signature that the table holds.    *)
Answers ==
  \A s \in Sigs :
    /\ Lookup(s) \in { m \in Methods : SigOf[m] = s } \cup {None}
    /\ \A m \in Methods : SigOf[m] = s => (Lookup(s) = m <=> Holds(current, m))

LEMMA LookupFinds == TypeOK /\ ProbeChains => Answers
<1> SUFFICES ASSUME TypeOK, ProbeChains, NEW s \in Sigs
             PROVE  /\ Lookup(s) \in { m \in Methods : SigOf[m] = s } \cup {None}
                    /\ \A m \in Methods :
                         SigOf[m] = s => (Lookup(s) = m <=> Holds(current, m))
  BY DEF Answers
<1> DEFINE t == current
           c == CHOOSE i \in Found(t, s) : TRUE
<1>0. t \in Tables /\ Chained(t)
  BY DEF TypeOK, ProbeChains, Chained
<1>1. Found(t, s) \subseteq Elements(t)
  BY DEF Found
<1>2. ASSUME Found(t, s) # {}
      PROVE  /\ c \in Elements(t) /\ slots[t][c] # None /\ SigOf[slots[t][c]] = s
             /\ slots[t][c] \in Methods
             /\ Lookup(s) = slots[t][c]
  <2>1. c \in Found(t, s)
    BY <1>2
  <2>2. c \in Elements(t) /\ slots[t][c] # None /\ SigOf[slots[t][c]] = s
    <3> HIDE DEF c
    <3> QED BY <2>1 DEF Found
  <2>3. slots[t][c] \in Methods \cup {None}
    <3> HIDE DEF c
    <3> QED BY <1>0, <2>2 DEF TypeOK
  <2>4. Lookup(s) = slots[t][c]
    BY <1>2 DEF Lookup
  <2> QED BY <2>2, <2>3, <2>4
<1>3. ASSUME NEW m \in Methods, SigOf[m] = s, Holds(t, m)
      PROVE  Lookup(s) = m
  <2>1. PICK i \in Elements(t) : slots[t][i] = m
    BY <1>3 DEF Holds
  <2>2. m # None /\ i \in Found(t, s)
    BY <1>0, <1>3, <2>1, DispatchAssumption DEF Chained
  <2>3. Found(t, s) # {}
    BY <2>2
  <2>4. i = c
    <3> HIDE DEF c
    <3> QED BY <1>0, <1>2, <1>3, <2>1, <2>2, <2>3, OneElement
  <2> HIDE DEF c
  <2> QED BY <1>2, <2>1, <2>3, <2>4
<1>4. ASSUME NEW m \in Methods, Lookup(s) = m
      PROVE  Holds(t, m)
  <2>1. m # None
    BY DispatchAssumption
  <2>2. Found(t, s) # {}
    BY <1>4, <2>1 DEF Lookup
  <2> HIDE DEF c
  <2> QED BY <1>2, <1>4, <2>2 DEF Holds
<1>5. Found(t, s) = {} => Lookup(s) = None
  BY DEF Lookup
<1> HIDE DEF c
<1> QED BY <1>2, <1>3, <1>4, <1>5

(* Tables with the same elements hold the same methods. *)
LEMMA SameTable ==
  ASSUME NEW t \in Tables, slots'[t] = slots[t], hash'[t] = hash[t]
  PROVE  /\ \A m \in Methods : Holds(t, m)' <=> Holds(t, m)
         /\ Elements(t)' = Elements(t)
<1>1. Elements(t)' = Elements(t)
  BY DEF Elements
<1>2. \A m \in Methods : Holds(t, m)' <=> Holds(t, m)
  BY <1>1 DEF Holds
<1> QED BY <1>1, <1>2

(* A store makes the table hold the method, and no other of its signature.   *)
LEMMA StoreHolds ==
  ASSUME TypeOK, NEW t \in Tables, Chained(t), NEW m \in Methods,
         NEW i \in Probe(t, m), slots' = [slots EXCEPT ![t][i] = m],
         UNCHANGED hash
  PROVE  \A x \in Methods :
           Holds(t, x)' <=> x = m \/ (Holds(t, x) /\ SigOf[x] # SigOf[m])
<1>1. /\ i \in Elements(t)
      /\ slots[t][i] # None => SigOf[slots[t][i]] = SigOf[m]
  BY DEF Probe, Accepts
<1>2. /\ Elements(t)' = Elements(t)
      /\ slots'[t][i] = m
      /\ \A j \in Elements(t) : j # i => slots'[t][j] = slots[t][j]
  BY <1>1 DEF TypeOK, Elements
<1> SUFFICES ASSUME NEW x \in Methods
             PROVE  Holds(t, x)' <=> x = m \/ (Holds(t, x) /\ SigOf[x] # SigOf[m])
  OBVIOUS
<1>3. x # None /\ m # None
  BY DispatchAssumption
<1>4. Chained(t)'
  BY StoreKeepsChains
<1>5. CASE x = m
  <2>1. i \in Elements(t)' /\ slots'[t][i] = x
    BY <1>1, <1>2, <1>5
  <2> QED BY <1>5, <2>1 DEF Holds
<1>6. CASE x # m
  <2>1. ASSUME Holds(t, x)'
        PROVE  Holds(t, x) /\ SigOf[x] # SigOf[m]
    <3>1. PICK j \in Elements(t) : slots'[t][j] = x
      BY <1>2, <2>1 DEF Holds
    <3>2. j # i /\ slots[t][j] = x
      BY <1>2, <1>6, <3>1
    <3>3. SigOf[x] # SigOf[m]
      <4> SUFFICES ASSUME SigOf[x] = SigOf[m] PROVE FALSE
        OBVIOUS
      <4> DEFINE start == doHash(SelectorHash[SigOf[m]], hash[t])
      <4>1. start <= i /\ \A k \in Elements(t) : start <= k /\ k < i =>
              slots[t][k] # None /\ SigOf[slots[t][k]] # SigOf[m]
        BY DEF Probe, Accepts, lookupAddress
      <4>2. start <= j /\ \A k \in Elements(t) : start <= k /\ k < j =>
              slots[t][k] # None /\ SigOf[slots[t][k]] # SigOf[m]
        BY <1>3, <3>2 DEF Chained, Found
      <4>3. i \in Int /\ j \in Int
        BY <1>1 DEF Elements
      <4>4. j < i \/ i < j
        BY <3>2, <4>3
      <4>5. ~(j < i)
        BY <3>2, <4>1, <4>2
      <4>6. i < j => slots[t][i] # None /\ SigOf[slots[t][i]] # SigOf[m]
        BY <1>1, <4>1, <4>2
      <4> QED BY <1>1, <4>4, <4>5, <4>6
    <3> QED BY <3>2, <3>3 DEF Holds
  <2>2. ASSUME Holds(t, x), SigOf[x] # SigOf[m]
        PROVE  Holds(t, x)'
    <3>1. PICK j \in Elements(t) : slots[t][j] = x
      BY <2>2 DEF Holds
    <3>2. j # i
      BY <1>1, <1>3, <2>2, <3>1
    <3> QED BY <1>2, <3>1, <3>2 DEF Holds
  <2> QED BY <1>6, <2>1, <2>2
<1> QED BY <1>5, <1>6

-----------------------------------------------------------------------------
(* While p fills its new table, the other processes leave it alone, and the  *)
(* table it copies from as well.                                             *)
LEMMA OthersStayAway ==
  ASSUME LockInv, NEW p \in Procs, pc[p] \in {"copy", "publish"},
         NEW q \in Procs, q # p, Step(q) \/ \E m \in todo : AddMethod(q, m)
  PROVE  /\ pc'[p] = pc[p] /\ method'[p] = method[p]
         /\ dispatch'[p] = dispatch[p] /\ cursor'[p] = cursor[p]
         /\ \A t \in {method[p], dispatch[p]} :
              t \in Tables /\ slots'[t] = slots[t] /\ hash'[t] = hash[t]
<1>1. /\ LockTypes /\ PrivateTables /\ LockHeldByOne
      /\ cursor \in [Procs -> Nat]
      /\ hash \in [Tables -> Nat] /\ slots = [t \in Tables |-> slots[t]]
  BY DEF LockInv, TypeOK, LockTypes
<1>2. /\ method[p] \in Tables /\ dispatch[p] \in Tables
      /\ dispatch[q] # method[p]
      /\ Active(q) => method[q] # method[p]
      /\ Active(q) /\ pc[q] # "kill" => method[q] # dispatch[p]
      /\ Updating(q) => dispatch[q] # dispatch[p]
  BY <1>1 DEF LockTypes, Tables, PrivateTables, Active, Unknown, LockHeldByOne, Updating
<1>3. CASE \E m \in todo : AddMethod(q, m)
  BY <1>1, <1>2, <1>3 DEF AddMethod, Goto, tableVars, LockTypes
<1>4. CASE AddLock(q) \/ AddUnlock(q) \/ Reload(q) \/ GrowRetry(q) \/ Publish(q) \/ Kill(q)
  BY <1>1, <1>2, <1>4
  DEF AddLock, AddUnlock, Reload, GrowRetry, Publish, Kill, Goto, tableVars, LockTypes
<1>5. CASE AddStore(q)
  <2>1. /\ UNCHANGED <<hash, method, dispatch, cursor>> /\ pc'[p] = pc[p]
        /\ \/ UNCHANGED slots
           \/ \E i : slots' = [slots EXCEPT ![dispatch[q]][i] = method[q]]
    BY <1>1, <1>5 DEF AddStore, Goto, LockTypes
  <2>2. dispatch[q] # dispatch[p]
    BY <1>2, <1>5 DEF AddStore, Updating
  <2>3. \A t \in {method[p], dispatch[p]} : slots'[t] = slots[t]
    BY <1>1, <1>2, <2>1, <2>2
  <2> QED BY <1>2, <2>1, <2>3
<1>6. CASE GrowLock(q)
  <2>1. /\ UNCHANGED <<method, dispatch>> /\ pc'[p] = pc[p] /\ cursor'[p] = cursor[p]
        /\ \E h : hash' = [hash EXCEPT ![method[q]] = h]
        /\ \E row : slots' = [slots EXCEPT ![method[q]] = row]
    BY <1>1, <1>6 DEF GrowLock, Goto, LockTypes
  <2>2. method[q] # method[p] /\ method[q] # dispatch[p]
    BY <1>2, <1>6 DEF GrowLock, Active
  <2> QED BY <1>1, <1>2, <2>1, <2>2
<1>7. CASE CopyElement(q) \/ CopyDone(q)
  <2>1. /\ UNCHANGED <<hash, method, dispatch>> /\ pc'[p] = pc[p] /\ cursor'[p] = cursor[p]
        /\ \/ UNCHANGED slots
           \/ \E i, x : slots' = [slots EXCEPT ![method[q]][i] = x]
    BY <1>1, <1>7 DEF CopyElement, CopyDone, AddToNew, Goto, LockTypes
  <2>2. method[q] # method[p] /\ method[q] # dispatch[p]
    BY <1>2, <1>7 DEF CopyElement, CopyDone, Active
  <2>3. \A t \in {method[p], dispatch[p]} : slots'[t] = slots[t]
    BY <1>1, <1>2, <2>1, <2>2
  <2> QED BY <1>2, <2>1, <2>3
<1> QED BY <1>3, <1>4, <1>5, <1>6, <1>7 DEF Step

(* What only others do leaves the copy of p as it is. *)
LEMMA CopiedAlone ==
  ASSUME NEW p \in Procs, Copied(p),
         pc'[p] = pc[p], method'[p] = method[p], dispatch'[p] = dispatch[p],
         cursor'[p] = cursor[p],
         \A t \in {method[p], dispatch[p]} : slots'[t] = slots[t] /\ hash'[t] = hash[t]
  PROVE  Copied(p)'
  BY DEF Copied, Holds, Elements

(* Nobody copies when nobody was called. *)
LEMMA CopiesInit == Init => Copies
  BY DEF Init, Copies, Copied

(* A new table is empty (alloc, execute.zig:1599-1615). *)
LEMMA GrowCopied ==
  ASSUME LockInv, NEW p \in Procs, GrowLock(p)
  PROVE  Copied(p)'
<1>1. LockTypes /\ TypeOK /\ TypeOK' /\ PrivateTables
  BY TypeStep DEF LockInv, TypeOK, LockTypes, Next, Step
<1>2. /\ method[p] \in Methods /\ method[p] \in Tables
      /\ method'[p] = method[p] /\ dispatch'[p] = dispatch[p]
      /\ pc'[p] = "copy" /\ cursor'[p] = 0
      /\ slots' = [slots EXCEPT ![method[p]] = updateableSlots(smallestPrimeAtLeast(request(p)))]
  BY <1>1 DEF GrowLock, Goto, LockTypes, TypeOK, Tables
<1>3. \A i \in Elements(method[p])' : slots'[method[p]][i] = None
  <2>1. \E n : slots'[method[p]] = [i \in n |-> None]
    BY <1>1, <1>2 DEF updateableSlots, TypeOK
  <2>2. slots'[method[p]] \in [Elements(method[p])' -> Methods \cup {None}]
    BY <1>1, <1>2 DEF TypeOK
  <2> QED BY <2>1, <2>2
<1>4. \A m \in Methods : ~\E i \in Elements(method[p])' : slots'[method[p]][i] = m
  BY <1>3, DispatchAssumption
<1>5. \A i \in Elements(dispatch[p])' : ~(i < 0)
  BY DEF Elements
<1> QED BY <1>2, <1>4, <1>5 DEF Copied, Holds, Elements

(* One element is moved; no other of its signature was moved before, since   *)
(* the old table has one element for a signature.                            *)
LEMMA ElementCopied ==
  ASSUME LockInv, ProbeChains, NEW p \in Procs, Copied(p), CopyElement(p)
  PROVE  Copied(p)'
<1> DEFINE t == method[p]
           d == dispatch[p]
           c == cursor[p]
           x == slots[d][c]
<1>1. /\ TypeOK /\ t \in Methods /\ t \in Tables /\ d \in Tables /\ t # d
      /\ c \in Nat /\ c \in Elements(d) /\ x \in Methods \cup {None}
      /\ Chained(t) /\ Chained(d) /\ Elements(d) \subseteq Nat
  <2>1. TypeOK /\ t \in Methods /\ c \in Nat /\ c \in Elements(d) /\ d \in Tables
    BY DEF LockInv, TypeOK, CopyElement
  <2>2. t # d
    BY DEF LockInv, PrivateTables, Active, Unknown, CopyElement
  <2>3. x \in Methods \cup {None}
    BY <2>1 DEF TypeOK
  <2>4. Elements(d) \subseteq Nat
    BY DEF Elements
  <2>5. t \in Tables
    BY <2>1 DEF Tables
  <2> QED BY <2>1, <2>2, <2>3, <2>4, <2>5 DEF ProbeChains, Chained
<1>2. /\ pc[p] = "copy"
      /\ UNCHANGED <<hash, method, dispatch>>
      /\ Elements(d)' = Elements(d)
  BY DEF CopyElement, Elements
<1>3. CASE pc'[p] = "reload"
  BY <1>3 DEF Copied
<1>4. CASE x = None /\ UNCHANGED slots /\ cursor'[p] = c + 1 /\ pc'[p] = "copy"
  <2>1. \A m \in Methods : Holds(t, m)' = Holds(t, m)
    BY <1>2, <1>4 DEF Holds, Elements
  <2>2. \A m \in Methods, i \in Elements(d) :
          i < c + 1 /\ slots'[d][i] = m <=> i < c /\ slots[d][i] = m
    <3>1. \A i \in Elements(d) : i < c + 1 <=> i < c \/ i = c
      BY <1>1
    <3> QED BY <1>1, <1>4, <3>1, DispatchAssumption
  <2> HIDE DEF t, d, c, x
  <2>3. \A m \in Methods : Holds(t, m)' <=>
          \E i \in Elements(d) : i < c + 1 /\ slots'[d][i] = m
    <3>1. \A m \in Methods : Holds(t, m) <=>
            \E i \in Elements(d) : i < c /\ slots[d][i] = m
      BY <1>2 DEF Copied, t, d, c
    <3> QED BY <2>1, <2>2, <3>1
  <2> QED BY <1>2, <1>4, <2>3 DEF Copied, t, d, c
<1>5. ASSUME x # None, NEW i \in Probe(t, x), slots' = [slots EXCEPT ![t][i] = x],
             cursor'[p] = c + 1, pc'[p] = "copy"
      PROVE  Copied(p)'
  <2>1. x \in Methods
    BY <1>1, <1>5
  <2>2. \A m \in Methods :
          Holds(t, m)' <=> m = x \/ (Holds(t, m) /\ SigOf[m] # SigOf[x])
    BY <1>1, <1>2, <1>5, <2>1, StoreHolds
  <2>3. slots'[d] = slots[d]
    BY <1>1, <1>5 DEF TypeOK
  <2>4. \A j \in Elements(d) : j < c + 1 <=> j < c \/ j = c
    BY <1>1
  <2>5. \A j \in Elements(d) : slots[d][j] # None /\ SigOf[slots[d][j]] = SigOf[x] => j = c
    BY <1>1, <1>5, OneElement
  <2> HIDE DEF t, d, c, x
  <2>6. \A m \in Methods : Holds(t, m) <=>
          \E j \in Elements(d) : j < c /\ slots[d][j] = m
    BY <1>2 DEF Copied, t, d, c
  <2>7. \A j \in Elements(d) : j = c => ~(j < c) /\ slots[d][j] = x
    BY <1>1 DEF x
  <2>8. ASSUME NEW m \in Methods
        PROVE  Holds(t, m)' <=> \E j \in Elements(d) : j < c + 1 /\ slots'[d][j] = m
    <3>1. m # None
      BY DispatchAssumption
    <3>2. CASE m = x
      BY <1>1, <2>2, <2>3, <2>4, <2>7, <3>2
    <3>3. CASE m # x
      <4>1. Holds(t, m) => SigOf[m] # SigOf[x]
        BY <2>5, <2>6, <2>7, <3>1
      <4>2. Holds(t, m)' <=> Holds(t, m)
        BY <2>2, <3>3, <4>1
      <4> QED BY <2>3, <2>4, <2>6, <2>7, <3>3, <4>2
    <3> QED BY <3>2, <3>3
  <2> QED BY <1>2, <1>5, <2>8 DEF Copied, t, d, c
<1>6. \/ pc'[p] = "reload"
      \/ x = None /\ UNCHANGED slots /\ cursor'[p] = c + 1 /\ pc'[p] = "copy"
      \/ /\ x # None /\ cursor'[p] = c + 1 /\ pc'[p] = "copy"
         /\ \E i \in Probe(t, x) : slots' = [slots EXCEPT ![t][i] = x]
  BY <1>1, <1>2 DEF CopyElement, AddToNew, Goto, TypeOK
<1> QED BY <1>3, <1>4, <1>5, <1>6

(* The new method comes last and replaces its signature's (1597-1598).       *)
LEMMA LastCopied ==
  ASSUME LockInv, ProbeChains, NEW p \in Procs, Copied(p), CopyDone(p)
  PROVE  Copied(p)'
<1> DEFINE t == method[p]
           d == dispatch[p]
<1>1. /\ TypeOK /\ t \in Methods /\ t \in Tables /\ d \in Tables /\ t # d
      /\ Chained(t)
  BY DEF LockInv, TypeOK, PrivateTables, Active, Unknown, CopyDone, Tables,
         ProbeChains, Chained
<1>2. /\ pc[p] = "copy"
      /\ UNCHANGED <<hash, method, dispatch>>
      /\ cursor[p] \in Nat /\ cursor[p] \notin Elements(d)
      /\ hash[d] \in Nat
  BY <1>1 DEF CopyDone, TypeOK
<1>3. \A i \in Elements(d) : i < cursor[p]
  BY <1>2 DEF Elements, nMethods
<1>4. \A m \in Methods : Holds(t, m) <=> Holds(d, m)
  <2>1. \A m \in Methods : Holds(t, m) <=>
          \E i \in Elements(d) : i < cursor[p] /\ slots[d][i] = m
    BY <1>2 DEF Copied
  <2> QED BY <1>3, <2>1 DEF Holds
<1>5. CASE pc'[p] = "reload"
  BY <1>5 DEF Copied
<1>6. ASSUME NEW i \in Probe(t, t), slots' = [slots EXCEPT ![t][i] = t], pc'[p] = "publish"
      PROVE  Copied(p)'
  <2>1. \A m \in Methods :
          Holds(t, m)' <=> m = t \/ (Holds(t, m) /\ SigOf[m] # SigOf[t])
    BY <1>1, <1>2, <1>6, StoreHolds
  <2>2. slots'[d] = slots[d] /\ hash'[d] = hash[d]
    BY <1>1, <1>2, <1>6 DEF TypeOK
  <2>3. \A e \in Tables : e = d => \A m \in Methods : Holds(e, m)' <=> Holds(e, m)
    BY <2>2, SameTable
  <2>4. \A m \in Methods : Holds(d, m)' <=> Holds(d, m)
    BY <1>1, <1>2, <2>3
  <2>5. \A m \in Methods :
          Holds(t, m)' <=> m = t \/ (Holds(d, m)' /\ SigOf[m] # SigOf[t])
    BY <1>4, <2>1, <2>4
  <2> QED BY <1>2, <1>6, <2>5 DEF Copied
<1>7. \/ pc'[p] = "reload"
      \/ /\ pc'[p] = "publish"
         /\ \E i \in Probe(t, t) : slots' = [slots EXCEPT ![t][i] = t]
  BY <1>1 DEF CopyDone, AddToNew, Goto, TypeOK
<1> QED BY <1>5, <1>6, <1>7

(* No step of any process spoils a copy. *)
LEMMA CopiesStep ==
  ASSUME DictInv, [Next]_vars
  PROVE  Copies'
<1>1. LockInv /\ ProbeChains /\ LockTypes /\ \A p \in Procs : Copied(p)
  BY DEF DictInv, LockInv, TypeOK, LockTypes, Copies
<1> SUFFICES ASSUME NEW p \in Procs PROVE Copied(p)'
  BY DEF Copies
<1>2. CASE UNCHANGED vars
  BY <1>1, <1>2, CopiedAlone DEF vars, tableVars
<1>3. ASSUME NEW q \in Procs, Step(q) \/ \E m \in todo : AddMethod(q, m)
      PROVE  Copied(p)'
  <2>1. CASE q # p /\ pc[p] \in {"copy", "publish"}
    BY <1>1, <1>3, <2>1, OthersStayAway, CopiedAlone
  <2>2. CASE q # p /\ pc[p] \notin {"copy", "publish"}
    <3>1. pc'[p] = pc[p]
      <4>1. CASE \E m \in todo : AddMethod(q, m)
        BY <1>1, <2>2, <4>1 DEF AddMethod, Goto, LockTypes
      <4>2. CASE AddLock(q) \/ AddStore(q) \/ AddUnlock(q) \/ Reload(q) \/ GrowRetry(q)
        BY <1>1, <2>2, <4>2 DEF AddLock, AddStore, AddUnlock, Reload, GrowRetry, Goto, LockTypes
      <4>3. CASE GrowLock(q) \/ CopyElement(q) \/ CopyDone(q) \/ Publish(q) \/ Kill(q)
        BY <1>1, <2>2, <4>3 DEF GrowLock, CopyElement, CopyDone, AddToNew, Publish, Kill, Goto, LockTypes
      <4> QED BY <1>3, <4>1, <4>2, <4>3 DEF Step
    <3> QED BY <2>2, <3>1 DEF Copied
  <2>3. CASE q = p /\ GrowLock(q)
    BY <1>1, <2>3, GrowCopied
  <2>4. CASE q = p /\ CopyElement(q)
    BY <1>1, <2>4, ElementCopied
  <2>5. CASE q = p /\ CopyDone(q)
    BY <1>1, <2>5, LastCopied
  <2>6. CASE q = p /\ ~GrowLock(q) /\ ~CopyElement(q) /\ ~CopyDone(q)
    <3>1. pc'[p] \notin {"copy", "publish"}
      BY <1>1, <1>3, <2>6
      DEF Step, AddMethod, AddLock, AddStore, AddUnlock, Reload, GrowRetry, Publish, Kill,
          Goto, LockTypes
    <3> QED BY <3>1 DEF Copied
  <2> QED BY <2>1, <2>2, <2>3, <2>4, <2>5, <2>6
<1> QED BY <1>2, <1>3 DEF Next

-----------------------------------------------------------------------------
(* The phases.  A method in hand is called until it is in the current table. *)
InHand(m) == \E p \in Procs : Adding(p, m)
Stored(p) == (pc[p] = "unlock" /\ added[p]) \/ pc[p] = "kill"

(* Phase, by the three facts it depends on. *)
LEMMA PhaseIs ==
  ASSUME NEW m \in Methods
  PROVE  Phase(m) = IF m \in todo THEN "new"
                    ELSE IF ~InHand(m) THEN "returned"
                    ELSE IF \E p \in Procs : Adding(p, m) /\ Stored(p)
                    THEN "installed" ELSE "called"
  BY DEF Phase, InHand, Stored

HandedOut ==
  \A p \in Procs : pc[p] # "idle" =>
    Phase(method[p]) = IF Stored(p) THEN "installed" ELSE "called"

(* The phase of a method in hand is where its process is. *)
LEMMA PhaseInHand == LockInv => HandedOut
<1> SUFFICES ASSUME LockInv, NEW p \in Procs, pc[p] # "idle"
             PROVE  Phase(method[p]) = IF Stored(p) THEN "installed" ELSE "called"
  BY DEF HandedOut
<1>1. /\ method[p] \in Methods /\ method[p] \notin todo /\ Adding(p, method[p])
      /\ \A q \in Procs : Adding(q, method[p]) => q = p
  BY DEF LockInv, TypeOK, PrivateTables, Active, Adding
<1>2. InHand(method[p])
  BY <1>1 DEF InHand
<1>3. (\E q \in Procs : Adding(q, method[p]) /\ Stored(q)) <=> Stored(p)
  BY <1>1
<1> QED BY <1>1, <1>2, <1>3, PhaseIs

(* A process has no influence on the phases of what it has not in hand.      *)
LEMMA OthersPhase ==
  ASSUME LockTypes, NEW p \in Procs,
         \A q \in Procs \ {p} :
           pc'[q] = pc[q] /\ method'[q] = method[q] /\ added'[q] = added[q],
         NEW x \in Methods, ~Adding(p, x), ~Adding(p, x)',
         x \in todo' <=> x \in todo
  PROVE  Phase(x)' = Phase(x)
<1>1. \A q \in Procs : (Adding(q, x)' <=> Adding(q, x))
                       /\ ((Adding(q, x) /\ Stored(q))' <=> (Adding(q, x) /\ Stored(q)))
  BY DEF Adding, Stored
<1>2. InHand(x)' <=> InHand(x)
  BY <1>1 DEF InHand
<1>3. (\E q \in Procs : Adding(q, x) /\ Stored(q))' <=> (\E q \in Procs : Adding(q, x) /\ Stored(q))
  BY <1>1
<1>4. Phase(x)' = IF x \in todo' THEN "new"
                  ELSE IF ~InHand(x)' THEN "returned"
                  ELSE IF (\E q \in Procs : Adding(q, x) /\ Stored(q))'
                  THEN "installed" ELSE "called"
  BY DEF Phase, InHand, Stored
<1> QED BY <1>2, <1>3, <1>4, PhaseIs

(* The steps of the dictionary, in terms of Phase and Lookup. *)
Unasked == \A s \in Sigs : Lookup(s)' = Lookup(s)
OnlyPhase(m) == \A x \in Methods : x # m => Phase(x)' = Phase(x)

LEMMA Calls ==
  ASSUME NEW m \in Methods, Phase(m) = "new", Phase(m)' = "called", OnlyPhase(m), Unasked
  PROVE  Dictionary!Call(m)
  BY DEF OnlyPhase, Unasked, Dictionary!Call

LEMMA Installs ==
  ASSUME NEW m \in Methods, Phase(m) = "called", Phase(m)' = "installed", OnlyPhase(m),
         Lookup(SigOf[m])' = m, \A s \in Sigs : s # SigOf[m] => Lookup(s)' = Lookup(s)
  PROVE  Dictionary!Install(m)
  BY DispatchAssumption DEF OnlyPhase, Dictionary!Install

LEMMA Returns ==
  ASSUME NEW m \in Methods, Phase(m) = "installed", Phase(m)' = "returned", OnlyPhase(m),
         Unasked
  PROVE  Dictionary!Return(m)
  BY DEF OnlyPhase, Unasked, Dictionary!Return

LEMMA Stutters ==
  ASSUME \A x \in Methods : Phase(x)' = Phase(x), Unasked
  PROVE  UNCHANGED Dictionary!dictVars
  BY DEF Unasked, Dictionary!dictVars

(* What is held decides what is found. *)
LEMMA SameAnswers ==
  ASSUME Answers, Answers', NEW s \in Sigs,
         \A m \in Methods : SigOf[m] = s => (Holds(current, m)' <=> Holds(current, m))
  PROVE  Lookup(s)' = Lookup(s)
  BY DispatchAssumption DEF Answers

(* A table that holds m in place of its signature's method answers with m,   *)
(* and all other sends as before.                                            *)
LEMMA NewAnswers ==
  ASSUME Answers, Answers', NEW m \in Methods,
         \A x \in Methods : Holds(current, x)' <=>
           x = m \/ (Holds(current, x) /\ SigOf[x] # SigOf[m])
  PROVE  /\ Lookup(SigOf[m])' = m
         /\ \A s \in Sigs : s # SigOf[m] => Lookup(s)' = Lookup(s)
<1>1. SigOf[m] \in Sigs
  BY DispatchAssumption
<1>2. Lookup(SigOf[m])' = m
  BY <1>1 DEF Answers
<1>3. ASSUME NEW s \in Sigs, s # SigOf[m]
      PROVE  Lookup(s)' = Lookup(s)
  <2>1. \A x \in Methods : SigOf[x] = s => (Holds(current, x)' <=> Holds(current, x))
    BY <1>3
  <2> QED BY <2>1, SameAnswers
<1> QED BY <1>2, <1>3

(* Nothing in the current table changed: no send is answered differently.    *)
LEMMA Quiet ==
  ASSUME TypeOK, Answers, Answers', UNCHANGED current,
         slots'[current] = slots[current], hash'[current] = hash[current]
  PROVE  Unasked
<1>1. \A m \in Methods : Holds(current, m)' <=> Holds(current, m)
  BY DEF Holds, Elements
<1> QED BY <1>1, SameAnswers DEF Unasked

(* A step inside addMethod concerns the phase of its argument only. *)
LEMMA OwnPhase ==
  ASSUME LockTypes, added \in [Procs -> BOOLEAN], NEW p \in Procs, Step(p)
  PROVE  /\ pc[p] # "idle" /\ method[p] \in Methods
         /\ UNCHANGED <<method, todo>>
         /\ OnlyPhase(method[p])
<1> USE DEF LockTypes
<1>1. /\ pc[p] # "idle" /\ UNCHANGED <<method, todo>>
      /\ \A q \in Procs \ {p} : pc'[q] = pc[q] /\ added'[q] = added[q]
  <2>1. CASE AddLock(p) \/ AddStore(p) \/ AddUnlock(p) \/ Reload(p) \/ GrowRetry(p)
    BY <2>1 DEF AddLock, AddStore, AddUnlock, Reload, GrowRetry, Goto
  <2>2. CASE GrowLock(p)
    BY <2>2 DEF GrowLock, Goto
  <2>3. CASE CopyElement(p) \/ CopyDone(p)
    BY <2>3 DEF CopyElement, CopyDone, AddToNew, Goto
  <2>4. CASE Publish(p) \/ Kill(p)
    BY <2>4 DEF Publish, Kill, Goto
  <2> QED BY <2>1, <2>2, <2>3, <2>4 DEF Step
<1>2. ASSUME NEW x \in Methods, x # method[p]
      PROVE  Phase(x)' = Phase(x)
  <2>1. ~Adding(p, x) /\ ~Adding(p, x)'
    BY <1>1, <1>2 DEF Adding
  <2> QED BY <1>1, <2>1, OthersPhase
<1> QED BY <1>1, <1>2 DEF OnlyPhase

(* Every step of the tables is a step of the dictionary or none. *)
LEMMA DictionaryStep ==
  ASSUME DictInv, DictInv', [Next]_vars
  PROVE  [Dictionary!Next]_(Dictionary!dictVars)
<1>1. /\ LockInv /\ TypeOK /\ LockTypes /\ PrivateTables /\ LockHeldByOne
      /\ added \in [Procs -> BOOLEAN]
      /\ \A t \in Tables : Chained(t)
  BY DEF DictInv, LockInv, TypeOK, LockTypes, ProbeChains, Chained
<1>2. Answers /\ Answers'
  <2>1. TypeOK /\ ProbeChains /\ TypeOK' /\ ProbeChains'
    BY DEF DictInv, LockInv
  <2> QED BY <2>1, LookupFinds, PTL
<1>3. HandedOut /\ HandedOut'
  <2>1. LockInv /\ LockInv'
    BY DEF DictInv
  <2> QED BY <2>1, PhaseInHand, PTL
<1>4. CASE UNCHANGED vars
  <2>1. \A x \in Methods : Phase(x)' = Phase(x)
    BY <1>4 DEF vars, Phase, Adding
  <2>2. Unasked
    BY <1>1, <1>2, <1>4, Quiet DEF vars, tableVars
  <2> QED BY <2>1, <2>2, Stutters
<1>5. ASSUME NEW p \in Procs, NEW m \in todo, AddMethod(p, m)
      PROVE  Dictionary!Next
  <2>1. /\ m \in Methods /\ method'[p] = m /\ pc'[p] = "lock" /\ pc[p] = "idle"
        /\ todo' = todo \ {m} /\ UNCHANGED <<current, hash, slots, added>>
        /\ \A q \in Procs \ {p} : pc'[q] = pc[q] /\ method'[q] = method[q]
    BY <1>1, <1>5 DEF AddMethod, Goto, tableVars, LockTypes
  <2>2. Phase(m) = "new"
    BY DEF Phase
  <2>3. Phase(m)' = "called"
    BY <1>3, <2>1 DEF HandedOut, Stored
  <2>4. ASSUME NEW x \in Methods, x # m
        PROVE  Phase(x)' = Phase(x)
    <3>1. ~Adding(p, x) /\ ~Adding(p, x)' /\ (x \in todo' <=> x \in todo)
      BY <2>1, <2>4 DEF Adding
    <3> QED BY <1>1, <2>1, <3>1, OthersPhase
  <2>5. Unasked
    BY <1>1, <1>2, <2>1, Quiet
  <2>6. Dictionary!Call(m)
    BY <2>1, <2>2, <2>3, <2>4, <2>5, Calls DEF OnlyPhase
  <2> QED BY <2>1, <2>6 DEF Dictionary!Next
<1>6. ASSUME NEW p \in Procs, Step(p)
      PROVE  [Dictionary!Next]_(Dictionary!dictVars)
  <2> DEFINE m == method[p]
  <2>1. /\ pc[p] # "idle" /\ m \in Methods /\ UNCHANGED <<method, todo>>
        /\ OnlyPhase(m)
    BY <1>1, <1>6, OwnPhase
  <2>2. /\ Phase(m) = IF Stored(p) THEN "installed" ELSE "called"
        /\ pc'[p] # "idle" =>
             Phase(m)' = IF Stored(p)' THEN "installed" ELSE "called"
    BY <1>3, <2>1 DEF HandedOut
  <2>3. m \in Tables /\ dispatch[p] \in Tables /\ (pc[p] # "kill" => m # current)
        /\ (Updating(p) /\ pc[p] # "kill" => dispatch[p] = current)
    BY <1>1, <2>1 DEF LockTypes, Tables, PrivateTables, Active, Unknown, LockHeldByOne
  <2>4. ASSUME ~Stored(p), ~Stored(p)', pc'[p] # "idle", Unasked
        PROVE  UNCHANGED Dictionary!dictVars
    <3>1. \A x \in Methods : Phase(x)' = Phase(x)
      BY <2>1, <2>2, <2>4 DEF OnlyPhase
    <3> QED BY <2>4, <3>1, Stutters
  <2>5. ASSUME Stored(p), pc'[p] = "idle", UNCHANGED <<current, hash, slots>>,
               \A q \in Procs \ {p} : pc'[q] = pc[q]
        PROVE  Dictionary!Return(m)
    <3>1. Phase(m) = "installed"
      BY <2>2, <2>5
    <3>2. Phase(m)' = "returned"
      <4>1. m \notin todo' /\ \A q \in Procs : ~Adding(q, m)'
        BY <1>1, <2>1, <2>5 DEF PrivateTables, Active, Adding
      <4> QED BY <2>1, <4>1 DEF Phase
    <3>3. Unasked
      BY <1>1, <1>2, <2>5, Quiet
    <3> QED BY <2>1, <3>1, <3>2, <3>3, Returns
  <2>6. ASSUME ~Stored(p), Stored(p)', pc'[p] # "idle",
               \A x \in Methods : Holds(current, x)' <=>
                 x = m \/ (Holds(current, x) /\ SigOf[x] # SigOf[m])
        PROVE  Dictionary!Install(m)
    <3>1. Phase(m) = "called" /\ Phase(m)' = "installed"
      BY <2>2, <2>6
    <3>2. /\ Lookup(SigOf[m])' = m
          /\ \A s \in Sigs : s # SigOf[m] => Lookup(s)' = Lookup(s)
      BY <1>2, <2>1, <2>6, NewAnswers
    <3> QED BY <2>1, <3>1, <3>2, Installs
  <2> HIDE DEF m
  <2>7. CASE AddLock(p) \/ Reload(p) \/ GrowRetry(p)
    <3>1. /\ UNCHANGED <<current, hash, slots>>
          /\ pc[p] \in {"lock", "reload", "growLock"}
          /\ pc'[p] \in {"probe", "reload", "growLock"}
      BY <1>1, <2>7 DEF AddLock, Reload, GrowRetry, Goto, tableVars, LockTypes
    <3>2. Unasked
      BY <1>1, <1>2, <3>1, Quiet
    <3> QED BY <2>4, <3>1, <3>2 DEF Stored
  <2>8. CASE AddStore(p)
    <3>1. /\ pc[p] = "probe" /\ pc'[p] = "unlock" /\ UNCHANGED <<current, hash>>
          /\ dispatch[p] = current
      BY <1>1, <2>3, <2>8 DEF AddStore, Goto, LockTypes, Updating
    <3>2. CASE NoRoom(current, m) /\ added' = [added EXCEPT ![p] = FALSE] /\ UNCHANGED slots
      <4>1. Unasked
        BY <1>1, <1>2, <3>1, <3>2, Quiet
      <4> QED BY <1>1, <2>4, <3>1, <3>2, <4>1 DEF Stored
    <3>3. ASSUME NEW i \in Probe(current, m), slots' = [slots EXCEPT ![current][i] = m],
                 added' = [added EXCEPT ![p] = TRUE]
          PROVE  Dictionary!Install(m)
      <4>1. \A t \in Tables : t = current => \A x \in Methods :
              Holds(t, x)' <=> x = m \/ (Holds(t, x) /\ SigOf[x] # SigOf[m])
        BY <1>1, <2>1, <3>1, <3>3, StoreHolds
      <4>2. \A x \in Methods :
              Holds(current, x)' <=> x = m \/ (Holds(current, x) /\ SigOf[x] # SigOf[m])
        BY <1>1, <3>1, <4>1 DEF LockTypes
      <4> QED BY <1>1, <2>6, <3>1, <3>3, <4>2 DEF Stored
    <3> QED BY <2>1, <2>8, <3>1, <3>2, <3>3 DEF AddStore, Dictionary!Next, m
  <2>9. CASE AddUnlock(p)
    <3>1. /\ pc[p] = "unlock" /\ UNCHANGED <<current, hash, slots, added>>
          /\ pc'[p] = IF added[p] THEN "idle" ELSE "reload"
          /\ \A q \in Procs \ {p} : pc'[q] = pc[q]
      BY <1>1, <2>9 DEF AddUnlock, Goto, LockTypes
    <3>2. CASE added[p]
      BY <2>1, <2>5, <3>1, <3>2 DEF Stored, Dictionary!Next
    <3>3. CASE ~added[p]
      <4>1. Unasked
        BY <1>1, <1>2, <3>1, Quiet
      <4> QED BY <2>4, <3>1, <3>3, <4>1 DEF Stored
    <3> QED BY <3>2, <3>3
  <2>10. CASE GrowLock(p)
    <3>1. /\ pc[p] = "growLock" /\ pc'[p] = "copy" /\ UNCHANGED current
          /\ \E h : hash' = [hash EXCEPT ![m] = h]
          /\ \E row : slots' = [slots EXCEPT ![m] = row]
      BY <1>1, <2>10 DEF GrowLock, Goto, LockTypes, m
    <3>2. slots'[current] = slots[current] /\ hash'[current] = hash[current]
      BY <1>1, <2>3, <3>1 DEF TypeOK
    <3>3. Unasked
      BY <1>1, <1>2, <3>1, <3>2, Quiet
    <3> QED BY <2>4, <3>1, <3>3 DEF Stored
  <2>11. CASE CopyElement(p) \/ CopyDone(p)
    <3>1. /\ pc[p] = "copy" /\ pc'[p] \in {"copy", "reload", "publish"}
          /\ UNCHANGED <<current, hash>>
          /\ \/ UNCHANGED slots
             \/ \E i, x : slots' = [slots EXCEPT ![m][i] = x]
      BY <1>1, <2>11 DEF CopyElement, CopyDone, AddToNew, Goto, LockTypes, m
    <3>2. slots'[current] = slots[current] /\ hash'[current] = hash[current]
      BY <1>1, <2>3, <3>1 DEF TypeOK
    <3>3. Unasked
      BY <1>1, <1>2, <3>1, <3>2, Quiet
    <3> QED BY <2>4, <3>1, <3>3 DEF Stored
  <2>12. CASE Publish(p)
    <3>1. /\ pc[p] = "publish" /\ pc'[p] = "kill" /\ current' = m
          /\ UNCHANGED <<hash, slots>> /\ dispatch[p] = current
      BY <1>1, <2>3, <2>12 DEF Publish, Goto, tableVars, LockTypes, Updating, m
    <3>2. \A x \in Methods :
            Holds(m, x) <=> x = m \/ (Holds(current, x) /\ SigOf[x] # SigOf[m])
      BY <3>1 DEF DictInv, Copies, Copied, m
    <3>3. \A x \in Methods : Holds(current, x)' <=> Holds(m, x)
      BY <3>1 DEF Holds, Elements
    <3> QED BY <2>1, <2>6, <3>1, <3>2, <3>3 DEF Stored, Dictionary!Next
  <2>13. CASE Kill(p)
    <3>1. /\ pc[p] = "kill" /\ pc'[p] = "idle" /\ UNCHANGED <<current, hash, slots>>
          /\ \A q \in Procs \ {p} : pc'[q] = pc[q]
      BY <1>1, <2>13 DEF Kill, Goto, LockTypes
    <3> QED BY <2>1, <2>5, <3>1 DEF Stored, Dictionary!Next
  <2> QED BY <1>6, <2>7, <2>8, <2>9, <2>10, <2>11, <2>12, <2>13 DEF Step
<1> QED BY <1>4, <1>5, <1>6 DEF Next

(* The tables under concurrent addMethod (execute.zig:1572-1661) implement   *)
(* the dictionary, for any number of processes, methods and signatures: each *)
(* addMethod takes effect in one step between its call and its return, and   *)
(* no step, of growth in particular, loses a method or brings one back.      *)
THEOREM ImplementsAbstractDictionary == Spec => ImplementsDictionary
<1>1. Init => DictInv
  <2>1. Init => ProbeChains
    BY DEF Init, ProbeChains, Elements, nMethods
  <2> QED BY <2>1, LockInit, CopiesInit DEF DictInv
<1>2. DictInv /\ [Next]_vars => DictInv'
  BY LockStep, ChainsStep, CopiesStep DEF DictInv
<1>3. Init => Dictionary!Init
  <2> SUFFICES ASSUME Init PROVE Dictionary!Init
    OBVIOUS
  <2>1. \A s \in Sigs : Lookup(s) = None
    <3>1. hash[current] = 0
      BY DEF Init, Tables
    <3>2. Elements(current) = {}
      BY <3>1 DEF Elements, nMethods
    <3> QED BY <3>2 DEF Lookup, Found
  <2>2. \A m \in Methods : Phase(m) = "new"
    BY DEF Init, Phase
  <2> QED BY <2>1, <2>2 DEF Dictionary!Init
<1>4. DictInv /\ DictInv' /\ [Next]_vars => [Dictionary!Next]_(Dictionary!dictVars)
  BY DictionaryStep
<1> QED
  BY <1>1, <1>2, <1>3, <1>4, PTL DEF Spec, ImplementsDictionary, Dictionary!Spec
=============================================================================

---------------------------- MODULE LockingTreap ----------------------------
(***************************************************************************)
(* The interner of the Rust VM (rust/src/treap.rs): a treap behind a       *)
(* read-write lock.  The symbol table and the class table are instances.   *)
(*                                                                         *)
(* A key's index is its position in the treap's table.  Nothing is ever    *)
(* removed, so `free` is always the length of the table and the search of  *)
(* insertElement for an empty element finds the end of it.  The initial    *)
(* keys are put in by the first call that needs the table.                 *)
(*                                                                         *)
(* What a thread does between two operations on the lock is invisible to   *)
(* the others; it is one step, split where the code has a guard of its own.*)
(* An operator named after another one with a suffix is that one with a    *)
(* slip in it, for the runs that show a property to notice it.             *)
(***************************************************************************)
EXTENDS Integers, Sequences

CONSTANTS
  Threads,
  Keys,        (* the ordered type K                                        *)
  InitKeys,    (* the argument `init` of LockingTreap::new                  *)
  NoThread,
  NoAnswer

ASSUME KeysAssumption ==
  /\ Keys \subseteq Int
  /\ InitKeys \in Seq(Keys) /\ InitKeys # <<>>
  /\ \A i, j \in DOMAIN InitKeys : i # j => InitKeys[i] # InitKeys[j]
  /\ NoThread \notin Threads
  /\ NoAnswer \notin Int

VARIABLES
  treap,       (* the Treap: value, left, right of each position, root, free*)
  readers,     (* threads with a read guard                                 *)
  writer,      (* the thread with the write guard                           *)
  pc,
  call,        (* the operation a thread is in and its argument             *)
  answer       (* what it returned                                          *)

lockVars == <<readers, writer>>
vars == <<treap, lockVars, pc, call, answer>>

-----------------------------------------------------------------------------
(* The treap: a search tree by key, a heap by priority.                    *)

Nowhere == -1

(* (pos + 1) * 1999999973 modulo 2^32, as two halves of 16 bits. *)
priority(pos) ==
  LET low == (pos + 1) * 37861
  IN <<((pos + 1) * 30517 + low \div 65536) % 65536, low % 65536>>

Outranks(p, q) ==
  LET a == priority(p)
      b == priority(q)
  IN a[1] > b[1] \/ (a[1] = b[1] /\ a[2] > b[2])

EmptyTreap == [value |-> <<>>, left |-> <<>>, right |-> <<>>, root |-> Nowhere, free |-> 0]

rightRotateLosing(t, y) ==
  LET x == t.left[y]
  IN [t EXCEPT !.left[y] = Nowhere, !.right[x] = y, !.root = x]

(* Rotations return the new root of the subtree, here in the field root. *)
rightRotate(t, y) ==
  LET x == t.left[y]
  IN [t EXCEPT !.left[y] = t.right[x], !.right[x] = y, !.root = x]

leftRotate(t, x) ==
  LET y == t.right[x]
  IN [t EXCEPT !.right[x] = t.left[y], !.left[y] = x, !.root = y]

(* `target` is in the left (right) subtree of r now, whose new root is u.root. *)
insertedLeft(u, r) ==
  LET v == [u EXCEPT !.left[r] = u.root, !.root = r]
  IN IF Outranks(u.root, r) THEN rightRotate(v, r) ELSE v

insertedRight(u, r) ==
  LET v == [u EXCEPT !.right[r] = u.root, !.root = r]
  IN IF Outranks(u.root, r) THEN leftRotate(v, r) ELSE v

(* Descend to where the key of `target` belongs; rotate on the way back. *)
insert(t, target) ==
  LET into[r \in {Nowhere} \cup DOMAIN t.value] ==
        IF r = Nowhere THEN [t EXCEPT !.root = target]
        ELSE IF t.value[target] < t.value[r]
        THEN insertedLeft(into[t.left[r]], r)
        ELSE insertedRight(into[t.right[r]], r)
  IN into[t.root]

Push(f, x) == [i \in DOMAIN f \cup {treap.free} |-> IF i = treap.free THEN x ELSE f[i]]

(* A new element behind the others, inserted in the tree. *)
Extended(key) ==
  insert([value |-> Push(treap.value, key), left |-> Push(treap.left, Nowhere),
          right |-> Push(treap.right, Nowhere), root |-> treap.root,
          free |-> treap.free + 1],
         treap.free)

lookup(key) ==
  LET under[r \in {Nowhere} \cup DOMAIN treap.value] ==
        IF r = Nowhere \/ treap.value[r] = key THEN r
        ELSE under[IF treap.value[r] < key THEN treap.right[r] ELSE treap.left[r]]
  IN under[treap.root]

checkInitialized == treap.free >= Len(InitKeys)

-----------------------------------------------------------------------------
Interns(k) == [op |-> "intern", arg |-> k]
Asks(i) == [op |-> "at", arg |-> i]

Goto(th, l) == pc' = [pc EXCEPT ![th] = l]

Init ==
  /\ treap = EmptyTreap
  /\ readers = {} /\ writer = NoThread
  /\ pc = [th \in Threads |-> "idle"]
  /\ call = [th \in Threads |-> Asks(0)]
  /\ answer = [th \in Threads |-> 0]

(* Indices asked for are those of initial keys and those intern returned. *)
Call(th) ==
  /\ pc[th] = "idle"
  /\ \/ \E k \in Keys : call' = [call EXCEPT ![th] = Interns(k)]
     \/ \E i \in DOMAIN treap.value \cup 0 .. Len(InitKeys) - 1 :
          call' = [call EXCEPT ![th] = Asks(i)]
  /\ answer' = [answer EXCEPT ![th] = NoAnswer]
  /\ Goto(th, "read")
  /\ UNCHANGED <<treap, lockVars>>

ReadLock(th) ==
  /\ pc[th] = "read"
  /\ writer = NoThread
  /\ readers' = readers \cup {th}
  /\ Goto(th, "reading")
  /\ UNCHANGED <<treap, writer, call, answer>>

(* What the call can return from the table as it is. *)
Found(th) ==
  /\ checkInitialized
  /\ call[th].op = "intern" => lookup(call[th].arg) # Nowhere

Result(th) ==
  IF call[th].op = "at" THEN treap.value[call[th].arg] ELSE lookup(call[th].arg)

ReadHit(th) ==
  /\ pc[th] = "reading"
  /\ Found(th)
  /\ answer' = [answer EXCEPT ![th] = Result(th)]
  /\ readers' = readers \ {th}
  /\ Goto(th, "idle")
  /\ UNCHANGED <<treap, writer, call>>

(* The read guard goes out of scope before the write lock is requested. *)
ReadMiss(th) ==
  /\ pc[th] = "reading"
  /\ ~Found(th)
  /\ readers' = readers \ {th}
  /\ Goto(th, "write")
  /\ UNCHANGED <<treap, writer, call, answer>>

WriteLock(th) ==
  /\ pc[th] = "write"
  /\ writer = NoThread /\ readers = {}
  /\ writer' = th
  /\ Goto(th, "writing")
  /\ UNCHANGED <<treap, readers, call, answer>>

(* One iteration of ensureInitialized. *)
EnsureInitialized(th) ==
  /\ pc[th] = "writing"
  /\ ~checkInitialized
  /\ treap' = Extended(InitKeys[treap.free + 1])
  /\ UNCHANGED <<lockVars, pc, call, answer>>

(* The key may have been added while waiting for the lock. *)
WriteHit(th) ==
  /\ pc[th] = "writing"
  /\ Found(th)
  /\ answer' = [answer EXCEPT ![th] = Result(th)]
  /\ writer' = NoThread
  /\ Goto(th, "idle")
  /\ UNCHANGED <<treap, readers, call>>

MissUnchecked(th) ==
  /\ pc[th] = "writing"
  /\ checkInitialized /\ call[th].op = "intern"
  /\ Goto(th, "inserting")
  /\ UNCHANGED <<treap, lockVars, call, answer>>

MissUninitialized(th) ==
  /\ pc[th] = "writing"
  /\ call[th].op = "intern" /\ lookup(call[th].arg) = Nowhere
  /\ Goto(th, "inserting")
  /\ UNCHANGED <<treap, lockVars, call, answer>>

WriteMiss(th) ==
  /\ pc[th] = "writing"
  /\ checkInitialized /\ ~Found(th)
  /\ Goto(th, "inserting")
  /\ UNCHANGED <<treap, lockVars, call, answer>>

InsertElement(th) ==
  /\ pc[th] = "inserting"
  /\ treap' = Extended(call[th].arg)
  /\ answer' = [answer EXCEPT ![th] = treap.free]
  /\ writer' = NoThread
  /\ Goto(th, "idle")
  /\ UNCHANGED <<readers, call>>

Next ==
  \E th \in Threads :
    \/ Call(th)
    \/ ReadLock(th) \/ ReadHit(th) \/ ReadMiss(th)
    \/ WriteLock(th) \/ EnsureInitialized(th)
    \/ WriteHit(th) \/ WriteMiss(th) \/ InsertElement(th)

Spec == Init /\ [][Next]_vars

-----------------------------------------------------------------------------
Positions == 0 .. treap.free - 1

(* Type invariant; the guards are held exactly where the scopes of the code  *)
(* say, so no thread waits for the write lock with a read guard of its own.  *)
TypeOK ==
  /\ treap.value \in [Positions -> Keys]
  /\ treap.left \in [Positions -> Positions \cup {Nowhere}]
  /\ treap.right \in [Positions -> Positions \cup {Nowhere}]
  /\ treap.root \in Positions \cup {Nowhere}
  /\ readers = {th \in Threads : pc[th] = "reading"}
  /\ \A th \in Threads : writer = th <=> pc[th] \in {"writing", "inserting"}
  /\ writer # NoThread => readers = {}

(* lookup finds every key of the table, at its position: no rotation loses a *)
(* subtree or puts it on the wrong side.                                     *)
EveryKeyFound == \A i \in Positions : lookup(treap.value[i]) = i

(* "Fix Heap property if it is violated" (treap.rs:119, 128): no element     *)
(* outranks its parent.                                                      *)
HeapOrdered ==
  \A i \in Positions :
    ~Outranks(treap.left[i], i) /\ ~Outranks(treap.right[i], i)

(* A treap, and a lock that lets either readers or one writer in, with no    *)
(* thread that waits for a lock it has itself (treap.rs:213-226).            *)
WellFormed == TypeOK /\ EveryKeyFound /\ HeapOrdered

(* The panic of insert (treap.rs:116) "shouldn't be inserting an existing    *)
(* key" is never met: not by two threads that both missed the key under      *)
(* the read lock, not by a key that is also an initial one.                  *)
NoExistingKey ==
  \A th \in Threads : pc[th] = "inserting" => lookup(call[th].arg) = Nowhere

(* The table as its users see it, initialised from the start.                *)
Names ==
  IF checkInitialized THEN [i \in 1 .. treap.free |-> treap.value[i - 1]] ELSE InitKeys

(* Users see an interner with atomic calls.                                  *)
Abstract == INSTANCE Interner WITH
  names <- Names, request <- call, Loads <- {}, NotThere <- NoAnswer

ImplementsInterner == Abstract!Spec
=============================================================================

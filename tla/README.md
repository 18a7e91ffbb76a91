# A TLA+ development of Zag

Zag is a Smalltalk virtual machine, written in Zig (`src/zig/zag`), with an
earlier virtual machine in Rust (`src/rust/src`) and a compiler and code
generators in Smalltalk (`src/Smalltalk`). This directory holds models of the
Zig parts in which several processes meet and of the tables they share, and of
the Rust virtual machine nearly as a whole, the TLC runs that check them on small
instances, and proofs checked by TLAPS.

All paths below are relative to `src/`; `execute.zig` and its neighbours are
in `zig/zag`; `interpreter.rs`, `object.rs`, `memory.rs` and
their neighbours in `rust/src`.

1. [Inventory](#1-inventory)
2. [Modules and how they compose](#2-modules-and-how-they-compose)
3. [The models and the code](#3-the-models-and-the-code)
4. [Runs](#4-runs)
5. [Fairness](#5-fairness)
6. [Proofs](#6-proofs)
7. [What the code does differently from what is said of it](#7-what-the-code-does-differently-from-what-is-said-of-it)
8. [Not modelled](#8-not-modelled)
9. [Where to go on](#9-where-to-go-on)

## 1. Inventory

The intended setting (`Documentation/Threads.md`, `Multi-Processing.md`,
`MemoryManagement.md`): one operating-system thread per Smalltalk process, each
with its own stack and nursery; one global, non-moving arena, one dispatch
table per class, one symbol table and one class table shared by all of them;
as few locks as possible.

| Component | State | Operations | What is hard | What makes it correct |
|---|---|---|---|---|
| Dispatch tables (`execute.zig`) | `dispatches`, per table a prime, a state byte, elements | `addMethod`, `add`, `lock`, `addMethodsTo`, lookup by a send | addition by several processes, a table replaced while others use it, linear probing without wrap-around | a dictionary with atomic additions; no addition lost by a replacement; every addition returns |
| Global arena (`globalArena.zig`) | heaps, per heap 13 free lists threaded through free blocks | `init`, `alloc`, `allocBlock`, `getSlice`, `putInFreeLists`, `addToFree` | lock-free lists behind a mutex that does nothing; a pop reads memory that may be an object by then | no word in two places, none lost, lists exact, objects never move |
| Processes (`process.zig`) | list of all processes, process numbers, pointer with a counter and flags in its low bits; stack, nursery | `init`, `checkBump`, `check`, `needsCheck`, `ptr`; `alloc`, `collectNursery` | list without a lock, weak exchanges; arithmetic on a pointer | all processes listed, numbered apart; safe points reached; the pointer never corrupted |
| Execution core (`context.zig`, `execute.zig`) | contexts on a stack, program counters | sends, `push`, `pop`, returns, branches | return addresses and stack pointers found through numbers compiled into methods | a return restores the caller's stack |
| Treap (`utilities/treap.zig`) | one array: tree, free list and header | `init`, `resize`, `insert`, `remove`, `lookup`, `nextFree`, `hasRoom` | tree and free list share a field; memory changes under it | each key found at its position, positions exclusive, room as promised |
| Symbol table (`symbol.zig`) | treap in an object of the global arena | `intern`, `lookup`, `asString`, `loadSymbols` | enlargement loads strings through the function that enlarges; no lock | one symbol per string, for ever; predefined symbols at their numbers |
| Class table (`class.zig`) | as the symbol table, and the classes | `intern`, `subClass` | as above | as above |
| Interner of the Rust VM (`rust/src/treap.rs`) | treap behind a read-write lock | `at`, `intern` | lazy initialisation; a miss under the read lock, an insertion under the write lock | an interner with atomic calls |
| Primitives of the Rust VM (`interpreter/primitives.rs`, `primitives/*.rs`, `stack.rs`) | a map behind a read-write lock | `prim_lookup`, `prim_add`; what each does to a stack | the first lookup loads the map, without a lock around the load | a provided primitive is found, except while another thread loads; each takes its arguments and leaves one object |
| Rust interpreter (`interpreter.rs`) | stack, `self_index`, `frames` | `Method::execute`, `dispatch`, `interpret_method`, `interpret_expression`, closures | the frame is saved and restored by hand, the end of a method truncates the stack to where self is | the result is the value of the expression; a caller's stack and self survive every send |
| Rust memory (`memory.rs`, `object.rs`) | a nursery per thread, a primary region behind a mutex | `allocObject`, `init`, `init_str`, the `primary_` calls; headers | an object is written before it turns out not to fit; panics under the mutex | objects tile a region and are read back as they were asked for; every call ends |
| Rust symbols and classes (`symbol.rs`, `class.rs`) | two interners, a counter | `intern`, `class_index`, `name_str`, `unique_symbol` | a class is two entries in two tables; metaclasses by arithmetic on indices | one class per name, named as it was asked for |
| Zig object layout and encoding (`heap.zig`, `zobject.zig`) | none | sizes, formats, encodings | boundaries of 12-bit fields | an object fits what was allocated for it |

How they interact: compiled code passes a process pointer from function to
function, bumps it on backward branches and pushes contexts on the process's
stack; a send finds its method in a dispatch table; the compiler installs
methods with `addMethod`, which allocates a larger table from the global arena
when one is full; the symbol table allocates its memory there too and
interns strings in a treap; symbols are the selectors the dispatch tables
hash.

In the Rust VM a send asks a class object for a method and, if the method names
one, the table of primitives for a function; a block allocates a closure in the
thread's nursery; symbols and classes are indices of two interners, each a
treap behind a read-write lock.

`PROJECT.json` lists every component with its status, and every hazard at its
line with the properties that watch it. A hazard without a property says why.

## 2. Modules and how they compose

| Module | Models | Specification it is held against |
|---|---|---|
| `Dispatch` | the dispatch tables under concurrent `addMethod` | implements `MethodDictionary` |
| `HeapAllocation` | one heap of the global arena, concurrent allocation | implements `NonMovingArena` |
| `Process` | the list of processes, the loop counter, safe points | |
| `TreapOperators`, `Treap` | the Zig array treap: operators, and the calls as a state machine | implements `SlotTable` |
| `SymbolTable` | the Zig symbol table, on `TreapOperators` | implements `Interner` |
| `LockingTreap` | the interner of the Rust VM | implements `Interner` |
| `Classes` | symbols and classes of the Rust VM, on what `Interner` promises | implements `Interner` |
| `PrimitiveTable` | the lazily loaded table of primitives | |
| `Primitives`, `Interpreter` | what functions do to a stack (operators); sends, methods, blocks, compiled methods | `Meaning`: the value of an expression by recursion over its tree |
| `ObjectFormat`, `Regions` | headers and sizes (operators); nurseries and the primary region | |

`SymbolTable` and `Treap` are both built on `TreapOperators`: what `Treap`
checks of the operators is what `SymbolTable` relies on. `Interner` is one
promise kept by three modules in two languages, and `Classes` stands on it as
well: its two tables are interners with atomic calls, which `LockingTreap`
shows they are. The symbol table takes its memory from the arena; there the
arena is represented by what `NonMovingArena` promises, fresh memory that
nobody moves. `Dispatch` likewise takes fresh tables from it. `Interpreter`
EXTENDS `Primitives`, `Regions` EXTENDS `ObjectFormat`. `Interpreter` is one
thread; what a second one could do to it, through the table of primitives, is
`PrimitiveTable`.

`MC<Module>.tla` gives constants their values for TLC. `<Module>Proofs.tla`
holds theorems.

Some modules hold operators named like another one with a suffix (`AddLockNoWait`
beside `AddLock`). Such an operator is the other one with a plausible slip in
it. No specification uses them; `PROJECT.json` names, for each property, the
slip that it notices.

## 3. The models and the code

### Dispatch

A process handed a method does `lock`, probes and stores (`probe`), unlocks;
when the probe meets the end of the table it reads `dispatches` again
(`reload`), locks what it finds (`growLock`), copies into a larger table
(`copy`), publishes it and kills the old one (`publish`, `kill`). Every read of
`dispatches` and every access to a state byte is a step of its own. Elements
are written only under the lock, so a probe and its store are one step, and
the copy into a table nobody else knows is one step.

Two facts of the code shape the model:

* `addMethod` indexes `dispatches` with `method.signature.class`, the class bits
  of a tagged selector, which are those of Symbol for all selectors. So all
  methods of all classes go through one entry: the variable `current`.
* the place a method starts probing from is computed from its selector alone,
  so implementations of one selector by several classes collide.

A table is named by the method whose `addMethod` allocated it. That is enough
for names: a call reaches `alloc` once, and after `addMethodsTo` has failed it
never leaves `lock` again (section 7).

A send probes other tables than `addMethod` fills (`lookupAddressForClass`,
line 1624, includes the receiver's class in both the index and the hash).
Lookup is therefore not an action but the operator `Found`, which says what
the probe of `verifyMethod` would meet in the table that `addMethod` fills.

### HeapAllocation

One action per access to shared memory of `allocBlock`: `Scan` reads the head
of a list, `ReadLink` the link in the head, `Exchange` is the compare-and-
exchange; `UpAdd`, `DownAdd` push one piece of the remainder, `CountRead` and
`CountWrite` increment the counter that list 0 is. The link is read from a
block that another process may have taken: `ReadLink` then returns any word.
A push retries until it succeeds and reads nothing it does not compare, so it is
one step. A process that finds every list empty (`exhausted`) or wants storage
outside the heap (`external`) panics, and the program with it.

### Process

`SetNext`, `SetId`, `Exchange`, `Retry` are the loop of `Process.init`; the
exchange is weak and may fail for no reason. The head is read twice, once for the
link and once for the number. `BranchBack`, `Check` and `PushContext` are what
compiled code does with the process pointer, which is a number here: address
plus count plus flags. `check` jumps to `debugFn` whenever that is not null, and
`init` gives it no value, so `Check` may go there
(`debugging`). That branch and the panic in `Context.push` end what is modelled.

### LockingTreap

One action per lock operation and per stretch between two of them. The
treap is the code's: sequences of values, left and right, the recursive
insertion and both rotations, priorities multiplied modulo 2^32 (by halves of
16 bits, as TLC's integers are narrower).

### TreapOperators, Treap

One array holds the header (element 0), the tree and the free list, which uses
the field `left`. `lookup`, `lessEqual`, `insertElement` and `removeKey` are the
functions of `treap.zig` by their recursion, over positions (`lessEqual` over a
position and the best one so far). What `removeKey` does with a node it has
found is `sunk`: the code rotates the node below its higher child and calls itself
on the side the node went to; the links of the node are written by each rotation
and overwritten by `delete`, so `sunk` recurs over the two subtrees the node has
at the time and writes what stays. A key is a number, 0 the empty key. `resize`
of the empty treap initialises the new memory and then extends it from 0, over
the header, as the code does.

### SymbolTable

`allocTreap` enlarges the memory and then loads the initial strings with
`loadSymbols`, which asks `theTreap` for room, which may enlarge again. The
unfinished loads of a process are a stack. The size of the memory is what the
code computes from the object lengths (`growSize`, capped by `MaxLength`). A
symbol is its index times an odd constant modulo 2^24 and its arity;
`symbolIndex` is the inverse the code uses. Answers get the arity that `numArgs`
counts in the string (`Arity`), the constants of `symbols` the one that is written
beside them (`SymbolArity`).

A string that is not in the table is taken into it only if it does not move: for
any other, `promoteTo` is not implemented, and `internDirect` answers Nil. Whether a string
moves is part of the call (`moving`: the places in its argument of those that do); the
initial strings are static. `loadSymbols` does not look at the answer and goes on
with the next string (`Skip`); `intern` takes it for a table without room and
is at `unreachable` (`Unreachable`), where the program ends (with the panic of a build
with safety checks). The module has a step for every
access to shared memory and takes any number of processes; the run and the
proofs have one (section 7). `RoomAfter` says what the code expects of an
enlargement without asking; what users see of the table (`TableNames`), of the
calls (`Requested`) and of the answers (`Answered`) is the mapping to `Interner`. A load
promises the strings that do not move (`Promised`); an answer is shown as a position only if
it has its string's arity. `Interner` numbers strings, so a constant of `symbols` is
one there whatever its arity.

### PrimitiveTable

`prim_lookup` reads the map under a read guard, drops it, and if the map was
empty adds the primitives, each under a write guard of its own (`prim_add`), and
calls itself (`LookAgain`); a call begins with the action `LookUp`. No thread does anything else while it has a guard,
so what one guard covers is a step and the lock itself is no variable.

### Primitives, Interpreter

The functions of the code call each other recursively; the variable `calls` is
that recursion as a stack. An entry is a function and how far it got: `code` and
`tail` for the instructions of `Method::execute` (before and after the jump to
the last one), `dispatch` for a send, `body` for `interpret_method`,
`expression` and `return` for `interpret_expression`. `stack`, `self_index` and
`frames` are the fields of `Thread`. `start_method` and `end_method` save and
restore self, and `return_with` moves the result down to where self was.

An instruction or primitive is an operator on stacks that yields the new stack
and its `FunctionResult` (`Call`). Integers wrap at `IntLimit`, 2^47 in the
code: `from_isize` keeps 48 bits, and its sign extension is done when an integer
is read again. A product is computed in `isize` before that, and one that is
no `isize` (`IsizeLimit`, 2^63 in the code) is a panic; `Meaning` gives such a send no
value. Sums and differences of 48 bits always fit. Bits of the encoding are left out, because at this commit the
code is between two of them and does not compile (section 7); a predicate such
as `is_integer` stands for what its name says.

`Meaning` is not translated from the code: it is what an expression means
without a stack, and the run compares the two. It follows the code in one
thing a reader of Smalltalk would not expect: a return ends the body it is in,
also in a block.

### ObjectFormat, Regions

`ObjectFormat` has two sides of the header: `formatAndSize`, what is written at
allocation, and `n_instVars`, `size`, `width`, `words`, `firstIndex`, what is
read from it later. `Covered` says which shapes; section 7 says what happens to
the others.

A region is memory, `current` and `end`. An allocation is `Allocated`, `Full`
(header and count are already written when it turns out that there is no room)
or `Unencodable` (strings the code panics on). In the nursery it is one step,
since the nursery is the thread's own. A call for the primary region takes the
mutex `which_region` first (`Enter`, or `EnterPoisoned` when an earlier panic
poisoned it), allocates (`Primarily`) or panics (`PrimaryPanics`). Who finds its
nursery full asks for a collection, which takes the mutex and panics
(`collect_from`).

### Classes

`class_index` interns the string (`class_index_symbol`) and then the symbol as a
class (`class_index_from_symbol`), `name_str` goes the other way; each step is
one call of an interner. `unique_symbol` reads the counter under its lock and
writes it back before the guard is dropped. Arities and the positions of the
predefined classes are those of the code.

## 4. Runs

| Run | Instance | Shows |
|---|---|---|
| `dispatch` | 2 processes, 4 methods, one of them a recompilation | `WellFormed`: locks exclude, the published table is alive; `ProbeChains`; `TablesGrow`; `ImplementsDictionary`; `AddMethodReturns` |
| `heap_allocation` | 2 processes, 11 words of which 2 are the header, 3 free lists, objects of 1, 2 and 3 words | `WellFormed`: no overlap, no loss; `FreeListsSound`: lists exact, blocks on their boundaries; `NoStaleLink`; `ImplementsArena`; `AllocReturns` |
| `process` | 3 processes, counter of 2 bits, 6 loops | `WellFormed`: everybody listed, numbers apart and in order; `OwnPointer`; `SafePointInTime` |
| `primitive_table` | 2 threads, the loads of the code | `TableWellFormed`: who loaded finds all; `CompleteAtRest`; `AbsentOnlyWhileLoading` |
| `interpreter` | 12 tests, one of which ranges over about a thousand method bodies | `WellFormed`: types, self in range; `FramesMatchCalls`; `ResultAsMeant`; `BelowUntouched`; `Ends` |
| `regions` | 2 threads, nurseries of 6 words, primary region of 7, every kind of object and string | `WellFormed`: objects tile a region; `AsAsked`; `Initialised`; `PoisonedForGood`; `CallEnds` |
| `classes` | 2 threads, 3 strings (one a class, one a symbol, one new), 2 unique symbols | `WellFormed`: unique symbols apart; `ClassesInternNames` |
| `locking_treap` | 2 threads, 6 keys, 2 of them initial | `WellFormed`: search tree and heap; `NoExistingKey`: the panic of `insert` is not met; `ImplementsInterner`; no deadlock |
| `treap` | 5 keys, memory of 4 and 6 elements | `WellFormed`: search tree and heap; `FreeListExact`; `RoomAsPromised`; `LessEqualIsFloor`; `ImplementsSlotTable` |
| `symbol_table` | 1 process, 6 strings, 2 initial, 2 lists to load, each string moving or not | `SymbolsWellFormed`: room always enough; `MemoryGrows`; `ImplementsInterner`; `CallReturns` |
| `dispatch_stuck`, `interpreter_equality` | | section 7: violated |

Where several invariants are parts of what makes a state sound, the run checks
their conjunction `WellFormed` (`SymbolsWellFormed`), whose parts are named definitions with comments
of their own.

Why these bounds are enough for the interesting cases:

* `dispatch`: the hashes are at the end of the hash range, so that three
  generations of tables are needed and the sentinel is met; the recompiled
  method makes replacement race with growth. `HashRange` is 100 instead of 2^32;
  only the position within it matters. `MaxWords` and `MaxHash` bound
  only the search for a prime and are never reached. Each method is handed
  to `addMethod` once; `CHECK_DEADLOCK FALSE` because the system stops when all
  have been.
* `heap_allocation`: the words behind the header neither start at a multiple of
  the largest block nor fill blocks evenly, so both loops of `putInFreeLists`
  put something back; both processes empty the heap in every interleaving. A
  panic ends the program, hence `CHECK_DEADLOCK FALSE`. A block is never freed
  in the code, so the heap is exhausted after finitely many steps without
  a further bound.
* `process`: `MaxLoops` lets a process run past its safe point; addresses are
  aligned as `init` asserts, and two are neighbours, so that a carry would show.
  `CHECK_DEADLOCK FALSE` because the loops are bounded and a panic ends
  everything. The code's `countMask` is 31; the proofs are for any.
* `primitive_table`: the loads include the one key the code loads twice, and
  a key it does not load.
* `interpreter`: bodies are built of the sends, blocks, returns and literals that
  can be nested in three levels, with receivers and arguments of the wrong class,
  statements after a return, and the panics; compiled methods jump, return early,
  restack, loop and dispatch twice. `CompiledHere` evaluates `Compiled`, the
  hypothesis of the proofs, for all of them. `IntLimit` is 32, so that sums and products wrap, and
  `IsizeLimit` 64, so that there are products that wrap and larger ones that panic;
  `NurseryRoom` is 2, so that closures exhaust it. `CHECK_DEADLOCK FALSE`
  because a test ends.
* `regions`: `Large` is 3 instead of 32767, so that the formats on both sides of
  it are met in regions of a few words. Both threads fill their nurseries and the
  primary region, in every order, and panic. `CHECK_DEADLOCK FALSE` because in the
  end every thread has.
* `classes`: `METACLASS_OFFSET` is 23 instead of 1001, one more than the classes
  there can be here; `Asked` has a predefined class, the last one, and the
  metaclass of each (7, 22, 30, 45).
* `locking_treap` and `treap`: after the two initial keys the other four, and the five
  keys of `treap`, arrive in every order, which gives rotations to both sides on insertion and, with free positions used again,
  removals of elements with none, one and two subtrees.
* `symbol_table`: `MaxLength` 13 makes enlargement happen in four steps of the
  code's formula, with loads nested in loads. `EnoughRoomHere` evaluates
  `RoomAfter`, a hypothesis of the proofs, for memory far larger than is met. One
  of the two constants has another arity than its string, as three of the code have.
  `CHECK_DEADLOCK FALSE` because an `intern` that meets `unreachable` ends the program.

## 5. Fairness

Weak fairness of `Step(p)` only: a process inside a call keeps running (an
operating-system thread is not stopped for ever). Nothing makes a process start
a call.

* `dispatch`: `lock` spins, but the holder's steps are fair and it spins
  on the state byte only; there are finitely many methods to wait for.
* `heap_allocation`: a failed exchange means that another process succeeded, and
  the heap is finite.
* `symbol_table` has one process, `interpreter` one thread, whose only fairness is
  that it takes its next step.
* `regions`: `std::sync::Mutex` promises no order among waiting threads. Weak
  fairness is enough here because nothing is ever freed: other threads can
  overtake one that waits only until the regions are full, and from then on
  everybody panics.

No liveness is claimed where other threads may overtake for ever:
`LockingTreap`, `PrimitiveTable` and `Classes` behind locks without an order,
`Process.init` with weak exchanges that may fail for no reason. The runs
`locking_treap`, `primitive_table` and `classes` check for deadlock instead.

## 6. Proofs

For every value of the constants, from the assumptions named in the modules
(`DispatchAssumption`, `HeapAssumption`, `ProcessAssumption`, `LoadsAssumption`,
`IntLimitAssumption`, `IsizeAssumption`, `NurseryAssumption`, `LargeAssumption`, `RegionsAssumption`,
`ClassesAssumption`, `KeysAssumption`, `TreapAssumption`, `SymbolTableAssumption`),
which TLC evaluates for the instances. Only the symbol table and the interpreter's
stack need more; their theorems name it.

**`DispatchProofs`**: `TypeCorrect`, `UpdatesExclude` (LockHeldByOne),
`CurrentNeverDead` (CurrentIsLive), `ChainsUnbroken` (ProbeChains),
`ReplacementsGrow` (TablesGrow), `TablesWellFormed` (WellFormed). That the lock
excludes is not inductive: the lock is a byte in a table, and a process may lock
a table it read long ago. The invariant `LockInv` adds that methods in hand are
distinct, that a table under construction is known to its maker only, and that a
table a process is about to lock, if clean, is the current one. From there a
killed table is never current again. Growth needs arithmetic: the next prime
above 10/7 of the old size.

There too: `ImplementsAbstractDictionary` (ImplementsDictionary). The
method dictionary changes in one step, when a method is stored in the
published table or when a larger table is published. Two facts carry it: in a
table with unbroken chains a signature has one element at most and the probe
finds it (`OneElement`, `LookupFinds`), and while a process copies, the old
table stands still under its lock, so the new one holds what the old one holds
before the cursor and, when it is published, everything but the method the new
one replaces (`Copies`). `DictInv` is `LockInv`, `ProbeChains` and `Copies`; each
action is shown to be a step of `MethodDictionary` or a stutter.

**`HeapAllocationProofs`**: `TypeCorrect`, `WordsExclusive` (NoOverlap),
`WordsConserved` (NothingLost), `LinksFresh` (NoStaleLink),
`ImplementsAbstractArena` (ImplementsArena), `HeapWellFormed` (WellFormed),
`FreeListsExact` (FreeListsSound). The
usual reason a lock-free stack
goes wrong is a head that was popped and pushed back between the read of
its link and the exchange. Here it cannot: a block that is popped becomes an
object, blocks cut from it start behind that object, and objects are
never freed. The invariant `Inv` makes this precise: a word has one owner
(`OneOwner`, `EveryWordOwned`), everything linked is a free block of its list's
size (`ListsLinked`), and a process that still finds the head it read finds the
link it read (`Snapshots`). The two loops of `putInFreeLists` cover the
remainder exactly because what is left always `Fits` the sizes still to be
tried.

`FreeListsExact` needs three more. `Alignment`: sizes are powers of two, each
divides the larger ones (`SizesDivide`), and the two loops of `putInFreeLists` keep
what they cut at multiples of its size: the first puts an odd piece back only
until the next size divides the place, the second goes down from there.
`Connected`: every set that has a list's head and with a block the one it links to
has all free blocks of the list. It says without recursion that no block is
unreachable, and each step keeps it. From it follows what the operator `OnList`
computes by recursion: following the links from the head ends after at most as
many links as there are free blocks (`FollowingEnds`: a walk that met one block
twice would come round for ever, and the blocks before it would not be
`Connected`), and has then met them all (`FollowingFindsAll`).

**`ProcessProofs`**: `TypeCorrect`, `AllListed` (EveryProcessListed),
`PointersKept` (OwnPointer), `ChecksInTime` (SafePointInTime), `ListWellFormed`
(WellFormed), for any
number of processes and any width of the counter. `Read` is what makes the
list inductive: as long as the head is still the process to be linked
to, the number taken from it is still the next one, although link and
number were read at different times. `Counted` gives the register as a
function of the loops run.

**`InterpreterProofs`**: `FramesMatch` (FramesMatchCalls) and `Balanced` (a test
that returns leaves no frame and self where it was), for any program and
any image. The proof counts: every action that starts a method adds one
activation to `calls` and one frame, every action that ends one removes one of
each, all others leave both counts alone (`Starts`, `Finishes`, `Continues`), and
the frame at the bottom holds the self of the beginning (`FrameInv`).

About the stack: `SelfAlwaysInRange` (WellFormed) and `CallersUntouched`
(BelowUntouched), for any images and tests that are `Compiled`. That is what the
code relies on and nothing in it checks: a primitive shortens the stack by no
more than the arguments of the method it is of (`MethodsOf`), a send has a
receiver and its arguments (`Trees`), and a compiled method finds at each
instruction as many objects as its `heights` say, which a verifier of bytecodes
would compute, and sends no message to an object below its own receiver, but
perhaps as its last instruction, when its frame is gone (`Checked`). Without it, two `drop`s take a caller's object.
`heights` are lower bounds, so that a comparison, which leaves an object more
when it finds a difference, is covered.

The properties themselves are far from inductive: that self is in range after a
method ends depends on what its callers left below it. The invariant `StackInv`
gives every call a base, the height of the stack below which it touches nothing
(`Based`). What a caller still needs lies below the bases of all calls that came
after it (`Above`, `Chain`), the frames and self are the bases of the methods being
interpreted, in their order (`Ordered`), and the call whose turn it is finds
what it is about to take (`Ready`). A function reaches no deeper than its
operands and shortens the stack by no more than `Taken` (`CallSafe`); then each
action pops a base, pushes one or moves on above its own.

There too, of the table the interpreter's methods find their primitives in (the
module extends both; what `PrimitiveTable` would otherwise call as `Interpreter`
does begins with `Table`): `TableTypeCorrect`, `SingleLoad` (CompleteAtRest),
`LoaderFinds` (OwnLoadComplete), `MissesOnlyWhileLoading`
(AbsentOnlyWhileLoading), `LoadWellFormed` (TableWellFormed), for any number of threads
and any list of loads. `TableInv` follows the loaders' positions: what lies behind
a position is in the table (`BehindIsThere`); in a table that is not empty, a
provided key is there or ahead of some loader (`ThereOrAhead`); and the last
entry of a key is there or ahead of some loader (`LastOrAhead`).

**`RegionsProofs`**: `TypeCorrect`, `ObjectsTile` (Tiled), `ObjectsAsAsked`
(AsAsked), `ObjectsInitialised` (Initialised), `PoisonStays` (PoisonedForGood),
`RegionsWellFormed` (WellFormed), for regions of any size, any threads, any
requests and any `Large`. The first part is the header read back: for every
`Covered` shape the functions that read a header give what `formatAndSize` was
given. The second is that a write for a new object, also one that turns
out not to fit, touches nothing below `current`, where all objects are
(`Shaped`, `Stands`, `Apart`, `Written`). The last is that nobody is inside
`primary_do` once it is poisoned (`Outside`).

**`ClassesProofs`**: `UniqueSymbolsApart` (UniqueApart), `SymbolsWellFormed`
(WellFormed) and `ImplementsAbstractInterner` (ClassesInternNames), for any
threads, any finite set of strings and any number of unique symbols, provided
that the classes fit below the metaclasses and the strings below the unique
symbols (`ClassesAssumption`). A call takes a step on each table, and
what it holds between them has to stay true while others add to both: tables
only grow (`Grows`), a symbol keeps its string (`NamesKept`), strings have one
symbol each and hence classes one name each (`SymbolsApart`, `ClassesApart`).
The lengths of the tables are bounded because their strings are distinct
(`DistinctFit`), which is what keeps unique symbols apart and a metaclass's
index from being taken for a class's.

**`LockingTreapProofs`**: `TreapIsWellFormed` (WellFormed), `NoKeyTwice`
(NoExistingKey), `IsAnInterner` (ImplementsInterner), for any threads, any set
of keys and any keys to begin with. The code inserts by recursion, and returns
from it by rotations. What a recursive definition computes for every tree is
proved without an induction rule: the positions of a treap are finite in number,
and the set of positions whose tree has a property has every position if it
has a position whenever it has those of the two children (`SubtreeInduction`).
The state of the proof is a function from positions to the sets of positions in
the tree below them (`Subtrees`), from which order and priorities follow
(`Heap`). `InsertCorrect` goes down the tree: insertion into one side gives a
treap with one more position, whose top is at most one rank too high
(`Grafted`, `AttachLeft`, `AttachRight`), and `RotateLeft` and `RotateRight` mend that.
`LookupFindsInTable` is the other half: the search finds a key exactly if some position has
it. The rest is the protocol: between the look-up under the read lock and the
insertion under the write lock other threads insert, and what a thread found
stays where it is because positions are never moved (`IInv`). For `IsAnInterner`
each thread that has looked its key up in vain and each insertion is mapped to a step of
`Interner` or a stutter.

**`TreapProofs`**: `TreapWellFormed` (WellFormed), `FreeListIsExact`
(FreeListExact), `RoomIsAsPromised` (RoomAsPromised), `LessEqualIsTheFloor`
(LessEqualIsFloor), `IsASlotTable` (ImplementsSlotTable), for any keys and any
sizes of memory. The proof is in three layers.

1. *Trees.* `TreapAt(t, top, S)` says that the positions of S are a search tree
   and a heap in t with the given top. A treap is a top and two smaller treaps
   (`Parts`), these and a top make one (`Join`), and writes elsewhere leave it
   alone (`Untouched`). `TreapInduction` carries a statement from the branches of a
   treap to the treap, as induction over the finite set S. A recursive function
   has its equation wherever the links it follows lead downwards in some ranking
   (`Recursion`, `Ranked`). With these, for every treap: `lookup` finds the
   place of a key (`LookupFinds`), `lessEqual` the greatest key not above
   (`LessEqualFinds`), `insertElement` makes a treap of one position more
   (`InsertCorrect`, on `InsertedLeftCorrect` and `RotateRight` and their mirror
   images), and `removeKey` one of one position less (`RemoveCorrect`; `SunkCorrect`
   merges the two branches of the node that goes).
2. *One array.* `Laid(t, P, K, fl)`: the positions of K are the tree, those of the
   sequence fl the free list, linked in that order, and nothing else has a link.
   That tree and list do not touch each other is what makes the table `Ranked`
   (`LaidIsRanked`), so that the walk along the list ends (`FreeListIs`). Each call
   keeps the layout: `TakenIsLaid`, `InsertedIsLaid`, `RemovedIsLaid`,
   `ResizedIsLaid`, and `FirstIsLaid` for the empty table, whose header is
   overwritten.
3. *Calls.* `IInv` says that the table is without memory or `Filled`: laid out so,
   with keys at the positions of K exactly, and every other position reserved or
   free. The theorems follow from it; for `IsASlotTable` every call is shown to
   be a step of `SlotTable`.

There too, on the first two layers, the symbol table: `SymbolTableWellFormed`
(SymbolsWellFormed), `MemoryOnlyGrows` (MemoryGrows), `SymbolTableIsAnInterner`
(ImplementsInterner) and `SymbolIndexUndone`, for any strings, any lists to load and
any limit of memory. The hypotheses are what the code relies on and does not
check:

* `OneProcess`: "ToDo: add locking" (`symbol.zig:175`). With two processes the
  theorems are false (section 7).
* `EnoughRoom`: an enlargement does not ask how much room is wanted
  (`symbol.zig:173`), so it has to be enough: the first memory that takes the
  initial strings has room for one more string, or for what a list adds to them,
  and each later one for the longest list. The code's memory doubles: for its 53
  initial strings the first such memory is 64, which leaves ten places. Lists longer than that are the
  observation in section 7.
* `FewStrings`, for the refinement only: a symbol's hash has 24 bits, so that
  2^24 strings cannot all have symbols of their own.

That elements never run out is far from inductive: `intern` asks for room,
`allocTreap` loads the initial strings with the function that called it, that load
asks for room again, enlarges again, and starts once more, and when all of
them return the callers go on with the room that is left, without asking. The
invariant is the state of a call (`State`): memory is `Packed`, the first m
positions have a string and the others are free in their order; the loads of the
call are determined by their depth d and the position x in the innermost, because
an outer load waits for room and has not begun (`Nested`); the
initial strings, while they are not complete, are loaded in one go and in order, so
that string i has position i as the constants of `symbols` say (`InOrder`,
`Prefix`); and the strings the call and its loads still have to intern, each counted
once however many loads have it, are no more than the elements that are free
(`Enough`, `Missing`). Room found by `hasRoom` is enough for what is missing then
(`MissingAsked`, and `MissingAtFirst` for the first memory that takes the
initial strings); an interned string uses an element and is missing no longer
(`MissingLess`); and an enlargement adds what a list may need. Each action has a
lemma that it keeps `State` (`BeginKeeps` to `GetKeyKeeps`). The invariant was
first checked by TLC on the instance of the run.

`SymbolIndexUndone` is the arithmetic: the product by halves of 12 bits is the
product modulo 2^24 (`WrappingTimes`), and the two constants are inverse to each
other there (`PhiInverse`). For the refinement users see the initial strings until
they are all there and from then on the keys of positions 1 to m (`NamesShown`):
nested loads, enlargements and the element that is taken but not yet linked
do not show (`SilentShown`, `EnlargementRefines`), nor does a string that is passed over
because it moves (`InnerShows`), a new string appears at the end
(`NamingGrows`), and a symbol is answered with the position it was made of
(`PositionShown`).

Model-checked only:

* liveness (`AddMethodReturns`, `AllocReturns`, `CallReturns`, `Ends`,
  `CallEnds`), which is outside of the prover's reach;
* of the interpreter `ResultAsMeant`, whose reference `Meaning` is a recursive
  operator over trees.

## 7. What the code does differently from what is said of it

Each of these has a run that ends in a counterexample.

* `dispatch_stuck`: when the methods of a full table do not fit the next larger
  one either, `addMethod` starts over without restoring the old table's state,
  and waits for itself. Four implementations of one selector whose hash falls
  on the last element are enough.
* `interpreter_equality`: `eq` of integers replaces the receiver by true, but pushes
  false above it (`smallInteger.rs:17`, `double.rs:21`). A comparison that is false
  leaves an object too many on the stack, where a test of a send like it
  expects one (`interpreter.rs:640`), and within another expression it shifts
  the arguments.

Observed while modelling, without a run:

*Zig*

* the loop over free lists is one too long (`globalArena.zig:174`); with every
  list empty it reads behind the array. `HeapAllocation` stops there.
* the counter of single words (`globalArena.zig:264`) is incremented without
  atomicity; an increment can be lost. `CountRead` and `CountWrite` show it.
* after 32 rounds of a loop the overflow flag stays set; the next send that pushes
  a context panics (`context.zig:107`), and `check` jumps through a field
  that has no initial value, if it is not null (`execute.zig:93`, `process.zig:45`).
* an enlargement of the symbol table does not ask how much room is wanted
  (`symbol.zig:173`), and the table has a "ToDo" where the documentation puts
  a lock (`symbol.zig:175`): with two processes two strings get one symbol.
* `intern` is at "`unreachable; // out of space`" (`symbol.zig:210`)
  with room left when it is given a new string that may move, because `promoteTo` fails
  (`symbol.zig:217`, `zobject.zig:725`). `loadSymbols` passes such strings over without a word.
  `CallReturns` excepts that case and no other (`NotPromoted`).
* the test "symbols match initialized symbol table" (`symbol.zig:232`) says that the constants of
  `symbols` are what a look-up of their strings gives. Three are not: `new:` is
  `symbol0`, `ifTrue:ifFalse` and `ifNil:ifNotNil` are `symbol2` (lines 60, 81, 85),
  while `numArgs` counts one colon in each of these strings. A selector compiled from the constant
  and one compiled from the string differ. The test verifies eight other symbols.
* the test of `symbol.zig:242` expects `Object` at 55, the constant is `symbol0(53)`
  (line 96), 53 being its place in the list; the raw value expected in line 244 is that of 55, too.
  `predefinedSymbols` is 47.
* `isPrime` (`primes.zig:34-47`) is exact below 2^16, where it has a sieve; beyond, it divides by
  numbers whose square is less than its argument, so squares of primes pass, 66049 as the first.
  `IsPrime` of `Dispatch` is the mathematical predicate. The tables of the run are small,
  and the proofs do not use it.
* `Threads.md:8` says a dispatch table is not modified in place; `add`
  (`execute.zig:1647`) stores in the published table, under its lock.
* the test of `globalArena.zig:208` expects free lists that `init` of the same
  file does not build, and the test "check flag" of `process.zig:300` expects
  no flag where the first bump after `maxCheck` sets one.
* sends and `addMethod` use different tables and hashes (section 3).

*Rust*

* the crate does not compile at this commit: `NAN_VALUE` is used and nowhere
  defined, and literals are made with the class shifted by 49 bits while the
  predicates look at the low bits (`object.rs`). Overflow is taken to be checked,
  as in a debug build. There a product of 2^63 or more panics (`smallInteger.rs:45`), while
  smaller ones, and all sums, are cut to 48 bits without notice.
* `addMethodToDispatch` has no caller. It would index a `Vec` of length 0 and
  invert the answer of the search. `dispatchTable` is filled by the tests only, and
  `dispatch` reads it without the mutex it is written under
  (`interpreter.rs:376`).
* no function returns `NonLocalReturn`, `SpillReturn`, `MakeClosure` or
  `ExceptionSignaled`. There is no search in superclasses; a return inside
  a receiver or an argument does not return from the method; `self` in a block is
  the closure.
* `main` ends in the panic "class not initialized", as `loadHeap` is commented
  out.
* `Unitialized` in `primary_do` (`memory.rs:258`) is a variable, which matches
  everything: every call maps the regions again, to no effect, and the secondary
  region is never used.
* the empty string divides by zero and strings of 2-byte characters panic
  (`memory.rs:216-248`); bytes in 32767 words or more have their count in field 0
  and are measured by field 32767 (`object.rs:612`, `616`, `767`); an array
  of that length overwrites its count. `Covered` leaves these out.
* header, count and, by `init`, the fields are written before it is known that an
  object fits, past the end of a full region.
* `first_classes` (`class.rs:9-11`) lists SmallInteger, Symbol, Character where the
  constants of `object.rs:11-13` count Symbol, Character, SmallInteger. So the class
  numbered for Symbol is named Character, against the test `object.rs:339`.
* `object.rs:5` says that Pharo has only 20000 classes; `MAX_CLASS` is 1000.

## 8. Not modelled

`PROJECT.json` gives the reason for each component. In short:

* what is unfinished and panics when reached: nursery collection, moving contexts
  to the heap, sweeping the arena; releasing memory and collection in the
  Rust VM;
* what does not compile at this commit (the Zig class table) or has no effect (the
  Rust secondary region, the Rust main program);
* the Zig execution core (contexts, sends, threaded code, and the byte interpreter
  and primitives that run on it): where a return goes is compiled into the methods
  as numbers, and the methods that exist are written by hand in tests;
* arithmetic without state: Zig object layout and encoding, the bits of a Rust
  object, comparison and formatting of objects;
* the operating-system layer, image files, LLVM binding, benchmarks;
* the Smalltalk compiler, generators, inspector and class library.

Within the modelled components: the list of heaps, `rawAlloc`, `loadHeap`,
`cycleNext` and `sweep` of the arena; values stored beside the keys of a treap;
several interpreters at once; memory order weaker than sequential consistency
(the Zig code asks for `seq_cst` at every exchange; plain loads and stores
between are modelled as atomic, each a step of its own).

## 9. Where to go on

In the order of what they would add to what is here:

1. The Zig execution core, once methods are compiled rather than written by
   hand: contexts on the stack, sends, returns and `compileMethod`'s stack
   structure, against an abstract stack of activations; then the lookup of sends
   next to `Dispatch`.
2. `AllocationInfo` over boundary sizes; the list of heaps above
   `HeapAllocation`.
3. Basic blocks of the Smalltalk compiler (`ASCBasicBlock`): how the stacks of
   blocks that meet are reconciled.

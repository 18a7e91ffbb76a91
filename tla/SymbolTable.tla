----------------------------- MODULE SymbolTable -----------------------------
(***************************************************************************)
(* The symbol table of the Zig VM (zig/zag/symbol.zig): strings interned   *)
(* in an array treap, which is allocated by the first call that needs it   *)
(* and enlarged when it has no room.  A symbol is its string's position in *)
(* the treap, hashed, with its arity.                                      *)
(*                                                                         *)
(* allocTreap loads the initial strings after every enlargement, which     *)
(* asks for room again and may enlarge the memory again in the middle of   *)
(* the load it was called from: the unfinished loads are a stack.          *)
(*                                                                         *)
(* There is one table for all processes and no lock ("ToDo: add locking"). *)
(* The steps are: look whether there is room, enlarge, look a string up,   *)
(* take the first free element, insert it in the tree.  With one process   *)
(* they are the sequential code; with several they show a part of what may *)
(* interleave.                                                             *)
(***************************************************************************)
EXTENDS TreapOperators

CONSTANTS
  Procs,
  Strings,       (* as numbers in the order of compareObject                *)
  initialSymbolStrings,
  Loads,         (* the lists of strings loadSymbols is given               *)
  Arity,         (* numArgs of each string                                  *)
  SymbolArity,   (* the arity each constant of `symbols` is written with    *)
  MaxLength,     (* HeapHeader.maxLength                                    *)
  Nil,
  NoAnswer

ASSUME SymbolTableAssumption ==
  /\ Strings \subseteq Nat \ {empty}
  /\ initialSymbolStrings \in Seq(Strings) \ {<<>>}
  /\ \A i, j \in DOMAIN initialSymbolStrings :
       i # j => initialSymbolStrings[i] # initialSymbolStrings[j]
  /\ Loads \subseteq Seq(Strings)
  /\ Arity \in [Strings -> 0 .. 15]
  /\ SymbolArity \in [DOMAIN initialSymbolStrings -> 0 .. 15]
  /\ MaxLength \in Nat \ {0}
  /\ Nil # NoAnswer
  /\ {Nil, NoAnswer} \cap (Nat \cup [hash : Nat, arity : 0 .. 15]) = {}

VARIABLES
  treap,       (* the table of the treap, in the memory `mem`               *)
  pc,
  call,        (* the operation a process is in and its argument            *)
  adding,      (* the argument of theTreap                                  *)
  loads,       (* the loads a process is in, the innermost last             *)
  position,    (* the element it has taken for a string                     *)
  answer       (* what its call returned                                    *)

symbolVars == <<treap, pc, call, adding, loads, position, answer>>

-----------------------------------------------------------------------------
(* Numbers. *)

Low(n) == n % 4096
High(n) == n \div 4096

(* m *% n on 24 bits, by halves of 12. *)
TimesWrapping(m, n) ==
  (Low(m) * Low(n) + Low(High(m) * Low(n) + Low(m) * High(n)) * 4096) % (4096 * 4096)

inversePhi24Even == 10368888

inversePhi24 == 10368889
undoPhi24 == 11764425

symbol_of(index, arity) ==
  [hash |-> TimesWrapping(index, inversePhi24), arity |-> arity]

symbolIndex(symbol) == TimesWrapping(symbol.hash, undoPhi24)

(* 1, doubled until it is no less than n. *)
largerPowerOf2(n) ==
  LET from[w \in 1 .. 2 * n + 1] == IF w >= n THEN w ELSE from[2 * w]
  IN from[1]

WordsOf(n) == 2 * n        (* an Element is two words of eight bytes *)
ElementsIn(w) == (w + 1) \div 2

(* heap.growSize: twice the memory, rounded to a power of two, or to the     *)
(* longest object where that is next.                                        *)
growSize(n) ==
  LET words == largerPowerOf2(WordsOf(n) * 2)
  IN ElementsIn(IF words > MaxLength - 4 /\ words < MaxLength * 2 - 8 THEN MaxLength ELSE words)

StringsOf(list) == {list[i] : i \in DOMAIN list}

(* What a memory of more than k elements leaves room for.  The code relies   *)
(* on it without a check: allocTreap ignores how much room was asked for.    *)
(* The first memory that takes the initial strings also takes a string that  *)
(* is interned, or a list that is loaded by the call that allocated it; a    *)
(* later enlargement adds as many elements as the longest list has strings.  *)
RoomAfter(k) ==
  LET n == growSize(k)
      initial == Len(initialSymbolStrings)
  IN n > initial =>
       /\ n > initial + 1
       /\ \A list \in Loads :
            /\ Cardinality(StringsOf(list) \cup StringsOf(initialSymbolStrings)) < n
            /\ k > initial => Len(list) <= n - k

-----------------------------------------------------------------------------
(* An operation, its argument, and the places in it of strings that may move *)
(* (on the stack, in a nursery) and so are not taken into the table.         *)
Interns(s, m) == [op |-> "intern", arg |-> s, moving |-> m]
Looks(s) == [op |-> "lookup", arg |-> s, moving |-> {}]
Asks(symbol) == [op |-> "at", arg |-> symbol, moving |-> {}]
LoadsAll(list, m) == [op |-> "load", arg |-> list, moving |-> m]

(* The constants of `symbols`, known to the program before any call.  Each   *)
(* is written with an arity by hand, next to its string's numArgs.           *)
symbols(i) == symbol_of(i, SymbolArity[i])

Load(list) == [strings |-> list, next |-> 1]
Innermost(p) == loads[p][Len(loads[p])]
SymbolAt(pos) == symbol_of(pos, Arity[treap.key[pos]])

Goto(p, l) == pc' = [pc EXCEPT ![p] = l]

SymbolsInit ==
  /\ treap = NoMemory
  /\ pc = [p \in Procs |-> "idle"]
  /\ call = [p \in Procs |-> Asks(symbols(1))]
  /\ adding = [p \in Procs |-> 0]
  /\ loads = [p \in Procs |-> <<>>]
  /\ position = [p \in Procs |-> 0]
  /\ answer = [p \in Procs |-> 0]

Begin(p, c, n, l) ==
  /\ pc[p] = "idle"
  /\ call' = [call EXCEPT ![p] = c]
  /\ adding' = [adding EXCEPT ![p] = n]
  /\ loads' = [loads EXCEPT ![p] = l]
  /\ answer' = [answer EXCEPT ![p] = NoAnswer]
  /\ Goto(p, "room")
  /\ UNCHANGED <<treap, position>>

intern(p) == \E s \in Strings, m \in SUBSET {1} : Begin(p, Interns(s, m), 1, <<>>)

lookupSymbol(p) == \E s \in Strings : Begin(p, Looks(s), 0, <<>>)

(* Of a predefined symbol, or of one that intern returned. *)
asString(p) ==
  \/ \E i \in DOMAIN initialSymbolStrings : Begin(p, Asks(symbols(i)), 0, <<>>)
  \/ /\ answer[p] # Nil /\ call[p].op = "intern"
     /\ Begin(p, Asks(answer[p]), 0, <<>>)

loadSymbols(p) ==
  \E list \in Loads : \E m \in SUBSET DOMAIN list :
    Begin(p, LoadsAll(list, m), Len(list), <<Load(list)>>)

(* theTreap finds room. *)
theTreap(p) ==
  /\ pc[p] = "room"
  /\ hasRoom(treap, adding[p])
  /\ Goto(p, "body")
  /\ UNCHANGED <<treap, call, adding, loads, position, answer>>

(* It grows what self.mem was when the table was made. *)
allocTreapStale(p) ==
  /\ pc[p] = "room"
  /\ ~hasRoom(treap, adding[p])
  /\ treap' = resize(treap, growSize(0))
  /\ adding' = [adding EXCEPT ![p] = Len(initialSymbolStrings)]
  /\ loads' = [loads EXCEPT ![p] = Append(@, Load(initialSymbolStrings))]
  /\ UNCHANGED <<pc, call, position, answer>>

(* allocTreap, up to where the load of the initial strings asks for room. It *)
(* ignores how much room was asked for, and its caller does not ask again.   *)
allocTreap(p) ==
  /\ pc[p] = "room"
  /\ ~hasRoom(treap, adding[p])
  /\ treap' = resize(treap, growSize(Elements(treap)))
  /\ adding' = [adding EXCEPT ![p] = Len(initialSymbolStrings)]
  /\ loads' = [loads EXCEPT ![p] = Append(@, Load(initialSymbolStrings))]
  /\ UNCHANGED <<pc, call, position, answer>>

Loading(p) == loads[p] # <<>> /\ Innermost(p).next <= Len(Innermost(p).strings)

Interning(p) == Loading(p) \/ (loads[p] = <<>> /\ call[p].op = "intern")

(* The string that is to be interned. *)
string(p) ==
  IF loads[p] = <<>> THEN call[p].arg ELSE Innermost(p).strings[Innermost(p).next]

Return(p, a) ==
  /\ answer' = [answer EXCEPT ![p] = a]
  /\ Goto(p, "idle")

InternedAgain(p, pos) ==
  IF loads[p] = <<>>
  THEN Return(p, SymbolAt(pos)) /\ UNCHANGED loads
  ELSE /\ Goto(p, "body")
       /\ UNCHANGED <<answer, loads>>

(* internDirect is done: the call returns, or the load goes on. *)
Interned(p, pos) ==
  IF loads[p] = <<>>
  THEN Return(p, SymbolAt(pos)) /\ UNCHANGED loads
  ELSE /\ loads' = [loads EXCEPT ![p][Len(loads[p])].next = @ + 1]
       /\ Goto(p, "body")
       /\ UNCHANGED answer

Hit(p) ==
  /\ pc[p] = "body" /\ Interning(p)
  /\ lookup(treap, string(p)) # 0
  /\ Interned(p, lookup(treap, string(p)))
  /\ UNCHANGED <<treap, call, adding, position>>

NoSymbol(p) == pc[p] = "body" /\ Interning(p) /\ lookup(treap, string(p)) = 0

(* promoteTo fails for the string: it is one of the caller's and may move.   *)
(* The initial strings are static.                                           *)
Moves(p) ==
  \/ loads[p] = <<>> /\ 1 \in call[p].moving
  \/ Len(loads[p]) = 1 /\ call[p].op = "load" /\ Innermost(p).next \in call[p].moving

(* internDirect answers Nil, and intern is at its `unreachable`: the program *)
(* ends.  (With several processes, what the others do then is more than the  *)
(* code does.)                                                               *)
Unreachable(p) ==
  /\ NoSymbol(p) /\ Moves(p)
  /\ loads[p] = <<>>
  /\ Goto(p, "unreachable")
  /\ UNCHANGED <<treap, call, adding, loads, position, answer>>

(* loadSymbols does not look at what internDirect answers. *)
Skip(p) ==
  /\ NoSymbol(p) /\ Moves(p)
  /\ loads[p] # <<>>
  /\ loads' = [loads EXCEPT ![p][Len(loads[p])].next = @ + 1]
  /\ UNCHANGED <<treap, pc, call, adding, position, answer>>

(* A miss, and nextFree reads the head of the free list. *)
Miss(p) ==
  /\ NoSymbol(p) /\ ~Moves(p)
  /\ position' = [position EXCEPT ![p] = free(treap)]
  /\ Goto(p, "take")
  /\ UNCHANGED <<treap, call, adding, loads, answer>>

(* nextFree takes it off the list, insert stores the key.  With no element   *)
(* free the code is at `catch unreachable`.                                  *)
Take(p) ==
  /\ pc[p] = "take"
  /\ position[p] # 0
  /\ LET pos == position[p]
     IN treap' = [setFree(treap, treap.left[pos]) EXCEPT !.left[pos] = 0, !.key[pos] = string(p)]
  /\ Goto(p, "link")
  /\ UNCHANGED <<call, adding, loads, position, answer>>

(* insertElement panics on an equal key. *)
Link(p) ==
  /\ pc[p] = "link"
  /\ lookup(treap, treap.key[position[p]]) = 0
  /\ LET s == insertElement(treap, position[p], root(treap))
     IN treap' = setRoot(s.tree, s.top)
  /\ Interned(p, position[p])
  /\ UNCHANGED <<call, adding, position>>

(* A load is done: back in allocTreap, or loadSymbols returns. *)
Loaded(p) ==
  /\ pc[p] = "body"
  /\ loads[p] # <<>> /\ ~Loading(p)
  /\ loads' = [loads EXCEPT ![p] = SubSeq(@, 1, Len(@) - 1)]
  /\ IF Len(loads[p]) = 1 /\ call[p].op = "load" THEN Return(p, 0) ELSE UNCHANGED <<pc, answer>>
  /\ UNCHANGED <<treap, call, adding, position>>

Lookup(p) ==
  /\ pc[p] = "body"
  /\ loads[p] = <<>> /\ call[p].op = "lookup"
  /\ LET pos == lookup(treap, call[p].arg)
     IN Return(p, IF pos = 0 THEN Nil ELSE SymbolAt(pos))
  /\ UNCHANGED <<treap, call, adding, loads, position>>

(* An index behind the memory is a failed bounds check: no step. *)
GetKey(p) ==
  /\ pc[p] = "body"
  /\ loads[p] = <<>> /\ call[p].op = "at"
  /\ symbolIndex(call[p].arg) \in Positions(treap)
  /\ Return(p, treap.key[symbolIndex(call[p].arg)])
  /\ UNCHANGED <<treap, call, adding, loads, position>>

Step(p) ==
  \/ theTreap(p) \/ allocTreap(p)
  \/ Hit(p) \/ Unreachable(p) \/ Skip(p) \/ Miss(p) \/ Take(p) \/ Link(p)
  \/ Loaded(p) \/ Lookup(p) \/ GetKey(p)

SymbolsNext ==
  \E p \in Procs :
    intern(p) \/ lookupSymbol(p) \/ asString(p) \/ loadSymbols(p) \/ Step(p)

SymbolsSpec == SymbolsInit /\ [][SymbolsNext]_symbolVars

(* A process inside a call keeps running. *)
FairSpec == SymbolsSpec /\ \A p \in Procs : WF_symbolVars(Step(p))

-----------------------------------------------------------------------------
Linked == {q \in 1 .. Elements(treap) - 1 :
             treap.key[q] # empty /\ \A p \in Procs : pc[p] = "link" => position[p] # q}

SymbolsTypeOK ==
  /\ treap.key \in [Memory(Elements(treap)) -> Strings \cup {empty}]
  /\ treap.left \in [Positions(treap) -> Positions(treap)]
  /\ treap.right \in [Positions(treap) -> Positions(treap)]
  /\ pc \in [Procs -> {"idle", "room", "body", "take", "link", "unreachable"}]
  /\ position \in [Procs -> Positions(treap) \cup {0}]
  /\ \A p \in Procs : pc[p] \in {"idle", "room"} \/ Elements(treap) > 0

(* The `catch unreachable` of internDirect (symbol.zig:218) is never met:    *)
(* room asked for before a nested load is still there after it.              *)
NeverOutOfSpace == \A p \in Procs : pc[p] = "take" => position[p] # 0

(* Types and memory: each position read is one of the present memory, and    *)
(* there is one for whoever asked for room (symbol.zig:173-218).             *)
SymbolsWellFormed == SymbolsTypeOK /\ NeverOutOfSpace

(* Treap.resize is only given larger memory; with as much as before it would *)
(* link its free list behind the end (treap.zig:61, 76).                     *)
MemoryGrows ==
  [][\A p \in Procs :
       Len(loads'[p]) > Len(loads[p]) /\ pc[p] = "room" => Elements(treap') > Elements(treap)]_symbolVars

(* intern was given a new string that may move: it is at `unreachable`.      *)
NotPromoted(p) ==
  /\ pc[p] = "unreachable" /\ call[p].op = "intern" /\ call[p].moving = {1}
  /\ lookup(treap, call[p].arg) = 0

(* Every call returns, the loads nested in an enlargement come to an end,    *)
(* but for an intern of a new string that may move (symbol.zig:203-218).     *)
CallReturns == \A p \in Procs : pc[p] # "idle" ~> (pc[p] = "idle" \/ NotPromoted(p))

-----------------------------------------------------------------------------
(* The answer is the symbol at a position with the arity of the string.      *)
IndexAnswered(p) ==
  /\ call[p].op \in {"intern", "lookup"} /\ answer[p] \notin {NoAnswer, Nil}
  /\ answer[p].arity = Arity[call[p].arg]

(* What users see of the table, of the calls and of their answers. *)
TableNames ==
  IF Cardinality(Linked) < Len(initialSymbolStrings) THEN initialSymbolStrings
  ELSE [i \in 1 .. Cardinality(Linked) |-> treap.key[i]]

(* The strings a load takes into the table. *)
Promised(list, m) == {list[j] : j \in DOMAIN list \ m}

Requested ==
  [p \in Procs |->
     [op |-> call[p].op,
      arg |-> CASE call[p].op = "at" -> symbolIndex(call[p].arg) - 1
                [] call[p].op = "load" -> Promised(call[p].arg, call[p].moving)
                [] OTHER -> call[p].arg]]

Answered ==
  [p \in Procs |-> IF IndexAnswered(p) THEN symbolIndex(answer[p]) - 1 ELSE answer[p]]

(* Users see a table that has the initial strings at the positions of the    *)
(* predefined symbols from the start and gives each string one symbol, with  *)
(* its arity, for ever (symbol.zig:160-226); nested loads and enlargements   *)
(* are invisible.  A string that may move is only promised the symbol it has *)
(* already: new, a load passes it over and intern does not return.  A        *)
(* predefined symbol names its string whatever arity it is written with, but *)
(* where that is not the string's it is not the symbol interning gives.      *)
Abstract == INSTANCE Interner WITH
  Threads <- Procs,
  Keys <- Strings,
  InitKeys <- initialSymbolStrings,
  Loads <- UNION {{Promised(list, m) : m \in SUBSET DOMAIN list} : list \in Loads},
  NotThere <- Nil,
  names <- TableNames,
  request <- Requested,
  answer <- Answered

ImplementsInterner == Abstract!Spec
=============================================================================

------------------------------- MODULE Classes -------------------------------
(***************************************************************************)
(* The symbols and classes of the Rust VM (symbol.rs, class.rs): a table of*)
(* strings, whose indices are symbols, a table of symbols, whose indices   *)
(* are classes, and the symbols counted down from the end for metaclasses. *)
(*                                                                         *)
(* Each table is a LockingTreap, of which only what Interner promises is   *)
(* used here: intern and at are one step, and the initial keys are there.  *)
(* A call that needs both tables takes a step on each.                     *)
(*                                                                         *)
(* An operator named after another one with a suffix is that one with a    *)
(* slip in it, for the runs that show a property to notice it.             *)
(***************************************************************************)
EXTENDS Integers, Sequences, FiniteSets

CONSTANTS
  Threads,
  Strings,          (* the strings threads ask for                          *)
  Arity,            (* of a string as a symbol: Strings -> Nat              *)
  METACLASS_OFFSET, (* 1001, one more than MAX_CLASS                        *)
  EndSymbol,        (* u32::MAX                                             *)
  UniqueSymbols,    (* bound: how many unique symbols are asked for         *)
  Asked,            (* bound: the classes whose names are asked for         *)
  Free, NoAnswer

first_symbols ==
  <<"valueWithArguments:", "cull:", "cull:cull:", "cull:cull:cull:", "cull:cull:cull:cull:",
    "value", "value:", "value:value:", "value:value:value:", "value:value:value:value:",
    "self",
    "Object", "BlockClosure", "False", "True",
    "UndefinedObject", "SmallInteger", "Symbol", "Character",
    "Float", "Array", "String", "Class", "Metaclass",
    "Behavior", "Method", "System", "Return", "Send", "Literal", "Load", "Store",
    "yourself", "==", "~~", "~=", "=", "+", "-", "*", "size">>

(* The hash of a symbol is its index; the arity is a part of its identity.   *)
uncheckedSymbolOf(hash) == [hash |-> hash, arity |-> 0]
symbolOf(string, hash) == [hash |-> hash, arity |-> Arity[string]]

(* The constants of object.rs are 0, 1, 2 ... in the order of first_classes  *)
(* but for Symbol (5), Character (6) and SmallInteger (7).                   *)
first_classes ==
  [i \in 1 .. 21 |->
     uncheckedSymbolOf(11 + CASE i = 6 -> 7 [] i = 7 -> 5 [] i = 8 -> 6 [] OTHER -> i - 1)]

ASSUME ClassesAssumption ==
  /\ IsFiniteSet(Strings)
  /\ Arity \in [Strings -> 0 .. 15]
  /\ \A s \in Strings : (\E i \in 12 .. 32 : first_symbols[i] = s) => Arity[s] = 0
  /\ Len(first_classes) + Cardinality({s \in Strings : \A i \in 12 .. 32 : first_symbols[i] # s})
       <= METACLASS_OFFSET
  /\ Asked \subseteq Nat
  /\ METACLASS_OFFSET \in Nat /\ EndSymbol \in Nat /\ UniqueSymbols \in Nat
  /\ NoAnswer \notin Nat \cup Strings \cup {first_symbols[i] : i \in DOMAIN first_symbols}
  /\ Len(first_symbols) + Cardinality(Strings) <= EndSymbol - UniqueSymbols
  /\ Free \notin Threads

VARIABLES
  symbolTable,  (* strings; the one at i + 1 has index i                    *)
  classTable,   (* symbols                                                  *)
  endSymbol, endLock,
  pc, call,
  found,        (* what the first table answered a thread                   *)
  answer,
  unique        (* the unique symbols handed out                            *)

tables == <<symbolTable, classTable>>
endVars == <<endSymbol, endLock, unique>>
calls == <<pc, call, found, answer>>
vars == <<tables, endVars, calls>>

Interns(s) == [op |-> "intern", arg |-> s]
Asks(c) == [op |-> "at", arg |-> c]

Nothing == uncheckedSymbolOf(0)

Init ==
  /\ symbolTable = first_symbols
  /\ classTable = first_classes
  /\ endSymbol = EndSymbol /\ endLock = Free
  /\ pc = [th \in Threads |-> "idle"]
  /\ call = [th \in Threads |-> Asks(0)]
  /\ found = [th \in Threads |-> Nothing]
  /\ answer = [th \in Threads |-> 0]
  /\ unique = <<>>

Goto(th, l) == pc' = [pc EXCEPT ![th] = l]

(* The table with the key, and the key's index in it. *)
With(table, key) ==
  IF \E i \in DOMAIN table : table[i] = key THEN table ELSE Append(table, key)
Index(table, key) == (CHOOSE i \in DOMAIN table : table[i] = key) - 1
at(table, index) == table[index + 1]

Begin(th, op, c) ==
  /\ pc[th] = "idle"
  /\ call' = [call EXCEPT ![th] = c]
  /\ answer' = [answer EXCEPT ![th] = NoAnswer]
  /\ Goto(th, op)
  /\ UNCHANGED <<tables, endVars, found>>

Return(th, a) ==
  /\ answer' = [answer EXCEPT ![th] = a]
  /\ found' = [found EXCEPT ![th] = Nothing]
  /\ Goto(th, "idle")
  /\ UNCHANGED <<call, endVars>>

-----------------------------------------------------------------------------
intern(th, s) ==
  /\ pc[th] = "idle"
  /\ symbolTable' = With(symbolTable, s)
  /\ UNCHANGED <<classTable, endVars, calls>>

class_index(th) == \E s \in Strings : Begin(th, "class_index", Interns(s))

(* The result of intern, symbolOf included. *)
class_index_symbol(th) ==
  /\ pc[th] = "class_index"
  /\ symbolTable' = With(symbolTable, call[th].arg)
  /\ found' = [found EXCEPT ![th] = symbolOf(call[th].arg, Index(symbolTable', call[th].arg))]
  /\ Goto(th, "class_index_from_symbol")
  /\ UNCHANGED <<classTable, endVars, call, answer>>

class_index_from_symbol(th) ==
  /\ pc[th] = "class_index_from_symbol"
  /\ classTable' = With(classTable, found[th])
  /\ Return(th, Index(classTable', found[th]))
  /\ UNCHANGED symbolTable

is_meta(class) == class >= METACLASS_OFFSET

(* Asked of a class or of its metaclass. *)
name_str(th) ==
  \E class \in Asked :
    /\ (IF is_meta(class) THEN class - METACLASS_OFFSET ELSE class) < Len(classTable)
    /\ Begin(th, "name_str", Asks(class))

class_of_name_by_max(class) == class % (METACLASS_OFFSET - 1)
class_of_name(class) == class % METACLASS_OFFSET

name_str_symbol(th) ==
  /\ pc[th] = "name_str"
  /\ found' = [found EXCEPT ![th] = at(classTable, class_of_name(call[th].arg))]
  /\ Goto(th, "str_of")
  /\ UNCHANGED <<tables, endVars, call, answer>>

str_of(th) ==
  /\ pc[th] = "str_of"
  /\ Return(th, at(symbolTable, found[th].hash))
  /\ UNCHANGED tables

lock_end_unchecked(th) ==
  /\ pc[th] = "idle"
  /\ endLock' = th
  /\ found' = [found EXCEPT ![th] = uncheckedSymbolOf(endSymbol)]

lock_end(th) ==
  /\ pc[th] = "idle" /\ endLock = Free
  /\ endLock' = th
  /\ found' = [found EXCEPT ![th] = uncheckedSymbolOf(endSymbol)]

(* The lock is held from the reading of the counter to its writing. *)
unique_symbol(th) ==
  /\ Len(unique) < UniqueSymbols
  /\ lock_end(th)
  /\ Goto(th, "unique_symbol")
  /\ UNCHANGED <<tables, endSymbol, unique, call, answer>>

unique_symbol_end(th) ==
  /\ pc[th] = "unique_symbol"
  /\ endSymbol' = found[th].hash - 1
  /\ unique' = Append(unique, found[th])
  /\ endLock' = Free
  /\ found' = [found EXCEPT ![th] = Nothing]
  /\ Goto(th, "idle")
  /\ UNCHANGED <<tables, call, answer>>

Next ==
  \E th \in Threads :
    \/ \E s \in Strings : intern(th, s)
    \/ class_index(th) \/ class_index_symbol(th) \/ class_index_from_symbol(th)
    \/ name_str(th) \/ name_str_symbol(th) \/ str_of(th)
    \/ unique_symbol(th) \/ unique_symbol_end(th)

Spec == Init /\ [][Next]_vars

-----------------------------------------------------------------------------
Symbols == [hash : 0 .. EndSymbol, arity : 0 .. 15]

(* Types; every key of the class table is the symbol of a string that is in  *)
(* the symbol table already, with the arity that string has.                 *)
TypeOK ==
  /\ \A i \in DOMAIN symbolTable :
       symbolTable[i] \in Strings \/ (i <= Len(first_symbols) /\ symbolTable[i] = first_symbols[i])
  /\ \A i \in DOMAIN classTable : classTable[i] \in Symbols /\ classTable[i].hash < Len(symbolTable)
  /\ \A i \in DOMAIN classTable :
       LET s == at(symbolTable, classTable[i].hash)
       IN s \in Strings => classTable[i].arity = Arity[s]
  /\ endLock \in Threads \cup {Free}
  /\ pc \in [Threads -> {"idle", "class_index", "class_index_from_symbol", "name_str", "str_of",
                         "unique_symbol"}]

(* No unique symbol is handed out twice, nor is one the symbol of a string   *)
(* (symbol.rs:32-41).                                                        *)
UniqueApart ==
  /\ \A i, j \in DOMAIN unique : i # j => unique[i].hash # unique[j].hash
  /\ \A i \in DOMAIN unique : unique[i].hash >= Len(symbolTable)

(* The symbols: those of strings, classes and unique ones, each kind sound.  *)
WellFormed == TypeOK /\ UniqueApart

(* Classes by name: a table of strings that only grows. *)
ClassRequest(th) ==
  IF call[th].op = "at" THEN Asks(call[th].arg % METACLASS_OFFSET) ELSE call[th]

Abstract ==
  INSTANCE Interner WITH
    Keys <- Strings, Loads <- {}, NotThere <- -1,
    InitKeys <- [i \in DOMAIN first_classes |-> at(first_symbols, first_classes[i].hash)],
    names <- [i \in DOMAIN classTable |-> at(symbolTable, classTable[i].hash)],
    request <- [th \in Threads |-> ClassRequest(th)]

(* The two tables together are an interner of classes by name: whichever     *)
(* threads ask at once, a string has one class, a class is named as it was   *)
(* asked for, as is its metaclass, and each call is answered as if in one    *)
(* step (class.rs:35-43).                                                    *)
ClassesInternNames == Abstract!Spec
=============================================================================

---------------------------- MODULE ClassesProofs ----------------------------
(***************************************************************************)
(* The symbols and classes of the Rust VM stay apart from one another, and *)
(* its two tables together implement the interner of classes by name, for  *)
(* any threads, strings, arities and number of unique symbols.             *)
(***************************************************************************)
EXTENDS Classes, FiniteSetTheorems, TLAPS

FirstSymbols == 1 .. 41
FirstClasses == 1 .. 21
Names == Strings \cup {first_symbols[i] : i \in FirstSymbols}

(* The strings that may become classes.                                      *)
NewNames == {s \in Strings : \A i \in 12 .. 32 : first_symbols[i] # s}

NamedIn(symbols, class) == at(symbols, class.hash)
Named(class) == NamedIn(symbolTable, class)

-----------------------------------------------------------------------------
(* The invariant. *)

(* A table of distinct strings that begins with the predefined ones.         *)
SymbolsApart ==
  /\ symbolTable \in Seq(Names) /\ Len(symbolTable) >= 41
  /\ \A i \in FirstSymbols : symbolTable[i] = first_symbols[i]
  /\ \A i \in DOMAIN symbolTable : i > 41 => symbolTable[i] \in Strings
  /\ \A i, j \in DOMAIN symbolTable : symbolTable[i] = symbolTable[j] => i = j

(* A key of the class table, or about to be one.                             *)
SymbolOfString(class) ==
  /\ class \in [hash : Nat, arity : 0 .. 15]
  /\ class.hash < Len(symbolTable)
  /\ Named(class) \in Strings => class.arity = Arity[Named(class)]

(* A table of the symbols of distinct strings, the predefined classes first. *)
ClassesApart ==
  /\ classTable \in Seq([hash : Nat, arity : 0 .. 15]) /\ Len(classTable) >= 21
  /\ \A i \in FirstClasses : classTable[i] = first_classes[i]
  /\ \A i \in DOMAIN classTable : SymbolOfString(classTable[i])
  /\ \A i \in DOMAIN classTable : i > 21 => Named(classTable[i]) \in NewNames
  /\ \A i, j \in DOMAIN classTable : classTable[i].hash = classTable[j].hash => i = j

(* The call a thread is in, and what it took from the first table.           *)
InCall(th) ==
  /\ pc[th] \in {"class_index", "class_index_from_symbol"} =>
       \E s \in Strings : call[th] = Interns(s)
  /\ pc[th] \in {"name_str", "str_of"} =>
       /\ \E c \in Nat : call[th] = Asks(c)
       /\ call[th].arg % METACLASS_OFFSET \in 0 .. Len(classTable) - 1
  /\ pc[th] = "class_index_from_symbol" =>
       SymbolOfString(found[th]) /\ Named(found[th]) = call[th].arg
  /\ pc[th] = "str_of" =>
       found[th] = classTable[(call[th].arg % METACLASS_OFFSET) + 1]
  /\ answer[th] = NoAnswer <=> pc[th] \notin {"idle", "unique_symbol"}

Calling ==
  /\ pc \in [Threads -> {"idle", "class_index", "class_index_from_symbol", "name_str", "str_of",
                         "unique_symbol"}]
  /\ call = [th \in Threads |-> call[th]] /\ found = [th \in Threads |-> found[th]]
  /\ answer = [th \in Threads |-> answer[th]]
  /\ \A th \in Threads : InCall(th)

(* Unique symbols are counted down from the end, by who has the lock.        *)
CountedDown ==
  /\ unique \in Seq([hash : Nat, arity : 0 .. 15]) /\ Len(unique) <= UniqueSymbols
  /\ \A i \in DOMAIN unique : unique[i].hash = EndSymbol - (i - 1)
  /\ endSymbol = EndSymbol - Len(unique)
  /\ endLock \in Threads \cup {Free}
  /\ \A th \in Threads : pc[th] = "unique_symbol" =>
       /\ endLock = th
       /\ found[th] = uncheckedSymbolOf(endSymbol)
       /\ Len(unique) < UniqueSymbols

IInv == SymbolsApart /\ ClassesApart /\ Calling /\ CountedDown

-----------------------------------------------------------------------------
(* The predefined symbols and classes. *)

LEMMA FirstSymbolsApart ==
  /\ first_symbols \in Seq(Names) /\ Len(first_symbols) = 41
  /\ DOMAIN first_symbols = FirstSymbols
  /\ \A i, j \in FirstSymbols : first_symbols[i] = first_symbols[j] => i = j
<1>1. Len(first_symbols) = 41 /\ DOMAIN first_symbols = FirstSymbols
  BY DEF first_symbols, FirstSymbols
<1>2. first_symbols \in Seq(Names)
  BY <1>1 DEF first_symbols, FirstSymbols, Names
<1>3. \A i, j \in FirstSymbols : first_symbols[i] = first_symbols[j] => i = j
  BY SMTT(60) DEF first_symbols, FirstSymbols
<1> QED
  BY <1>1, <1>2, <1>3

LEMMA FirstClassesApart ==
  /\ first_classes \in Seq([hash : Nat, arity : 0 .. 15]) /\ Len(first_classes) = 21
  /\ DOMAIN first_classes = FirstClasses
  /\ \A i \in FirstClasses :
       /\ first_classes[i] \in [hash : Nat, arity : 0 .. 15]
       /\ first_classes[i].hash \in 11 .. 31 /\ first_classes[i].arity = 0
  /\ \A i, j \in FirstClasses : first_classes[i].hash = first_classes[j].hash => i = j
  /\ \A h \in 11 .. 31 : \E i \in FirstClasses : first_classes[i] = uncheckedSymbolOf(h)
<1> DEFINE index ==
      [i \in FirstClasses |-> CASE i = 6 -> 7 [] i = 7 -> 5 [] i = 8 -> 6 [] OTHER -> i - 1]
<1>1. \A i \in FirstClasses : first_classes[i] = [hash |-> 11 + index[i], arity |-> 0]
  BY DEF first_classes, FirstClasses, uncheckedSymbolOf
<1>2. DOMAIN first_classes = 1 .. 21
  BY DEF first_classes
<1>3. \A i \in FirstClasses : index[i] \in 0 .. 20
  BY DEF FirstClasses
<1>4. \A i, j \in FirstClasses : index[i] = index[j] => i = j
  BY DEF FirstClasses
<1>5. \A n \in 0 .. 20 : \E i \in FirstClasses : index[i] = n
  <2> TAKE n \in 0 .. 20
  <2>1. CASE n = 5
    BY <2>1, 7 \in FirstClasses, index[7] = 5 DEF FirstClasses
  <2>2. CASE n = 6
    BY <2>2, 8 \in FirstClasses, index[8] = 6 DEF FirstClasses
  <2>3. CASE n = 7
    BY <2>3, 6 \in FirstClasses, index[6] = 7 DEF FirstClasses
  <2>4. CASE n \notin {5, 6, 7}
    <3>1. n + 1 \in FirstClasses /\ index[n + 1] = n
      BY <2>4 DEF FirstClasses
    <3> QED
      BY <3>1
  <2> QED
    BY <2>1, <2>2, <2>3, <2>4
<1> HIDE DEF index
<1>6. first_classes = [i \in 1 .. 21 |-> first_classes[i]]
  BY DEF first_classes
<1>7. \A i \in FirstClasses :
        /\ first_classes[i] \in [hash : Nat, arity : 0 .. 15]
        /\ first_classes[i].hash = 11 + index[i] /\ first_classes[i].arity = 0
  <2> TAKE i \in FirstClasses
  <2>1. 11 + index[i] \in Nat
    BY <1>3
  <2>2. first_classes[i] = [hash |-> 11 + index[i], arity |-> 0]
    BY <1>1
  <2> QED
    BY <2>1, <2>2
<1>8. first_classes \in Seq([hash : Nat, arity : 0 .. 15]) /\ Len(first_classes) = 21
  BY <1>2, <1>6, <1>7 DEF FirstClasses
<1>9. \A i \in FirstClasses : first_classes[i].hash \in 11 .. 31 /\ first_classes[i].arity = 0
  BY <1>3, <1>7
<1>10. \A i, j \in FirstClasses : first_classes[i].hash = first_classes[j].hash => i = j
  BY <1>3, <1>4, <1>7
<1>11. \A h \in 11 .. 31 : \E i \in FirstClasses : first_classes[i] = uncheckedSymbolOf(h)
  <2> TAKE h \in 11 .. 31
  <2>1. PICK i \in FirstClasses : index[i] = h - 11
    BY <1>5
  <2> QED
    BY <1>1, <2>1 DEF uncheckedSymbolOf
<1> QED
  BY <1>2, <1>7, <1>8, <1>9, <1>10, <1>11 DEF FirstClasses

-----------------------------------------------------------------------------
(* How long the tables get: strings are distinct. *)

LEMMA DistinctFit ==
  ASSUME NEW S, IsFiniteSet(S), NEW m \in Nat, NEW n \in Nat, m <= n,
         NEW f \in [m + 1 .. n -> S],
         \A i, j \in m + 1 .. n : f[i] = f[j] => i = j
  PROVE  n <= m + Cardinality(S)
<1>1. f \in Injection(m + 1 .. n, S)
  BY DEF Injection, IsInjective
<1>2. Cardinality(m + 1 .. n) <= Cardinality(S)
  BY <1>1, FS_Injection
<1>3. Cardinality(m + 1 .. n) = n - m
  <2>1. m + 1 \in Int /\ n \in Int
    OBVIOUS
  <2>2. Cardinality(m + 1 .. n) = IF m + 1 > n THEN 0 ELSE n - (m + 1) + 1
    BY <2>1, FS_Interval
  <2> QED
    BY <2>2
<1>4. Cardinality(S) \in Nat
  BY FS_CardinalityType
<1> QED
  BY <1>2, <1>3, <1>4

LEMMA SymbolsFit ==
  ASSUME SymbolsApart
  PROVE  Len(symbolTable) <= EndSymbol - UniqueSymbols
<1> DEFINE n == Len(symbolTable)
           f == [i \in 41 + 1 .. n |-> symbolTable[i]]
<1>1. n \in Nat /\ 41 <= n /\ DOMAIN symbolTable = 1 .. n
  BY DEF SymbolsApart
<1>2. f \in [41 + 1 .. n -> Strings] /\ \A i, j \in 41 + 1 .. n : f[i] = f[j] => i = j
  BY <1>1 DEF SymbolsApart
<1>3. IsFiniteSet(Strings)
  BY ClassesAssumption
<1> HIDE DEF f, n
<1>4. n <= 41 + Cardinality(Strings)
  BY <1>1, <1>2, <1>3, DistinctFit
<1>5. 41 + Cardinality(Strings) <= EndSymbol - UniqueSymbols
  BY ClassesAssumption, FirstSymbolsApart
<1>6. Cardinality(Strings) \in Nat
  BY <1>3, FS_CardinalityType
<1> QED
  BY <1>1, <1>4, <1>5, <1>6, ClassesAssumption DEF n

LEMMA ClassesFit ==
  ASSUME SymbolsApart, ClassesApart
  PROVE  Len(classTable) <= METACLASS_OFFSET
<1> DEFINE n == Len(classTable)
           f == [i \in 21 + 1 .. n |-> Named(classTable[i])]
<1>1. n \in Nat /\ 21 <= n /\ DOMAIN classTable = 1 .. n
  BY DEF ClassesApart
<1>2. f \in [21 + 1 .. n -> NewNames]
  BY <1>1 DEF ClassesApart
<1>3. \A i, j \in 21 + 1 .. n : f[i] = f[j] => i = j
  <2> TAKE i \in 21 + 1 .. n, j \in 21 + 1 .. n
  <2> HAVE f[i] = f[j]
  <2>1. /\ classTable[i].hash \in Nat /\ classTable[i].hash < Len(symbolTable)
        /\ classTable[j].hash \in Nat /\ classTable[j].hash < Len(symbolTable)
    BY <1>1 DEF ClassesApart, SymbolOfString
  <2>2. symbolTable[classTable[i].hash + 1] = symbolTable[classTable[j].hash + 1]
    BY DEF Named, NamedIn, at
  <2>3. classTable[i].hash = classTable[j].hash
    <3>1. classTable[i].hash + 1 \in DOMAIN symbolTable /\ classTable[j].hash + 1 \in DOMAIN symbolTable
      BY <2>1 DEF SymbolsApart
    <3>2. classTable[i].hash + 1 = classTable[j].hash + 1
      BY <2>2, <3>1 DEF SymbolsApart
    <3> QED
      BY <2>1, <3>2
  <2> QED
    BY <1>1, <2>3 DEF ClassesApart
<1>4. IsFiniteSet(NewNames)
  BY ClassesAssumption, FS_Subset DEF NewNames
<1> HIDE DEF f, n
<1>5. n <= 21 + Cardinality(NewNames)
  BY <1>1, <1>2, <1>3, <1>4, DistinctFit
<1>6. 21 + Cardinality(NewNames) <= METACLASS_OFFSET
  <2>1. NewNames = {s \in Strings : \A i \in 12 .. 32 : first_symbols[i] # s}
    BY DEF NewNames
  <2> QED
    BY <2>1, ClassesAssumption, FirstClassesApart
<1>7. Cardinality(NewNames) \in Nat
  BY <1>4, FS_CardinalityType
<1> QED
  BY <1>1, <1>5, <1>6, <1>7, ClassesAssumption DEF n

-----------------------------------------------------------------------------
(* One key more, or the key that is there. *)

Grows(old, new) == Len(old) <= Len(new) /\ \A i \in DOMAIN old : new[i] = old[i]

LEMMA InternedThere ==
  ASSUME NEW S, NEW table \in Seq(S), NEW key \in S
  PROVE  /\ With(table, key) \in Seq(S)
         /\ Grows(table, With(table, key))
         /\ \/ With(table, key) = table
            \/ /\ \A i \in DOMAIN table : table[i] # key
               /\ With(table, key) = Append(table, key)
         /\ Index(With(table, key), key) \in 0 .. Len(With(table, key)) - 1
         /\ at(With(table, key), Index(With(table, key), key)) = key
<1> DEFINE new == With(table, key)
<1>1. /\ new \in Seq(S) /\ Grows(table, new)
      /\ \/ new = table
         \/ (\A i \in DOMAIN table : table[i] # key) /\ new = Append(table, key)
  BY DEF With, Grows
<1>2. \E i \in DOMAIN new : new[i] = key
  <2>1. CASE \E i \in DOMAIN table : table[i] = key
    BY <2>1 DEF With
  <2>2. CASE ~ \E i \in DOMAIN table : table[i] = key
    <3>1. new = Append(table, key) /\ new[Len(table) + 1] = key /\ Len(table) + 1 \in DOMAIN new
      BY <2>2 DEF With
    <3> QED
      BY <3>1
  <2> QED
    BY <2>1, <2>2
<1> HIDE DEF new
<1> DEFINE found_at == CHOOSE i \in DOMAIN new : new[i] = key
<1>3. found_at \in DOMAIN new /\ new[found_at] = key
  BY <1>2
<1>4. Index(new, key) = found_at - 1
  BY DEF Index
<1> HIDE DEF found_at
<1>5. Index(new, key) \in 0 .. Len(new) - 1 /\ at(new, Index(new, key)) = key
  BY <1>1, <1>3, <1>4 DEF at
<1> QED
  BY <1>1, <1>5 DEF new

LEMMA SymbolAdded ==
  ASSUME SymbolsApart, NEW s \in Strings, symbolTable' = With(symbolTable, s)
  PROVE  SymbolsApart' /\ Grows(symbolTable, symbolTable')
<1>1. s \in Names /\ symbolTable \in Seq(Names)
  BY DEF SymbolsApart, Names
<1>2. /\ symbolTable' \in Seq(Names) /\ Grows(symbolTable, symbolTable')
      /\ \/ symbolTable' = symbolTable
         \/ /\ \A i \in DOMAIN symbolTable : symbolTable[i] # s
            /\ symbolTable' = Append(symbolTable, s)
  <2>1. With(symbolTable, s) \in Seq(Names) /\ Grows(symbolTable, With(symbolTable, s))
    BY <1>1, InternedThere
  <2>2. \/ With(symbolTable, s) = symbolTable
        \/ /\ \A i \in DOMAIN symbolTable : symbolTable[i] # s
           /\ With(symbolTable, s) = Append(symbolTable, s)
    BY DEF With
  <2> QED
    BY <2>1, <2>2
<1>3. CASE symbolTable' = symbolTable
  BY <1>2, <1>3 DEF SymbolsApart
<1>4. CASE /\ \A i \in DOMAIN symbolTable : symbolTable[i] # s
           /\ symbolTable' = Append(symbolTable, s)
  <2> DEFINE n == Len(symbolTable)
  <2>1. /\ n \in Nat /\ n >= 41 /\ DOMAIN symbolTable = 1 .. n
        /\ DOMAIN symbolTable' = 1 .. n + 1 /\ Len(symbolTable') = n + 1
        /\ \A i \in 1 .. n : symbolTable'[i] = symbolTable[i]
        /\ symbolTable'[n + 1] = s
    BY <1>1, <1>4 DEF SymbolsApart
  <2> HIDE DEF n
  <2>2. \A i \in FirstSymbols : symbolTable'[i] = first_symbols[i]
    <3> TAKE i \in FirstSymbols
    <3>1. i \in 1 .. n
      BY <2>1 DEF FirstSymbols
    <3>2. symbolTable[i] = first_symbols[i]
      BY DEF SymbolsApart
    <3> QED
      BY <2>1, <3>1, <3>2
  <2>3. \A i \in DOMAIN symbolTable' : i > 41 => symbolTable'[i] \in Strings
    BY <2>1 DEF SymbolsApart
  <2>4. \A i, j \in DOMAIN symbolTable' : symbolTable'[i] = symbolTable'[j] => i = j
    BY <1>4, <2>1 DEF SymbolsApart
  <2> QED
    BY <1>2, <2>1, <2>2, <2>3, <2>4 DEF SymbolsApart
<1> QED
  BY <1>2, <1>3, <1>4

(* What a class is called does not change when symbols are added.            *)
LEMMA NamesKept ==
  ASSUME SymbolsApart, SymbolsApart', Grows(symbolTable, symbolTable'), NEW class, SymbolOfString(class)
  PROVE  NamedIn(symbolTable', class) = Named(class)
<1>1. class.hash + 1 \in DOMAIN symbolTable
  BY DEF SymbolOfString, SymbolsApart
<1> QED
  BY <1>1 DEF Grows, Named, NamedIn, at

LEMMA SymbolsKept ==
  ASSUME SymbolsApart, SymbolsApart', Grows(symbolTable, symbolTable'), NEW class, SymbolOfString(class)
  PROVE  /\ class \in [hash : Nat, arity : 0 .. 15]
         /\ class.hash < Len(symbolTable')
         /\ NamedIn(symbolTable', class) \in Strings => class.arity = Arity[NamedIn(symbolTable', class)]
<1>1. class.hash < Len(symbolTable) /\ Len(symbolTable) <= Len(symbolTable')
      /\ class.hash \in Nat /\ Len(symbolTable) \in Nat /\ Len(symbolTable') \in Nat
  BY DEF SymbolOfString, Grows, SymbolsApart
<1> QED
  BY <1>1, NamesKept DEF SymbolOfString

LEMMA ClassesKept ==
  ASSUME SymbolsApart, SymbolsApart', ClassesApart,
         Grows(symbolTable, symbolTable'), UNCHANGED classTable
  PROVE  ClassesApart'
<1>1. \A i \in DOMAIN classTable : SymbolOfString(classTable[i])
  BY DEF ClassesApart
<1>2. \A i \in DOMAIN classTable' : SymbolOfString(classTable[i])'
  BY <1>1, SymbolsKept DEF SymbolOfString, Named
<1>3. \A i \in DOMAIN classTable : NamedIn(symbolTable', classTable[i]) = Named(classTable[i])
  BY <1>1, NamesKept
<1> QED
  BY <1>2, <1>3 DEF ClassesApart, Named

(* A symbol that is no class yet is not called as one, since strings have    *)
(* one symbol each, and is none of the predefined classes.                   *)
LEMMA ClassAdded ==
  ASSUME SymbolsApart, ClassesApart, NEW class, SymbolOfString(class), Named(class) \in Strings,
         UNCHANGED symbolTable, classTable' = With(classTable, class)
  PROVE  /\ ClassesApart' /\ Grows(classTable, classTable')
         /\ classTable' # classTable =>
              /\ classTable' = Append(classTable, class)
              /\ \A i \in DOMAIN classTable : Named(classTable[i]) # Named(class)
<1> DEFINE n == Len(classTable)
<1>1. class \in [hash : Nat, arity : 0 .. 15] /\ classTable \in Seq([hash : Nat, arity : 0 .. 15])
  BY DEF SymbolOfString, ClassesApart
<1>2. /\ classTable' \in Seq([hash : Nat, arity : 0 .. 15]) /\ Grows(classTable, classTable')
      /\ \/ classTable' = classTable
         \/ /\ \A i \in DOMAIN classTable : classTable[i] # class
            /\ classTable' = Append(classTable, class)
  <2> DEFINE S == [hash : Nat, arity : 0 .. 15]
  <2>1. class \in S /\ classTable \in Seq(S)
    BY <1>1
  <2> HIDE DEF S
  <2>2. /\ With(classTable, class) \in Seq(S) /\ Grows(classTable, With(classTable, class))
        /\ \/ With(classTable, class) = classTable
           \/ /\ \A i \in DOMAIN classTable : classTable[i] # class
              /\ With(classTable, class) = Append(classTable, class)
    BY <2>1, InternedThere
  <2> QED
    BY <2>2 DEF S
<1>3. CASE classTable' = classTable
  BY <1>2, <1>3 DEF ClassesApart, SymbolOfString, Named
<1>4. CASE /\ \A i \in DOMAIN classTable : classTable[i] # class
           /\ classTable' = Append(classTable, class)
  <2>1. /\ n \in Nat /\ n >= 21 /\ DOMAIN classTable = 1 .. n
        /\ DOMAIN classTable' = 1 .. n + 1 /\ Len(classTable') = n + 1
        /\ \A i \in 1 .. n : classTable'[i] = classTable[i]
        /\ classTable'[n + 1] = class
    BY <1>1, <1>4 DEF ClassesApart
  <2> HIDE DEF n
  <2>2. \A i \in DOMAIN classTable :
          classTable[i].hash # class.hash /\ Named(classTable[i]) # Named(class)
    <3> SUFFICES ASSUME NEW i \in DOMAIN classTable
                 PROVE  classTable[i].hash # class.hash /\ Named(classTable[i]) # Named(class)
      OBVIOUS
    <3>1. SymbolOfString(classTable[i])
      BY DEF ClassesApart
    <3>2. classTable[i].hash # class.hash
      <4> SUFFICES ASSUME classTable[i].hash = class.hash PROVE FALSE
        OBVIOUS
      <4>1. Named(classTable[i]) = Named(class)
        BY DEF Named, NamedIn
      <4>2. classTable[i].arity = class.arity
        BY <3>1, <4>1 DEF SymbolOfString
      <4>3. classTable[i] \in [hash : Nat, arity : 0 .. 15]
        BY <3>1 DEF SymbolOfString
      <4>4. classTable[i] = class
        BY <1>1, <4>2, <4>3
      <4> QED
        BY <1>4, <4>4
    <3>3. /\ classTable[i].hash + 1 \in DOMAIN symbolTable
          /\ class.hash + 1 \in DOMAIN symbolTable
          /\ classTable[i].hash \in Nat /\ class.hash \in Nat
      BY <3>1 DEF SymbolOfString, SymbolsApart
    <3> QED
      BY <3>2, <3>3 DEF Named, NamedIn, at, SymbolsApart
  <2>3. Named(class) \in NewNames
    <3> SUFFICES ASSUME NEW k \in 12 .. 32, first_symbols[k] = Named(class)
                 PROVE  FALSE
      BY DEF NewNames
    <3>0. k \in FirstSymbols
      BY DEF FirstSymbols
    <3>1. k \in DOMAIN symbolTable /\ symbolTable[k] = first_symbols[k]
      BY <3>0 DEF SymbolsApart
    <3>2. class.hash \in Nat /\ class.hash + 1 \in DOMAIN symbolTable
      BY DEF SymbolOfString, SymbolsApart
    <3>3. class.hash + 1 = k
      BY <3>1, <3>2 DEF Named, NamedIn, at, SymbolsApart
    <3>4. PICK i \in FirstClasses : first_classes[i].hash = class.hash
      <4>1. class.hash \in 11 .. 31
        BY <3>2, <3>3
      <4>2. PICK i \in FirstClasses : first_classes[i] = uncheckedSymbolOf(class.hash)
        BY <4>1, FirstClassesApart
      <4>3. first_classes[i].hash = class.hash
        BY <4>2 DEF uncheckedSymbolOf
      <4> QED
        BY <4>3
    <3>5. i \in DOMAIN classTable
      BY <2>1 DEF FirstClasses
    <3>6. classTable[i] = first_classes[i]
      BY DEF ClassesApart
    <3> QED
      BY <2>2, <3>4, <3>5, <3>6
  <2>4. \A i \in FirstClasses : classTable'[i] = first_classes[i]
    <3> TAKE i \in FirstClasses
    <3>1. i \in 1 .. n
      BY <2>1 DEF FirstClasses
    <3>2. classTable[i] = first_classes[i]
      BY DEF ClassesApart
    <3> QED
      BY <2>1, <3>1, <3>2
  <2>5. \A i \in DOMAIN classTable' : SymbolOfString(classTable'[i])
    BY <2>1 DEF ClassesApart
  <2>6. \A i \in DOMAIN classTable' : i > 21 => Named(classTable'[i]) \in NewNames
    BY <2>1, <2>3 DEF ClassesApart
  <2>7. \A i, j \in DOMAIN classTable' : classTable'[i].hash = classTable'[j].hash => i = j
    BY <2>1, <2>2 DEF ClassesApart
  <2>8. Len(classTable') >= 21 /\ n + 1 \in DOMAIN classTable' /\ n + 1 \notin DOMAIN classTable
    BY <2>1
  <2>9. ClassesApart'
    BY <1>2, <2>4, <2>5, <2>6, <2>7, <2>8 DEF ClassesApart, SymbolOfString, Named
  <2> QED
    BY <1>2, <1>4, <2>2, <2>9
<1> QED
  BY <1>2, <1>3, <1>4

-----------------------------------------------------------------------------
(* The invariant is inductive. *)

LEMMA Modulo ==
  ASSUME NEW m \in Nat, NEW c \in Nat
  PROVE  /\ c < m => c % m = c
         /\ m <= c /\ c - m < m => c % m = c - m
  BY SMTT(30)

LEMMA InitIInv == Init => IInv
<1> SUFFICES ASSUME Init PROVE IInv
  OBVIOUS
<1>1. SymbolsApart
  <2>1. symbolTable = first_symbols
    BY DEF Init
  <2>2. 41 >= 41 /\ \A i \in FirstSymbols : ~(i > 41)
    BY DEF FirstSymbols
  <2> QED
    BY <2>1, <2>2, FirstSymbolsApart DEF SymbolsApart
<1>2. ClassesApart
  <2>1. classTable = first_classes /\ symbolTable = first_symbols
    BY DEF Init
  <2>2. \A i \in DOMAIN classTable : SymbolOfString(classTable[i])
    <3> SUFFICES ASSUME NEW i \in FirstClasses
                 PROVE  SymbolOfString(first_classes[i])
      BY <2>1, FirstClassesApart
    <3> DEFINE k == first_classes[i].hash + 1
    <3>1. /\ first_classes[i] \in [hash : Nat, arity : 0 .. 15]
          /\ first_classes[i].hash < 41 /\ k \in 12 .. 32 /\ first_classes[i].arity = 0
      <4>1. first_classes[i] \in [hash : Nat, arity : 0 .. 15]
        BY FirstClassesApart
      <4>2. first_classes[i].hash \in 11 .. 31 /\ first_classes[i].arity = 0
        BY FirstClassesApart
      <4> QED
        BY <4>1, <4>2
    <3>2. first_symbols[k] \in Strings => Arity[first_symbols[k]] = 0
      BY <3>1, ClassesAssumption
    <3>3. Named(first_classes[i]) = first_symbols[k]
      BY <2>1 DEF Named, NamedIn, at
    <3>4. Len(symbolTable) = 41
      BY <2>1, FirstSymbolsApart
    <3> QED
      BY <3>1, <3>2, <3>3, <3>4 DEF SymbolOfString
  <2>3. Len(classTable) >= 21 /\ \A i \in DOMAIN classTable : ~(i > 21)
    <3>1. Len(classTable) = 21 /\ DOMAIN classTable = FirstClasses
      BY <2>1, FirstClassesApart
    <3> QED
      BY <3>1 DEF FirstClasses
  <2> QED
    BY <2>1, <2>2, <2>3, FirstClassesApart DEF ClassesApart
<1>3. Calling
  BY ClassesAssumption DEF Init, Calling, InCall
<1>4. CountedDown
  BY ClassesAssumption DEF Init, CountedDown
<1> QED
  BY <1>1, <1>2, <1>3, <1>4 DEF IInv

LEMMA GrowsItself == ASSUME NEW S, NEW table \in Seq(S) PROVE Grows(table, table)
  BY DEF Grows

(* Calls of other threads do not mind what is added to the tables.           *)
LEMMA InCallKept ==
  ASSUME SymbolsApart, SymbolsApart', ClassesApart, ClassesApart',
         Grows(symbolTable, symbolTable'), Grows(classTable, classTable'),
         NEW th \in Threads, InCall(th),
         pc'[th] = pc[th], call'[th] = call[th], found'[th] = found[th], answer'[th] = answer[th]
  PROVE  InCall(th)'
<1>1. ASSUME pc[th] = "class_index_from_symbol"
      PROVE  SymbolOfString(found[th])' /\ Named(found[th])' = call'[th].arg
  <2>1. SymbolOfString(found[th]) /\ Named(found[th]) = call[th].arg
    BY <1>1 DEF InCall
  <2>2. NamedIn(symbolTable', found[th]) = call[th].arg
    BY <2>1, NamesKept
  <2>3. SymbolOfString(found[th])'
    BY <2>1, SymbolsKept DEF SymbolOfString, Named
  <2> QED
    BY <2>2, <2>3 DEF Named
<1>2. \A i \in 0 .. Len(classTable) - 1 :
        i \in 0 .. Len(classTable') - 1 /\ classTable'[i + 1] = classTable[i + 1]
  <2>1. /\ Len(classTable) \in Nat /\ Len(classTable') \in Nat
        /\ DOMAIN classTable = 1 .. Len(classTable)
    BY DEF ClassesApart
  <2>2. /\ Len(classTable) <= Len(classTable')
        /\ \A i \in DOMAIN classTable : classTable'[i] = classTable[i]
    BY DEF Grows
  <2> QED
    BY <2>1, <2>2
<1> QED
  BY <1>1, <1>2 DEF InCall

(* A step of one thread. *)
Moves(th) ==
  /\ pc' \in [Threads -> {"idle", "class_index", "class_index_from_symbol", "name_str", "str_of",
                          "unique_symbol"}]
  /\ call' = [t \in Threads |-> call'[t]] /\ found' = [t \in Threads |-> found'[t]]
  /\ answer' = [t \in Threads |-> answer'[t]]
  /\ \A other \in Threads \ {th} :
       /\ pc'[other] = pc[other] /\ call'[other] = call[other]
       /\ found'[other] = found[other] /\ answer'[other] = answer[other]

LEMMA CallingKept ==
  ASSUME SymbolsApart, SymbolsApart', ClassesApart, ClassesApart', Calling,
         Grows(symbolTable, symbolTable'), Grows(classTable, classTable'),
         NEW th \in Threads, Moves(th),
         InCall(th)'
  PROVE  Calling'
<1>1. ASSUME NEW other \in Threads \ {th} PROVE InCall(other)'
  <2>1. /\ pc'[other] = pc[other] /\ call'[other] = call[other]
        /\ found'[other] = found[other] /\ answer'[other] = answer[other]
    BY DEF Moves
  <2>2. InCall(other)
    BY DEF Calling
  <2> QED
    BY <2>1, <2>2, InCallKept
<1> QED
  BY <1>1 DEF Calling, Moves

(* The counter of unique symbols is left alone by all other calls.           *)
LEMMA CountedDownKept ==
  ASSUME CountedDown, Calling, NEW th \in Threads, UNCHANGED endVars,
         Moves(th), pc[th] # "unique_symbol", pc'[th] # "unique_symbol"
  PROVE  CountedDown'
<1>1. \A other \in Threads : pc'[other] = "unique_symbol" =>
        pc[other] = "unique_symbol" /\ found'[other] = found[other]
  BY DEF Moves
<1> QED
  BY <1>1 DEF CountedDown, endVars

LEMMA InternKeeps ==
  ASSUME IInv, NEW th \in Threads, NEW s \in Strings, intern(th, s)
  PROVE  IInv'
<1>1. SymbolsApart' /\ Grows(symbolTable, symbolTable')
  BY SymbolAdded DEF IInv, intern
<1>2. ClassesApart' /\ Grows(classTable, classTable')
  BY <1>1, ClassesKept, GrowsItself DEF IInv, intern, ClassesApart
<1>3. \A other \in Threads : InCall(other)'
  BY <1>1, <1>2, InCallKept DEF IInv, Calling, intern, calls
<1> QED
  BY <1>1, <1>2, <1>3 DEF IInv, Calling, CountedDown, intern, calls, endVars

LEMMA BeginKeeps ==
  ASSUME IInv, NEW th \in Threads, class_index(th) \/ name_str(th)
  PROVE  IInv'
<1> DEFINE op == pc'[th]
           c == call'[th]
<1>1. Begin(th, op, c) /\ op \in {"class_index", "name_str"}
  BY DEF class_index, name_str, Begin, Goto, IInv, Calling
<1>2. SymbolsApart' /\ ClassesApart'
  BY <1>1 DEF IInv, Begin, tables, SymbolsApart, ClassesApart, SymbolOfString, Named
<1>3. Grows(symbolTable, symbolTable') /\ Grows(classTable, classTable')
  BY <1>1, GrowsItself DEF IInv, Begin, tables, SymbolsApart, ClassesApart
<1>4. pc'[th] \in {"class_index", "name_str"} /\ answer'[th] = NoAnswer
  BY <1>1 DEF IInv, Calling, Begin, Goto
<1>5. pc'[th] = "class_index" => \E s \in Strings : call'[th] = Interns(s)
  BY DEF IInv, Calling, class_index, name_str, Begin, Goto
<1>6. pc'[th] = "name_str" =>
        /\ \E class \in Nat : call'[th] = Asks(class)
        /\ call'[th].arg % METACLASS_OFFSET \in 0 .. Len(classTable') - 1
  <2> SUFFICES ASSUME pc'[th] = "name_str"
               PROVE  /\ \E class \in Nat : call'[th] = Asks(class)
                      /\ call'[th].arg % METACLASS_OFFSET \in 0 .. Len(classTable') - 1
    OBVIOUS
  <2>1. PICK class \in Asked :
          /\ (IF is_meta(class) THEN class - METACLASS_OFFSET ELSE class) < Len(classTable)
          /\ call'[th] = Asks(class)
    BY DEF IInv, Calling, class_index, name_str, Begin, Goto
  <2>2. class \in Nat /\ METACLASS_OFFSET \in Nat
    BY ClassesAssumption
  <2>3. Len(classTable) \in Nat /\ Len(classTable) <= METACLASS_OFFSET /\ Len(classTable') = Len(classTable)
    BY <1>1, ClassesFit DEF IInv, ClassesApart, Begin, tables
  <2>4. class % METACLASS_OFFSET \in 0 .. Len(classTable) - 1
    <3>1. CASE is_meta(class)
      <4>1. METACLASS_OFFSET <= class /\ class - METACLASS_OFFSET < METACLASS_OFFSET
        BY <2>1, <2>2, <2>3, <3>1 DEF is_meta
      <4>2. class % METACLASS_OFFSET = class - METACLASS_OFFSET
        BY <2>2, <4>1, Modulo
      <4> QED
        BY <2>1, <2>2, <2>3, <3>1, <4>1, <4>2
    <3>2. CASE ~is_meta(class)
      <4>1. class < METACLASS_OFFSET
        BY <2>1, <2>2, <2>3, <3>2 DEF is_meta
      <4>2. class % METACLASS_OFFSET = class
        BY <2>2, <4>1, Modulo
      <4> QED
        BY <2>1, <2>2, <2>3, <3>2, <4>2
    <3> QED
      BY <3>1, <3>2
  <2> QED
    BY <2>1, <2>2, <2>3, <2>4 DEF Asks
<1>7. InCall(th)'
  BY <1>4, <1>5, <1>6 DEF InCall
<1>8. Moves(th)
  BY <1>1 DEF Moves, Begin, Goto, IInv, Calling
<1>9. pc[th] # "unique_symbol" /\ pc'[th] # "unique_symbol" /\ UNCHANGED endVars
  BY <1>1, <1>4 DEF Begin
<1> QED
  BY <1>2, <1>3, <1>7, <1>8, <1>9, CallingKept, CountedDownKept DEF IInv

LEMMA SymbolKeeps ==
  ASSUME IInv, NEW th \in Threads, class_index_symbol(th)
  PROVE  IInv'
<1> DEFINE s == call[th].arg
<1>1. s \in Strings /\ call[th] = Interns(s)
  BY DEF IInv, Calling, InCall, class_index_symbol, Interns
<1>2. SymbolsApart' /\ Grows(symbolTable, symbolTable')
  BY <1>1, SymbolAdded DEF IInv, class_index_symbol
<1>3. ClassesApart' /\ Grows(classTable, classTable')
  BY <1>2, ClassesKept, GrowsItself DEF IInv, class_index_symbol, ClassesApart
<1>4. Moves(th) /\ pc'[th] = "class_index_from_symbol" /\ call'[th] = call[th]
      /\ answer'[th] = answer[th] /\ found'[th] = symbolOf(s, Index(symbolTable', s))
  BY DEF Moves, IInv, Calling, class_index_symbol, Goto
<1>5. Index(symbolTable', s) \in 0 .. Len(symbolTable') - 1
      /\ at(symbolTable', Index(symbolTable', s)) = s
  <2>1. symbolTable \in Seq(Names) /\ s \in Names /\ symbolTable' = With(symbolTable, s)
    BY <1>1 DEF IInv, SymbolsApart, Names, class_index_symbol
  <2> QED
    BY <2>1, InternedThere
<1>6. Arity[s] \in 0 .. 15
  BY <1>1, ClassesAssumption
<1>7. SymbolOfString(found[th])' /\ Named(found[th])' = s
  <2>1. /\ found'[th] \in [hash : Nat, arity : 0 .. 15]
        /\ found'[th].hash = Index(symbolTable', s) /\ found'[th].arity = Arity[s]
    BY <1>4, <1>5, <1>6 DEF symbolOf
  <2>2. Len(symbolTable') \in Nat
    BY <1>2 DEF SymbolsApart
  <2> QED
    BY <1>5, <2>1, <2>2 DEF SymbolOfString, Named, NamedIn
<1>8. InCall(th)'
  <2>1. answer[th] = NoAnswer
    BY DEF IInv, Calling, InCall, class_index_symbol
  <2> QED
    BY <1>1, <1>4, <1>7, <2>1 DEF InCall
<1>9. pc[th] # "unique_symbol" /\ pc'[th] # "unique_symbol" /\ UNCHANGED endVars
  BY <1>4 DEF class_index_symbol
<1> QED
  BY <1>2, <1>3, <1>4, <1>8, <1>9, CallingKept, CountedDownKept DEF IInv

(* What a class is added for: its symbol is that of the string asked for.    *)
LEMMA ClassFound ==
  ASSUME IInv, NEW th \in Threads, class_index_from_symbol(th)
  PROVE  /\ SymbolOfString(found[th]) /\ Named(found[th]) \in Strings
         /\ call[th] = Interns(Named(found[th]))
         /\ ClassesApart' /\ Grows(classTable, classTable')
         /\ classTable' # classTable =>
              /\ classTable' = Append(classTable, found[th])
              /\ \A i \in DOMAIN classTable : Named(classTable[i]) # Named(found[th])
         /\ Index(classTable', found[th]) \in 0 .. Len(classTable') - 1
         /\ at(classTable', Index(classTable', found[th])) = found[th]
<1>1. PICK s \in Strings : call[th] = Interns(s) /\ Named(found[th]) = s /\ SymbolOfString(found[th])
  BY DEF IInv, Calling, InCall, class_index_from_symbol, Interns
<1>2. /\ ClassesApart' /\ Grows(classTable, classTable')
      /\ classTable' # classTable =>
           /\ classTable' = Append(classTable, found[th])
           /\ \A i \in DOMAIN classTable : Named(classTable[i]) # Named(found[th])
  BY <1>1, ClassAdded DEF IInv, class_index_from_symbol
<1> DEFINE S == [hash : Nat, arity : 0 .. 15]
<1>3. found[th] \in S /\ classTable \in Seq(S) /\ classTable' = With(classTable, found[th])
  BY <1>1 DEF IInv, ClassesApart, SymbolOfString, class_index_from_symbol
<1> HIDE DEF S
<1>4. Index(classTable', found[th]) \in 0 .. Len(classTable') - 1
      /\ at(classTable', Index(classTable', found[th])) = found[th]
  BY <1>3, InternedThere
<1> QED
  BY <1>1, <1>2, <1>4

LEMMA NotNoAnswer ==
  /\ \A n \in Nat : n # NoAnswer
  /\ \A s \in Names : s # NoAnswer
  BY ClassesAssumption, FirstSymbolsApart DEF Names

LEMMA ReturnKeeps ==
  ASSUME IInv, NEW th \in Threads, class_index_from_symbol(th) \/ str_of(th)
  PROVE  IInv'
<1>1. /\ pc[th] \in {"class_index_from_symbol", "str_of"} /\ pc'[th] = "idle" /\ Moves(th)
      /\ UNCHANGED <<symbolTable, endVars>>
  BY DEF IInv, Calling, class_index_from_symbol, str_of, Return, Moves, Goto, tables
<1>2. ClassesApart' /\ Grows(classTable, classTable')
  <2>1. CASE class_index_from_symbol(th)
    BY <2>1, ClassFound
  <2>2. CASE str_of(th)
    BY <2>2, GrowsItself DEF IInv, ClassesApart, SymbolOfString, Named, str_of, tables
  <2> QED
    BY <2>1, <2>2
<1>3. SymbolsApart' /\ Grows(symbolTable, symbolTable')
  BY <1>1, GrowsItself DEF IInv, SymbolsApart
<1>4. answer'[th] # NoAnswer
  <2>1. CASE class_index_from_symbol(th)
    <3>1. Index(classTable', found[th]) \in Nat
      BY <1>2, <2>1, ClassFound DEF ClassesApart
    <3> QED
      BY <2>1, <3>1, NotNoAnswer DEF IInv, Calling, class_index_from_symbol, Return
  <2>2. CASE str_of(th)
    <3> DEFINE c == call[th].arg % METACLASS_OFFSET
    <3>1. c \in 0 .. Len(classTable) - 1 /\ found[th] = classTable[c + 1]
      BY <2>2 DEF IInv, Calling, InCall, str_of
    <3>2. SymbolOfString(found[th])
      BY <3>1 DEF IInv, ClassesApart
    <3>3. at(symbolTable, found[th].hash) \in Names
      BY <3>2 DEF IInv, SymbolsApart, SymbolOfString, at
    <3> QED
      BY <2>2, <3>3, NotNoAnswer DEF IInv, Calling, str_of, Return
  <2> QED
    BY <2>1, <2>2
<1>5. InCall(th)'
  BY <1>1, <1>4 DEF InCall
<1>6. pc[th] # "unique_symbol" /\ pc'[th] # "unique_symbol" /\ UNCHANGED endVars
  BY <1>1
<1> QED
  BY <1>1, <1>2, <1>3, <1>5, <1>6, CallingKept, CountedDownKept DEF IInv

LEMMA TablesStand ==
  ASSUME IInv, UNCHANGED tables
  PROVE  /\ SymbolsApart' /\ ClassesApart'
         /\ Grows(symbolTable, symbolTable') /\ Grows(classTable, classTable')
<1>1. SymbolsApart' /\ ClassesApart'
  BY DEF IInv, tables, SymbolsApart, ClassesApart, SymbolOfString, Named
<1>2. Grows(symbolTable, symbolTable') /\ Grows(classTable, classTable')
  BY GrowsItself DEF IInv, tables, SymbolsApart, ClassesApart
<1> QED
  BY <1>1, <1>2

LEMMA NameKeeps ==
  ASSUME IInv, NEW th \in Threads, name_str_symbol(th)
  PROVE  IInv'
<1>1. /\ pc[th] = "name_str" /\ pc'[th] = "str_of" /\ Moves(th)
      /\ UNCHANGED <<tables, endVars>> /\ call'[th] = call[th] /\ answer'[th] = answer[th]
      /\ found'[th] = classTable[(call[th].arg % METACLASS_OFFSET) + 1]
  BY DEF IInv, Calling, name_str_symbol, class_of_name, at, Moves, Goto
<1>2. InCall(th)'
  <2>1. InCall(th)
    BY DEF IInv, Calling
  <2> QED
    BY <1>1, <2>1 DEF InCall, tables
<1> QED
  BY <1>1, <1>2, TablesStand, CallingKept, CountedDownKept DEF IInv

LEMMA UniqueKeeps ==
  ASSUME IInv, NEW th \in Threads, unique_symbol(th) \/ unique_symbol_end(th)
  PROVE  IInv'
<1>1. Moves(th) /\ UNCHANGED tables /\ pc[th] \in {"idle", "unique_symbol"} /\ answer'[th] = answer[th]
      /\ pc'[th] \in {"idle", "unique_symbol"}
  BY DEF IInv, Calling, unique_symbol, unique_symbol_end, lock_end, Moves, Goto
<1>2. InCall(th)'
  BY <1>1 DEF IInv, Calling, InCall
<1>3. Calling'
  BY <1>1, <1>2, TablesStand, CallingKept DEF IInv
<1>4. CASE unique_symbol(th)
  <2>1. \A other \in Threads : pc[other] # "unique_symbol"
    BY <1>4, ClassesAssumption DEF IInv, CountedDown, unique_symbol, lock_end
  <2>2. endLock' = th /\ found'[th] = uncheckedSymbolOf(endSymbol) /\ Len(unique) < UniqueSymbols
    BY <1>4 DEF unique_symbol, lock_end, IInv, Calling
  <2>3. UNCHANGED <<endSymbol, unique>>
    BY <1>4 DEF unique_symbol
  <2> QED
    BY <1>1, <1>3, <2>1, <2>2, <2>3, TablesStand DEF IInv, CountedDown, Moves
<1>5. CASE unique_symbol_end(th)
  <2>1. /\ endLock = th /\ found[th] = uncheckedSymbolOf(endSymbol) /\ Len(unique) < UniqueSymbols
        /\ pc'[th] = "idle"
    BY <1>5 DEF unique_symbol_end, IInv, CountedDown, Calling, Goto
  <2>2. \A other \in Threads : pc'[other] # "unique_symbol"
    BY <1>1, <2>1 DEF IInv, CountedDown, Moves
  <2>3. /\ endSymbol \in Nat /\ endSymbol = EndSymbol - Len(unique) /\ Len(unique) \in Nat
    BY SymbolsFit, ClassesAssumption DEF IInv, CountedDown, SymbolsApart
  <2>4. /\ endSymbol' = endSymbol - 1 /\ endLock' = Free
        /\ unique' = Append(unique, found[th])
    BY <1>5, <2>1 DEF unique_symbol_end, uncheckedSymbolOf
  <2>5. found[th] \in [hash : Nat, arity : 0 .. 15] /\ found[th].hash = EndSymbol - Len(unique)
    BY <2>1, <2>3 DEF uncheckedSymbolOf
  <2> HIDE DEF IInv
  <2>6. unique \in Seq([hash : Nat, arity : 0 .. 15])
        /\ \A i \in DOMAIN unique : unique[i].hash = EndSymbol - (i - 1)
    BY DEF IInv, CountedDown
  <2>7. unique' \in Seq([hash : Nat, arity : 0 .. 15]) /\ Len(unique') = Len(unique) + 1
    BY <2>4, <2>5, <2>6
  <2>8. \A i \in DOMAIN unique' : unique'[i].hash = EndSymbol - (i - 1)
    <3> SUFFICES ASSUME NEW i \in DOMAIN unique' PROVE unique'[i].hash = EndSymbol - (i - 1)
      OBVIOUS
    <3>1. CASE i \in DOMAIN unique
      BY <2>4, <2>5, <2>6, <3>1
    <3>2. CASE i = Len(unique) + 1
      BY <2>3, <2>4, <2>5, <2>6, <3>2
    <3> QED
      BY <2>4, <2>5, <2>6, <3>1, <3>2
  <2>9. endSymbol' = EndSymbol - Len(unique') /\ Len(unique') <= UniqueSymbols
    <3>1. EndSymbol \in Nat /\ UniqueSymbols \in Nat
      BY ClassesAssumption
    <3> QED
      BY <2>1, <2>3, <2>4, <2>7, <3>1
  <2>10. CountedDown'
    BY <2>2, <2>4, <2>7, <2>8, <2>9 DEF CountedDown
  <2> QED
    BY <1>1, <1>3, <2>10, TablesStand DEF IInv
<1> QED
  BY <1>4, <1>5

LEMMA StepKeeps == IInv /\ [Next]_vars => IInv'
<1> SUFFICES ASSUME IInv, [Next]_vars PROVE IInv'
  OBVIOUS
<1>1. CASE Next
  BY <1>1, InternKeeps, BeginKeeps, SymbolKeeps, ReturnKeeps, NameKeeps, UniqueKeeps DEF Next
<1>2. CASE UNCHANGED vars
  BY <1>2 DEF vars, tables, endVars, calls, IInv, SymbolsApart, ClassesApart, SymbolOfString, Named,
              Calling, InCall, CountedDown
<1> QED
  BY <1>1, <1>2

THEOREM InvHolds == Spec => []IInv
  BY InitIInv, StepKeeps, PTL DEF Spec

-----------------------------------------------------------------------------
(* Every class is the symbol of a string, with its arity; types.             *)
LEMMA TypesFollow == IInv => TypeOK
<1> SUFFICES ASSUME IInv PROVE TypeOK
  OBVIOUS
<1>1. \A i \in DOMAIN symbolTable :
        symbolTable[i] \in Strings \/ (i <= Len(first_symbols) /\ symbolTable[i] = first_symbols[i])
  <2> SUFFICES ASSUME NEW i \in DOMAIN symbolTable, symbolTable[i] \notin Strings
               PROVE  i <= 41 /\ symbolTable[i] = first_symbols[i]
    BY FirstSymbolsApart
  <2>1. i \in FirstSymbols
    <3>1. symbolTable \in Seq(Names) /\ ~(i > 41)
      BY DEF IInv, SymbolsApart
    <3>2. i \in Int /\ 1 <= i /\ i <= 41
      BY <3>1
    <3> QED
      BY <3>2 DEF FirstSymbols
  <2>2. symbolTable[i] = first_symbols[i]
    BY <2>1 DEF IInv, SymbolsApart
  <2> QED
    BY <2>1, <2>2 DEF FirstSymbols
<1>2. \A i \in DOMAIN classTable :
        /\ classTable[i] \in Symbols /\ classTable[i].hash < Len(symbolTable)
        /\ at(symbolTable, classTable[i].hash) \in Strings =>
             classTable[i].arity = Arity[at(symbolTable, classTable[i].hash)]
  <2> SUFFICES ASSUME NEW i \in DOMAIN classTable
               PROVE  /\ classTable[i] \in Symbols /\ classTable[i].hash < Len(symbolTable)
                      /\ at(symbolTable, classTable[i].hash) \in Strings =>
                           classTable[i].arity = Arity[at(symbolTable, classTable[i].hash)]
    OBVIOUS
  <2>1. SymbolOfString(classTable[i])
    BY DEF IInv, ClassesApart
  <2>2. Len(symbolTable) \in Nat /\ Len(symbolTable) <= EndSymbol
    BY SymbolsFit, ClassesAssumption DEF IInv, SymbolsApart
  <2>3. classTable[i].hash \in 0 .. EndSymbol
    BY <2>1, <2>2, ClassesAssumption DEF SymbolOfString
  <2>4. classTable[i] \in Symbols
    BY <2>1, <2>3 DEF SymbolOfString, Symbols
  <2> QED
    BY <2>1, <2>4 DEF SymbolOfString, Named, NamedIn
<1>3. endLock \in Threads \cup {Free}
  BY DEF IInv, CountedDown
<1> QED
  BY <1>1, <1>2, <1>3 DEF TypeOK, IInv, Calling

(* Unique symbols, which unique_symbol counts down from u32::MAX, are never  *)
(* handed out twice and never those of strings (symbol.rs:32-41).            *)
THEOREM UniqueSymbolsApart == Spec => []UniqueApart
<1>1. IInv => UniqueApart
  <2> SUFFICES ASSUME IInv PROVE UniqueApart
    OBVIOUS
  <2>1. Len(symbolTable) \in Nat /\ Len(symbolTable) <= EndSymbol - UniqueSymbols
    BY SymbolsFit DEF IInv, SymbolsApart
  <2>2. /\ unique \in Seq([hash : Nat, arity : 0 .. 15]) /\ Len(unique) <= UniqueSymbols
        /\ \A i \in DOMAIN unique : unique[i].hash = EndSymbol - (i - 1)
    BY DEF IInv, CountedDown
  <2>3. \A i \in DOMAIN unique : i \in Nat /\ i <= UniqueSymbols
    BY <2>2, ClassesAssumption
  <2>4. EndSymbol \in Nat /\ UniqueSymbols \in Nat
    BY ClassesAssumption
  <2>5. \A i, j \in DOMAIN unique : i # j => unique[i].hash # unique[j].hash
    BY <2>2, <2>3, <2>4
  <2>6. \A i \in DOMAIN unique : unique[i].hash >= Len(symbolTable)
    BY <2>1, <2>2, <2>3, <2>4
  <2> QED
    BY <2>5, <2>6 DEF UniqueApart
<1> QED
  BY <1>1, InvHolds, PTL

(* Symbols of strings, classes and unique symbols, each kind sound.          *)
THEOREM SymbolsWellFormed == Spec => []WellFormed
<1>1. IInv => TypeOK
  BY TypesFollow
<1> QED
  BY <1>1, InvHolds, UniqueSymbolsApart, PTL DEF WellFormed

-----------------------------------------------------------------------------
(* The refinement: what the interner of classes by name looks like.          *)

ClassNames == [i \in DOMAIN classTable |-> Named(classTable[i])]
Requests == [th \in Threads |-> ClassRequest(th)]

LEMMA NamesAreNames ==
  ASSUME NEW symbols \in Seq(Names), NEW classes \in Seq([hash : Nat, arity : 0 .. 15]),
         \A i \in DOMAIN classes : classes[i].hash < Len(symbols)
  PROVE  LET names == [i \in DOMAIN classes |-> NamedIn(symbols, classes[i])]
         IN  names \in Seq(Names) /\ Len(names) = Len(classes)
<1>1. DOMAIN classes = 1 .. Len(classes) /\ Len(classes) \in Nat
  OBVIOUS
<1>2. \A i \in DOMAIN classes : NamedIn(symbols, classes[i]) \in Names
  <2> TAKE i \in DOMAIN classes
  <2>0. classes[i] \in [hash : Nat, arity : 0 .. 15]
    <3> DEFINE S == [hash : Nat, arity : 0 .. 15]
    <3>1. classes \in Seq(S)
      OBVIOUS
    <3> HIDE DEF S
    <3>2. classes[i] \in S
      BY <3>1
    <3> QED
      BY <3>2 DEF S
  <2>1. classes[i].hash \in Nat /\ classes[i].hash + 1 \in DOMAIN symbols
    BY <2>0
  <2> QED
    BY <2>1 DEF NamedIn, at
<1> QED
  BY <1>1, <1>2

LEMMA ClassesNamed ==
  ASSUME IInv, IInv'
  PROVE  /\ ClassNames \in Seq(Names) /\ Len(ClassNames) = Len(classTable)
         /\ ClassNames' \in Seq(Names) /\ Len(ClassNames') = Len(classTable')
<1>1. ClassNames \in Seq(Names) /\ Len(ClassNames) = Len(classTable)
  BY NamesAreNames DEF IInv, SymbolsApart, ClassesApart, SymbolOfString, ClassNames, Named
<1>2. ClassNames' \in Seq(Names) /\ Len(ClassNames') = Len(classTable')
  BY NamesAreNames DEF IInv, SymbolsApart, ClassesApart, SymbolOfString, ClassNames, Named
<1> QED
  BY <1>1, <1>2

LEMMA NamesStand ==
  ASSUME IInv, SymbolsApart', Grows(symbolTable, symbolTable'), UNCHANGED classTable
  PROVE  ClassNames' = ClassNames
<1>1. \A i \in DOMAIN classTable : NamedIn(symbolTable', classTable[i]) = Named(classTable[i])
  BY NamesKept DEF IInv, ClassesApart
<1> QED
  BY <1>1 DEF ClassNames, Named

LEMMA InitMaps == Init => Abstract!Init
<1> SUFFICES ASSUME Init PROVE Abstract!Init
  OBVIOUS
<1>1. METACLASS_OFFSET \in Nat /\ 0 < METACLASS_OFFSET
  <2>1. NewNames = {s \in Strings : \A i \in 12 .. 32 : first_symbols[i] # s}
    BY DEF NewNames
  <2>2. Cardinality(NewNames) \in Nat
    BY FS_Subset, FS_CardinalityType, ClassesAssumption DEF NewNames
  <2>3. METACLASS_OFFSET \in Nat /\ 21 + Cardinality(NewNames) <= METACLASS_OFFSET
    BY <2>1, ClassesAssumption, FirstClassesApart
  <2> QED
    BY <2>2, <2>3
<1>2. 0 % METACLASS_OFFSET = 0
  BY <1>1, Modulo
<1>3. \A th \in Threads : ClassRequest(th) = Abstract!Asks(0)
  BY <1>2 DEF Init, ClassRequest, Asks, Abstract!Asks
<1> QED
  BY <1>3 DEF Init, Abstract!Init

(* The step of a thread, if it is none of the interner.                      *)
Stutters == ClassNames' = ClassNames /\ Requests' = Requests /\ answer' = answer

LEMMA InternStutters ==
  ASSUME IInv, NEW th \in Threads, NEW s \in Strings, intern(th, s)
  PROVE  Stutters
<1>1. SymbolsApart' /\ Grows(symbolTable, symbolTable')
  BY SymbolAdded DEF IInv, intern
<1>2. ClassNames' = ClassNames
  BY <1>1, NamesStand DEF intern
<1> QED
  BY <1>2 DEF Stutters, Requests, ClassRequest, intern, calls

LEMMA SymbolStutters ==
  ASSUME IInv, NEW th \in Threads, class_index_symbol(th)
  PROVE  Stutters
<1>1. call[th].arg \in Strings
  BY DEF IInv, Calling, InCall, class_index_symbol, Interns
<1>2. SymbolsApart' /\ Grows(symbolTable, symbolTable')
  BY <1>1, SymbolAdded DEF IInv, class_index_symbol
<1>3. ClassNames' = ClassNames
  BY <1>2, NamesStand DEF class_index_symbol
<1> QED
  BY <1>3 DEF Stutters, Requests, ClassRequest, class_index_symbol

LEMMA OtherStutters ==
  ASSUME IInv, NEW th \in Threads,
         name_str_symbol(th) \/ unique_symbol(th) \/ unique_symbol_end(th)
  PROVE  Stutters
<1>1. UNCHANGED <<tables, call, answer>>
  BY DEF name_str_symbol, unique_symbol, unique_symbol_end
<1> QED
  BY <1>1 DEF Stutters, ClassNames, Named, NamedIn, Requests, ClassRequest, tables

LEMMA BeginAsks ==
  ASSUME IInv, IInv', NEW th \in Threads, class_index(th) \/ name_str(th)
  PROVE  Abstract!Request(th)
<1>1. /\ pc[th] = "idle" /\ UNCHANGED tables /\ pc'[th] \in {"class_index", "name_str"}
      /\ \A other \in Threads \ {th} : call'[other] = call[other]
      /\ answer' = [answer EXCEPT ![th] = NoAnswer]
  BY DEF IInv, Calling, class_index, name_str, Begin, Goto
<1>2. answer[th] # NoAnswer
  BY <1>1 DEF IInv, Calling, InCall
<1>3. ClassNames' = ClassNames
  BY <1>1 DEF ClassNames, Named, NamedIn, tables
<1>4. Requests' = [Requests EXCEPT ![th] = ClassRequest(th)']
  BY <1>1 DEF Requests, ClassRequest
<1>5. \/ \E k \in Strings : ClassRequest(th)' = Abstract!Interns(k)
      \/ \E i \in 0 .. Len(ClassNames) - 1 : ClassRequest(th)' = Abstract!Asks(i)
  <2>1. CASE pc'[th] = "class_index"
    <3>1. PICK k \in Strings : call'[th] = Interns(k)
      BY <2>1 DEF IInv, Calling, InCall
    <3>2. ClassRequest(th)' = Abstract!Interns(k)
      BY <3>1 DEF ClassRequest, Interns, Abstract!Interns
    <3> QED
      BY <3>2
  <2>2. CASE pc'[th] = "name_str"
    <3>1. PICK c \in Nat : call'[th] = Asks(c)
      BY <2>2 DEF IInv, Calling, InCall
    <3>2. call'[th].arg % METACLASS_OFFSET \in 0 .. Len(classTable') - 1
      BY <2>2 DEF IInv, Calling, InCall
    <3>3. Len(ClassNames) = Len(classTable')
      BY <1>1, ClassesNamed DEF tables
    <3>4. ClassRequest(th)' = Abstract!Asks(call'[th].arg % METACLASS_OFFSET)
      BY <3>1 DEF ClassRequest, Asks, Abstract!Asks
    <3> QED
      BY <3>2, <3>3, <3>4
  <2> QED
    BY <1>1, <2>1, <2>2
<1> QED
  BY <1>1, <1>2, <1>3, <1>4, <1>5
     DEF Abstract!Request, Requests, ClassNames, Named, NamedIn

(* Adding the symbol to the table of classes is what gives the class its     *)
(* name and the thread its answer.                                           *)
LEMMA ClassIndexed ==
  ASSUME IInv, IInv', NEW th \in Threads, class_index_from_symbol(th)
  PROVE  Abstract!OldIndex(th) \/ Abstract!NewIndex(th)
<1> DEFINE s == Named(found[th])
           index == Index(classTable', found[th])
<1>1. /\ call[th] = Interns(s) /\ answer[th] = NoAnswer
      /\ classTable' # classTable =>
           /\ classTable' = Append(classTable, found[th])
           /\ \A i \in DOMAIN classTable : Named(classTable[i]) # s
      /\ index \in 0 .. Len(classTable') - 1 /\ classTable'[index + 1] = found[th]
      /\ Grows(classTable, classTable')
  BY ClassFound DEF IInv, Calling, InCall, class_index_from_symbol, at
<1>2. /\ UNCHANGED <<symbolTable, call>> /\ answer' = [answer EXCEPT ![th] = index]
  BY DEF class_index_from_symbol, Return
<1>3. Requests' = Requests /\ Requests[th] = Interns(s)
  BY <1>1, <1>2 DEF Requests, ClassRequest, Interns
<1>4. /\ ClassNames \in Seq(Names) /\ Len(ClassNames) = Len(classTable)
      /\ ClassNames' \in Seq(Names) /\ Len(ClassNames') = Len(classTable')
      /\ DOMAIN ClassNames = DOMAIN classTable /\ DOMAIN ClassNames' = DOMAIN classTable'
  BY ClassesNamed DEF ClassNames
<1>5. /\ classTable \in Seq([hash : Nat, arity : 0 .. 15])
      /\ classTable' \in Seq([hash : Nat, arity : 0 .. 15])
  BY DEF IInv, ClassesApart
<1>6. index + 1 \in DOMAIN ClassNames' /\ ClassNames'[index + 1] = s
  <2>1. index + 1 \in DOMAIN classTable'
    BY <1>1, <1>5
  <2>2. NamedIn(symbolTable', classTable'[index + 1]) = s
    BY <1>1, <1>2 DEF Named
  <2>3. ClassNames' = [i \in DOMAIN classTable' |-> NamedIn(symbolTable', classTable'[i])]
    BY DEF ClassNames, Named
  <2> HIDE DEF index
  <2> QED
    BY <2>1, <2>2, <2>3
<1> HIDE DEF s, index
<1>7. CASE classTable' = classTable
  <2>1. ClassNames' = ClassNames
    BY <1>2, <1>7 DEF ClassNames, Named, NamedIn
  <2>2. index + 1 \in DOMAIN ClassNames /\ ClassNames[index + 1] = s /\ (index + 1) - 1 = index
    BY <1>1, <1>5, <1>6, <2>1
  <2>0. Requests[th].op = "intern" /\ Requests[th].arg = s
    BY <1>3 DEF Interns
  <2>4. \E i \in DOMAIN ClassNames :
          ClassNames[i] = Requests[th].arg /\ answer' = [answer EXCEPT ![th] = i - 1]
    BY <1>2, <2>0, <2>2
  <2>3. Abstract!OldIndex(th)
    BY <1>1, <1>3, <2>0, <2>1, <2>4
       DEF Abstract!OldIndex, Abstract!Waits, Abstract!Answer, Requests, ClassNames, Named, NamedIn
  <2> QED
    BY <2>3
<1>8. CASE classTable' # classTable
  <2>1. /\ Len(classTable') = Len(classTable) + 1 /\ classTable'[Len(classTable) + 1] = found[th]
        /\ \A i \in DOMAIN classTable : classTable'[i] = classTable[i]
    <3>1. found[th] \in [hash : Nat, arity : 0 .. 15] /\ classTable' = Append(classTable, found[th])
      BY <1>1, <1>8, ClassFound DEF SymbolOfString
    <3> QED
      BY <1>5, <3>1
  <2>2. \A i \in DOMAIN ClassNames : ClassNames[i] # s
    BY <1>1, <1>8 DEF ClassNames
  <2>3. \A i \in DOMAIN ClassNames : ClassNames'[i] = ClassNames[i]
    BY <1>2, <1>4, <1>5, <2>1 DEF ClassNames, Named, NamedIn
  <2>4. index = Len(ClassNames)
    <3>1. index \in Int /\ index >= 0 /\ index <= Len(classTable)
      BY <1>1, <1>5, <2>1
    <3>2. index + 1 \notin DOMAIN ClassNames
      BY <1>6, <2>2, <2>3
    <3>3. DOMAIN ClassNames = 1 .. Len(classTable) /\ Len(classTable) \in Nat
      BY <1>4, <1>5
    <3>4. index + 1 \notin 1 .. Len(classTable)
      BY <3>2, <3>3
    <3>5. index = Len(classTable)
      BY <3>1, <3>3, <3>4
    <3> QED
      BY <1>4, <3>5
  <2>5. ClassNames' = Append(ClassNames, s)
    BY <1>4, <1>5, <1>6, <2>1, <2>3, <2>4
  <2>6. Abstract!NewIndex(th)
    BY <1>1, <1>2, <1>3, <2>2, <2>4, <2>5
       DEF Abstract!NewIndex, Abstract!Waits, Abstract!Answer, Requests, ClassNames, Named, NamedIn, Interns
  <2> QED
    BY <2>6
<1> QED
  BY <1>7, <1>8

LEMMA NameTold ==
  ASSUME IInv, NEW th \in Threads, str_of(th)
  PROVE  Abstract!Name(th)
<1> DEFINE c == call[th].arg % METACLASS_OFFSET
<1>1. /\ \E class \in Nat : call[th] = Asks(class)
      /\ c \in 0 .. Len(classTable) - 1 /\ found[th] = classTable[c + 1]
      /\ answer[th] = NoAnswer
  BY DEF IInv, Calling, InCall, str_of
<1>2. Requests[th].op = "at" /\ Requests[th].arg = c
  BY <1>1 DEF Requests, ClassRequest, Asks
<1>3. c + 1 \in DOMAIN classTable
  BY <1>1 DEF IInv, ClassesApart
<1>4. answer' = [answer EXCEPT ![th] = ClassNames[c + 1]]
  BY <1>1, <1>3 DEF str_of, Return, ClassNames, Named, NamedIn
<1>5. ClassNames' = ClassNames /\ Requests' = Requests
  BY DEF str_of, Return, tables, ClassNames, Named, NamedIn, Requests, ClassRequest
<1> HIDE DEF c
<1> QED
  BY <1>1, <1>2, <1>4, <1>5
     DEF Abstract!Name, Abstract!Waits, Abstract!Answer, Requests, ClassNames, Named, NamedIn

LEMMA StepMaps == IInv /\ IInv' /\ [Next]_vars => [Abstract!Next]_Abstract!vars
<1> SUFFICES ASSUME IInv, IInv', [Next]_vars PROVE Stutters \/ Abstract!Next
  BY DEF Stutters, ClassNames, Named, NamedIn, Requests, Abstract!vars
<1>1. ASSUME NEW th \in Threads, NEW s \in Strings, intern(th, s) PROVE Stutters
  BY <1>1, InternStutters
<1>2. ASSUME NEW th \in Threads, class_index(th) \/ name_str(th) PROVE Abstract!Next
  BY <1>2, BeginAsks DEF Abstract!Next
<1>3. ASSUME NEW th \in Threads, class_index_symbol(th) PROVE Stutters
  BY <1>3, SymbolStutters
<1>4. ASSUME NEW th \in Threads, class_index_from_symbol(th) PROVE Abstract!Next
  BY <1>4, ClassIndexed DEF Abstract!Next
<1>5. ASSUME NEW th \in Threads, str_of(th) PROVE Abstract!Next
  BY <1>5, NameTold DEF Abstract!Next
<1>6. ASSUME NEW th \in Threads,
             name_str_symbol(th) \/ unique_symbol(th) \/ unique_symbol_end(th)
      PROVE  Stutters
  BY <1>6, OtherStutters
<1>7. CASE UNCHANGED vars
  BY <1>7 DEF vars, tables, calls, Stutters, ClassNames, Named, NamedIn, Requests, ClassRequest
<1> QED
  BY <1>1, <1>2, <1>3, <1>4, <1>5, <1>6, <1>7 DEF Next

(* The two tables of symbol.rs and class.rs are one interner of classes by   *)
(* name to whoever calls class_index and name_str, metaclasses included.     *)
THEOREM ImplementsAbstractInterner == Spec => ClassesInternNames
<1>1. Init => Abstract!Init
  BY InitMaps
<1>2. IInv /\ IInv' /\ [Next]_vars => [Abstract!Next]_Abstract!vars
  BY StepMaps
<1> QED
  BY <1>1, <1>2, InvHolds, PTL DEF Spec, ClassesInternNames, Abstract!Spec
=============================================================================

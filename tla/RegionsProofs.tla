---------------------------- MODULE RegionsProofs ----------------------------
(***************************************************************************)
(* Proofs about Regions, for any number of threads, sizes of the regions   *)
(* and objects asked for: the objects tile each region and are read back   *)
(* as they were asked for, none shows what was in its memory before, and   *)
(* a poisoned mutex ends the use of the primary region.                    *)
(*                                                                         *)
(* What is read of an object comes from its header and, in two formats,    *)
(* from the word after its fields; the invariant says of both that they    *)
(* hold what alloc wrote there (HeaderStands).  It lasts because every     *)
(* later write is at or behind current, and all of an object before it.    *)
(***************************************************************************)
EXTENDS Regions, TLAPS

(* The formats with a count behind the fields. *)
CountedFormat(f) == f \in {13, 16}

HeaderStands(m, at, s) ==
  /\ m[at] = Header(formatAndSize(s))
  /\ CountedFormat(formatAndSize(s).format) =>
       m[at + 1 + formatAndSize(s).size] = Count(s.n_indexed)

Stands ==
  \A g \in Regions : \A o \in objects[g] :
    /\ o.at \in Nat /\ Covered(o.shape)
    /\ After(o) <= current[g]
    /\ HeaderStands(memory[g], o.at, o.shape)

Apart ==
  \A g \in Regions : \A o, p \in objects[g] : o = p \/ After(o) <= p.at \/ After(p) <= o.at

(* Nobody is inside with a poisoned mutex. *)
Outside == \A th \in Threads : poisoned => pc[th] \notin Inside

-----------------------------------------------------------------------------
(* Objects. *)

(* What formatAndSize gives for every shape the program allocates            *)
(* (object.rs:499-523).                                                      *)
LEMMA Formats ==
  ASSUME NEW s, Covered(s)
  PROVE  LET f == formatAndSize(s)
         IN /\ f.format \in 13 .. 32 /\ f.size \in Nat /\ f.total_size \in Nat \ {0}
            /\ f.format \in {14, 15} => f.total_size = f.size + 1
            /\ CountedFormat(f.format) =>
                 /\ s.n_indexed \in Nat /\ f.total_size = f.size + 2 + s.n_indexed
                 /\ f.size = s.n_instVars
            /\ f.format > 16 => f.size < Large /\ f.total_size = f.size + 1
            /\ f.format > 16 <=> Bytes(s)
<1>0. /\ s.n_instVars \in Nat /\ s.n_indexed \in Nat \cup {-1} /\ s.n_instVars < Large
      /\ s.weak \in BOOLEAN /\ s.width \in {-1, 1, 2, 4, 8} /\ Large \in Nat
  BY LargeAssumption DEF Covered
<1>1. CASE s.weak
  BY <1>0, <1>1 DEF formatAndSize, Format, format_idx_inst_weak, counted_size, Max0, CountedFormat, Bytes, Covered
<1>2. CASE ~s.weak /\ s.n_indexed < 0
  BY <1>0, <1>2 DEF formatAndSize, Format, format_inst_np, CountedFormat, Bytes
<1>3. CASE ~s.weak /\ s.n_indexed >= 0 /\ s.n_instVars > 0
  BY <1>0, <1>3 DEF formatAndSize, Format, format_idx_inst_np, counted_size, Max0, CountedFormat, Bytes
<1>4. CASE ~s.weak /\ s.n_indexed >= 0 /\ s.n_instVars = 0 /\ s.width < 0
  BY <1>0, <1>4 DEF formatAndSize, Format, format_idx_np, format_idx_inst_np, CountedFormat, Bytes
<1>5. CASE ~s.weak /\ s.n_indexed >= 0 /\ s.n_instVars = 0 /\ s.width >= 0
  <2>1. Bytes(s) /\ words_needed(s) < Large
    BY <1>0, <1>5 DEF Bytes, Covered
  <2>2. /\ formatAndSize(s).format = 16 + items_per_word(s.width) * 2 - remainder(s)
        /\ formatAndSize(s).size = words_needed(s)
        /\ formatAndSize(s).total_size = words_needed(s) + 1
    BY <1>0, <1>5 DEF formatAndSize, Format, format_idx_other_base
  <2>3. items_per_word(s.width) \in {1, 2, 4, 8}
    BY <1>0, <1>5 DEF items_per_word
  <2>4. remainder(s) \in 1 .. items_per_word(s.width) /\ words_needed(s) \in Nat
    BY <1>0, <1>5, <2>3 DEF remainder, words_needed
  <2> QED
    BY <2>1, <2>2, <2>3, <2>4, <1>0 DEF CountedFormat
<1> QED
  BY <1>0, <1>1, <1>2, <1>3, <1>4, <1>5

(* words() and what is read of the header, from what alloc wrote             *)
(* (object.rs:575-659).                                                      *)
LEMMA ReadBack ==
  ASSUME NEW s, Covered(s), NEW m, NEW at \in Nat, HeaderStands(m, at, s)
  PROVE  /\ words(m, at) = formatAndSize(s).total_size
         /\ m[at].size = formatAndSize(s).size /\ m[at].format = formatAndSize(s).format
         /\ n_instVars(m[at]) = s.n_instVars
<1> DEFINE f == formatAndSize(s)
<1>1. /\ m[at].format = f.format /\ m[at].size = f.size
      /\ CountedFormat(f.format) => raw_at(m, at, f.size).size = s.n_indexed
  <2>1. m[at] = [holds |-> "header", format |-> f.format, size |-> f.size]
    BY DEF HeaderStands, Header, Word
  <2>2. ASSUME CountedFormat(f.format) PROVE m[at + 1 + f.size] = [holds |-> "count", format |-> 0, size |-> s.n_indexed]
    BY <2>2 DEF HeaderStands, Count, Word
  <2> QED BY <2>1, <2>2 DEF raw_at
<1>2. /\ f.format \in 13 .. 32 /\ f.size \in Nat
      /\ f.format \in {14, 15} => f.total_size = f.size + 1
      /\ CountedFormat(f.format) => s.n_indexed \in Nat /\ f.total_size = f.size + 2 + s.n_indexed
      /\ f.format > 16 => f.size < Large /\ f.total_size = f.size + 1
  BY Formats
<1>3. n_instVars(m[at]) = s.n_instVars
  <2>1. n_instVars(m[at]) = IF f.format = 15 \/ f.format > 16 THEN 0 ELSE f.size
    BY <1>1, <1>2 DEF n_instVars, IndexOnly
  <2>2. /\ s.n_instVars \in Nat /\ s.n_indexed \in Nat \cup {-1} /\ s.weak \in BOOLEAN
        /\ s.width \in {-1, 1, 2, 4, 8}
    BY DEF Covered
  <2>3. CASE s.weak
    BY <2>1, <2>2, <2>3 DEF formatAndSize, Format, format_idx_inst_weak
  <2>4. CASE ~s.weak /\ s.n_indexed < 0
    BY <2>1, <2>2, <2>4 DEF formatAndSize, Format, format_inst_np
  <2>5. CASE ~s.weak /\ s.n_indexed >= 0 /\ s.n_instVars > 0
    BY <2>1, <2>2, <2>5 DEF formatAndSize, Format, format_idx_inst_np
  <2>6. CASE ~s.weak /\ s.n_indexed >= 0 /\ s.n_instVars = 0
    <3>1. CASE s.width < 0
      BY <3>1, <2>1, <2>2, <2>6 DEF formatAndSize, Format, format_idx_np, format_idx_inst_np
    <3>2. CASE s.width >= 0
      <4>1. Bytes(s) BY <3>2, <2>2, <2>6 DEF Bytes
      <4> QED BY <4>1, <2>1, <2>6, Formats
    <3> QED BY <3>1, <3>2, <2>2
  <2> QED BY <2>2, <2>3, <2>4, <2>5, <2>6
<1>4. words(m, at) = f.total_size
  <2> HIDE DEF f
  <2> USE DEF words, InstOnly, IndexOnly, CountedFormat
  <2>1. CASE f.format \in {14, 15} BY <2>1, <1>1, <1>2
  <2>2. CASE f.format \in {13, 16} BY <2>2, <1>1, <1>2
  <2>3. CASE f.format > 16 BY <2>3, <1>1, <1>2
  <2> QED BY <2>1, <2>2, <2>3, <1>2
<1> QED BY <1>1, <1>3, <1>4

(* The number of words and the remainder in the format give back the number  *)
(* of bytes, halves or quarters (object.rs:515-518, 632-641).                *)
LEMMA Items ==
  ASSUME NEW n \in Nat, NEW i \in {1, 2, 4, 8}
  PROVE  LET rem == IF n % i = 0 THEN i ELSE n % i
         IN ((n + i - 1) \div i) * i - ((16 + i * 2 - rem) % i) = n
<1>1. CASE i = 1 BY <1>1, SMT
<1>2. CASE i = 2 BY <1>2, SMT
<1>3. CASE i = 4 BY <1>3, SMT
<1>4. CASE i = 8 BY <1>4, SMT
<1> QED BY <1>1, <1>2, <1>3, <1>4

(* size() and width() (object.rs:620-659).                                   *)
LEMMA SizeReadBack ==
  ASSUME NEW s, Covered(s), NEW m, NEW at \in Nat, HeaderStands(m, at, s)
  PROVE  /\ size(m, at) = Max0(s.n_indexed)
         /\ Bytes(s) => width(m[at]) = s.width
         /\ ~Bytes(s) => width(m[at]) = -1
<1> DEFINE f == formatAndSize(s)
<1>1. /\ m[at].format = f.format /\ m[at].size = f.size
  BY ReadBack
<1>2. ASSUME CountedFormat(f.format) PROVE raw_at(m, at, m[at].size).size = s.n_indexed
  BY <1>1, <1>2 DEF HeaderStands, Count, Word, raw_at
<1>3. /\ f.format \in 13 .. 32 /\ f.size \in Nat
      /\ CountedFormat(f.format) => s.n_indexed \in Nat
      /\ f.format > 16 => f.size < Large
      /\ f.format > 16 <=> Bytes(s)
  BY Formats
<1>4. /\ s.n_instVars \in Nat /\ s.n_indexed \in Nat \cup {-1} /\ s.weak \in BOOLEAN
      /\ s.width \in {-1, 1, 2, 4, 8} /\ Large \in Nat
  BY LargeAssumption DEF Covered
<1>5. CASE Bytes(s)
  <2> DEFINE i == items_per_word(s.width)
  <2>1. /\ f.format = 16 + i * 2 - remainder(s) /\ f.size = words_needed(s)
        /\ s.n_indexed \in Nat /\ s.width \in {1, 2, 4, 8}
    BY <1>4, <1>5 DEF Bytes, formatAndSize, Format, format_idx_other_base
  <2>2. i \in {1, 2, 4, 8} /\ (i = 8 <=> s.width = 1) /\ (i = 4 <=> s.width = 2)
        /\ (i = 2 <=> s.width = 4) /\ (i = 1 <=> s.width = 8)
    BY <2>1 DEF items_per_word
  <2>3. /\ f.size * i - (f.format % i) = s.n_indexed
    <3>1. /\ f.size = (s.n_indexed + i - 1) \div i
          /\ f.format = 16 + i * 2 - (IF s.n_indexed % i = 0 THEN i ELSE s.n_indexed % i)
      BY <2>1 DEF words_needed, remainder
    <3>2. s.n_indexed \in Nat /\ i \in {1, 2, 4, 8} BY <2>1, <2>2
    <3> HIDE DEF f, i
    <3>3. ((s.n_indexed + i - 1) \div i) * i
            - ((16 + i * 2 - (IF s.n_indexed % i = 0 THEN i ELSE s.n_indexed % i)) % i) = s.n_indexed
      BY <3>2, Items
    <3> QED BY <3>1, <3>3
  <2>4. remainder(s) \in 1 .. i
    BY <2>1, <2>2 DEF remainder
  <2>5. /\ i = 8 => f.format \in 24 .. 32
        /\ i = 4 => f.format \in 20 .. 23
        /\ i = 2 => f.format \in 18 .. 19
        /\ i = 1 => f.format = 17
    BY <2>1, <2>2, <2>4
  <2>6. width(m[at]) = s.width
    <3> HIDE DEF f, i
    <3> QED BY <1>1, <2>1, <2>2, <2>5 DEF width
  <2>7. size(m, at) = s.n_indexed
    <3>1. /\ ~InstOnly(f.format) /\ ~IndexOnly(f.format) /\ f.format > 16 /\ ~(f.size >= Large)
      BY <1>3, <1>4, <1>5 DEF InstOnly, IndexOnly
    <3> HIDE DEF f, i
    <3>2. CASE i = 8 BY <3>1, <3>2, <1>1, <2>3, <2>5 DEF size
    <3>3. CASE i = 4 BY <3>1, <3>3, <1>1, <2>3, <2>5 DEF size
    <3>4. CASE i = 2 BY <3>1, <3>4, <1>1, <2>3, <2>5 DEF size
    <3>5. CASE i = 1 
      <4>1. f.format % i = 0 BY <3>5, <2>5
      <4>2. f.size * i = f.size BY <3>5, <1>3
      <4> QED BY <4>1, <4>2, <3>1, <3>5, <1>1, <1>3, <2>3, <2>5 DEF size
    <3> QED BY <2>2, <3>2, <3>3, <3>4, <3>5
  <2> QED BY <2>1, <2>6, <2>7, <1>5 DEF Max0
<1>6. CASE ~Bytes(s)
  <2>1. f.format \in {13, 14, 15, 16} BY <1>3, <1>6
  <2>2. width(m[at]) = -1 BY <2>1, <1>1 DEF width
  <2>3. CASE f.format = 14
    <3>1. s.n_indexed < 0
      BY <2>3, <1>4, <1>6 DEF formatAndSize, Format, format_idx_inst_weak, format_idx_inst_np, format_idx_np, Bytes
    <3> QED BY <3>1, <2>3, <2>2, <1>1, <1>4, <1>6 DEF size, InstOnly, IndexOnly, Max0
  <2>4. CASE f.format = 15
    <3>1. s.n_indexed \in Nat /\ f.size = s.n_indexed /\ s.n_indexed < Large
      BY <2>4, <1>4, <1>6 DEF formatAndSize, Format, format_idx_inst_weak, format_idx_inst_np, format_idx_np, format_inst_np, Bytes
    <3> QED BY <3>1, <2>4, <2>2, <1>1, <1>4, <1>6 DEF size, InstOnly, IndexOnly, Max0
  <2>5. CASE f.format \in {13, 16}
    <3>1. /\ CountedFormat(f.format) /\ ~InstOnly(f.format) /\ ~IndexOnly(f.format) /\ f.format <= 16
      BY <2>5 DEF CountedFormat, InstOnly, IndexOnly
    <3>2. size(m, at) = raw_at(m, at, m[at].size).size
      <4> HIDE DEF f
      <4> QED BY <2>5, <3>1, <1>1 DEF size, InstOnly, IndexOnly
    <3> QED BY <3>1, <3>2, <2>2, <1>2, <1>3, <1>6 DEF Max0
  <2> QED BY <2>1, <2>3, <2>4, <2>5
<1> QED BY <1>5, <1>6

-----------------------------------------------------------------------------
(* Writing an object behind the others. *)

(* The addresses of an object lie in a region. *)
InRegion(m, at, s, n) ==
  /\ at \in Nat /\ n \in Nat /\ DOMAIN m = 0 .. n - 1
  /\ at + formatAndSize(s).total_size <= n

KeptBelow(m, M, at) == DOMAIN M = DOMAIN m /\ \A a \in DOMAIN m : a < at => M[a] = m[a]

(* alloc writes at the object's address or behind it (object.rs:761-769).    *)
LEMMA AllocKeeps ==
  ASSUME NEW s, Covered(s), NEW m, NEW at \in Nat, DOMAIN m \subseteq Nat
  PROVE  KeptBelow(m, alloc(m, at, s), at)
<1>1. /\ Header(formatAndSize(s)).format = formatAndSize(s).format
      /\ Header(formatAndSize(s)).size = formatAndSize(s).size
  BY DEF Header, Word
<1>2. firstIndex(Header(formatAndSize(s))) \in Nat
  <2>1. formatAndSize(s).format \in 13 .. 32 /\ formatAndSize(s).size \in Nat
    BY Formats
  <2> QED BY <1>1, <2>1 DEF firstIndex, InstOnly, IndexOnly
<1> QED BY <1>2 DEF alloc, KeptBelow

LEMMA AllocStands ==
  ASSUME NEW s, Covered(s), NEW m, NEW at, NEW n, InRegion(m, at, s, n)
  PROVE  HeaderStands(alloc(m, at, s), at, s)
<1> DEFINE f == formatAndSize(s)
           h == Header(f)
<1>1. h.format = f.format /\ h.size = f.size
  BY DEF Header, Word
<1>2. /\ f.format \in 13 .. 32 /\ f.size \in Nat /\ f.total_size \in Nat \ {0}
      /\ CountedFormat(f.format) => s.n_indexed \in Nat /\ f.total_size = f.size + 2 + s.n_indexed
  BY Formats
<1>3. alloc(m, at, s) =
        [a \in DOMAIN m |->
           IF a = at THEN h
           ELSE IF firstIndex(h) > n_instVars(h) /\ a = at + firstIndex(h) THEN Count(s.n_indexed)
           ELSE m[a]]
  BY DEF alloc
<1>4. alloc(m, at, s)[at] = h
  BY <1>2, <1>3 DEF InRegion
<1>5. ASSUME CountedFormat(f.format)
      PROVE  alloc(m, at, s)[at + 1 + f.size] = Count(s.n_indexed)
  <2>1. firstIndex(h) = f.size + 1 /\ n_instVars(h) = f.size
    BY <1>1, <1>2, <1>5 DEF CountedFormat, firstIndex, n_instVars, InstOnly, IndexOnly
  <2>2. at + 1 + f.size \in DOMAIN m /\ at + 1 + f.size # at /\ at + 1 + f.size = at + firstIndex(h)
    <3>1. at \in Nat /\ n \in Nat /\ DOMAIN m = 0 .. n - 1 /\ at + f.total_size <= n
      BY DEF InRegion
    <3> HIDE DEF f, h
    <3>2. f.size \in Nat /\ s.n_indexed \in Nat /\ f.total_size = f.size + 2 + s.n_indexed
      BY <1>2, <1>5
    <3>3. at + 1 + f.size \in 0 .. n - 1 BY <3>1, <3>2
    <3>4. at + 1 + f.size # at BY <3>1, <3>2
    <3>5. at + 1 + f.size = at + (f.size + 1) BY <3>1, <3>2
    <3> QED BY <3>1, <3>3, <3>4, <3>5, <2>1
  <2> QED BY <1>2, <1>3, <2>1, <2>2
<1> QED BY <1>4, <1>5 DEF HeaderStands

(* What an object's words hold once its caller has it. *)
Filled(m, at, op, s) ==
  \A a \in at + 1 .. at + formatAndSize(s).total_size - 1 :
    m[a].holds \in
      IF op # "alloc" THEN {"data"}
      ELSE IF Bytes(s) THEN {"zero"}
      ELSE IF a = at + firstIndex(m[at]) /\ a > at + s.n_instVars THEN {"count"} ELSE {"nil"}

(* initialize leaves header and count and writes all else (object.rs:751-760)*)
LEMMA Initializes ==
  ASSUME NEW s, Covered(s), NEW m, NEW at, NEW n, InRegion(m, at, s, n), HeaderStands(m, at, s)
  PROVE  /\ KeptBelow(m, initialize(m, at), at)
         /\ HeaderStands(initialize(m, at), at, s)
         /\ Filled(initialize(m, at), at, "alloc", s)
<1> DEFINE f == formatAndSize(s)
           h == m[at]
           M == initialize(m, at)
<1>1. /\ words(m, at) = f.total_size /\ h.size = f.size /\ h.format = f.format
      /\ n_instVars(h) = s.n_instVars
  BY ReadBack DEF InRegion
<1>2. /\ f.format \in 13 .. 32 /\ f.size \in Nat /\ f.total_size \in Nat \ {0}
      /\ f.format \in {14, 15} => f.total_size = f.size + 1
      /\ CountedFormat(f.format) =>
           s.n_indexed \in Nat /\ f.total_size = f.size + 2 + s.n_indexed /\ f.size = s.n_instVars
      /\ f.format > 16 => f.size < Large /\ f.total_size = f.size + 1
      /\ f.format > 16 <=> Bytes(s)
  BY Formats
<1>3. s.n_instVars \in Nat /\ Large \in Nat
  BY LargeAssumption DEF Covered
<1>4. firstIndex(h) = IF f.format = 14 THEN f.size ELSE IF CountedFormat(f.format) THEN f.size + 1 ELSE 0
  BY <1>1, <1>2, <1>3 DEF firstIndex, InstOnly, IndexOnly, CountedFormat
<1>5. n_instVars(h) = IF f.format \in {13, 14, 16} THEN f.size ELSE 0
  BY <1>1, <1>2 DEF n_instVars, IndexOnly
<1>6. DOMAIN M = 0 .. n - 1
  BY DEF initialize, InRegion
<1>7. \A a \in 0 .. n - 1 :
        M[a] = IF a - at - 1 \in 0 .. n_instVars(h) - 1 THEN Nil
               ELSE IF a - at - 1 \in firstIndex(h) .. f.total_size - 2
                    THEN IF f.format <= 16 THEN Nil ELSE Zero
               ELSE m[a]
  BY <1>1 DEF initialize, InRegion
<1>8. /\ at \in Nat /\ n \in Nat /\ DOMAIN m = 0 .. n - 1 /\ at + f.total_size <= n
  BY DEF InRegion
<1>9. Nil.holds = "nil" /\ Zero.holds = "zero"
  BY DEF Nil, Zero, Word
<1>10. CountedFormat(f.format) => m[at + 1 + f.size] = Count(s.n_indexed) /\ Count(s.n_indexed).holds = "count"
  BY DEF HeaderStands, Count, Word
<1>11. h = Header(f) BY DEF HeaderStands
<1> HIDE DEF f, h, M
<1>12. KeptBelow(m, M, at) /\ M[at] = h
  <2>1. ASSUME NEW a \in 0 .. n - 1, a <= at PROVE M[a] = m[a]
    <3>1. a - at - 1 \in Int /\ a - at - 1 < 0 BY <2>1, <1>8
    <3>2. firstIndex(h) \in Nat BY <1>2, <1>4
    <3>3. a - at - 1 \notin 0 .. n_instVars(h) - 1 BY <3>1
    <3>4. a - at - 1 \notin firstIndex(h) .. f.total_size - 2 BY <3>1, <3>2
    <3> QED BY <2>1, <3>3, <3>4, <1>7
  <2> QED BY <2>1, <1>2, <1>6, <1>8 DEF KeptBelow, h
<1>13. ASSUME CountedFormat(f.format) PROVE M[at + 1 + f.size] = m[at + 1 + f.size]
  <2>1. f.size \in Nat /\ s.n_indexed \in Nat /\ f.total_size = f.size + 2 + s.n_indexed
    BY <1>2, <1>13
  <2>2. at + 1 + f.size \in 0 .. n - 1
    BY <2>1, <1>8
  <2>3. n_instVars(h) = f.size /\ firstIndex(h) = f.size + 1
    BY <1>2, <1>4, <1>5, <1>13 DEF CountedFormat
  <2>4. (at + 1 + f.size) - at - 1 = f.size
    BY <2>1, <1>8
  <2> QED BY <2>1, <2>2, <2>3, <2>4, <1>7
<1>14. HeaderStands(M, at, s)
  BY <1>10, <1>11, <1>12, <1>13 DEF HeaderStands, f
<1>15. ASSUME NEW a \in at + 1 .. at + f.total_size - 1
       PROVE  M[a].holds \in IF Bytes(s) THEN {"zero"}
                             ELSE IF a = at + firstIndex(M[at]) /\ a > at + s.n_instVars
                                  THEN {"count"} ELSE {"nil"}
  <2>1. a \in 0 .. n - 1 /\ a - at - 1 \in 0 .. f.total_size - 2
    BY <1>2, <1>8
  <2> DEFINE i == a - at - 1
  <2>5. /\ i \in 0 .. f.total_size - 2
        /\ M[a] = IF i \in 0 .. n_instVars(h) - 1 THEN Nil
                  ELSE IF i \in firstIndex(h) .. f.total_size - 2
                       THEN IF f.format <= 16 THEN Nil ELSE Zero
                  ELSE m[a]
    BY <2>1, <1>7
  <2>6. a = at + 1 + i BY <1>8
  <2> HIDE DEF i
  <2>2. CASE f.format \in {14, 15}
    <3>1. M[a] = Nil BY <2>5, <2>2, <1>2, <1>4, <1>5 DEF CountedFormat
    <3>2. ~(a = at + firstIndex(M[at]) /\ a > at + s.n_instVars)
      <4>1. firstIndex(M[at]) = IF f.format = 14 THEN f.size ELSE 0
        BY <2>2, <1>4, <1>12 DEF CountedFormat
      <4>2. f.format = 14 => f.size = s.n_instVars BY <1>1, <1>5
      <4> QED BY <4>1, <4>2, <2>1, <1>3, <1>8
    <3> QED BY <3>1, <3>2, <2>2, <1>2, <1>9
  <2>3. CASE CountedFormat(f.format)
    <3>1. firstIndex(M[at]) = s.n_instVars + 1 /\ ~Bytes(s)
      BY <2>3, <1>2, <1>4, <1>12 DEF CountedFormat
    <3>4. f.size \in Nat /\ f.size = s.n_instVars /\ f.total_size - 2 \in Int BY <2>3, <1>2
    <3>5. at + firstIndex(M[at]) = at + (f.size + 1) BY <3>1, <3>4
    <3>6. at + (f.size + 1) = at + 1 + f.size BY <3>4, <1>8
    <3>2. CASE a = at + 1 + f.size
      <4>1. M[a].holds = "count" BY <3>2, <2>3, <1>10, <1>13
      <4>2. a > at + f.size BY <3>2, <3>4, <1>8
      <4> QED BY <4>1, <4>2, <3>1, <3>2, <3>4, <3>5, <3>6
    <3>3. CASE a # at + 1 + f.size
      <4>3. i # f.size BY <3>3, <3>4, <2>6, <1>8
      <4>4. n_instVars(h) = f.size /\ firstIndex(h) = f.size + 1 /\ f.format <= 16
        BY <2>3, <1>4, <1>5 DEF CountedFormat
      <4>5. i \in 0 .. f.size - 1 \/ i \in f.size + 1 .. f.total_size - 2
        BY <4>3, <3>4, <2>5
      <4>1. M[a] = Nil BY <4>4, <4>5, <2>5
      <4>2. ~(a = at + firstIndex(M[at])) BY <3>3, <3>5, <3>6
      <4> QED BY <4>1, <4>2, <3>1, <1>9
    <3> QED BY <3>2, <3>3
  <2>4. CASE f.format > 16
    <3>1. M[a] = Zero BY <2>5, <2>4, <1>2, <1>4, <1>5 DEF CountedFormat
    <3> QED BY <3>1, <2>4, <1>2, <1>9
  <2> QED BY <2>2, <2>3, <2>4, <1>2 DEF CountedFormat
<1> QED BY <1>12, <1>14, <1>15 DEF Filled, M, f

(* The characters of a string fill all words of the object (memory.rs:234).  *)
LEMMA LastWord ==
  ASSUME NEW k \in Nat \ {0}, NEW w \in {1, 2, 4, 8}
  PROVE  (k * w - 1) \div 8 = ((k + (8 \div w) - 1) \div (8 \div w)) - 1
<1>1. CASE w = 1 BY <1>1, SMT
<1>2. CASE w = 2 BY <1>2, SMT
<1>3. CASE w = 4 BY <1>3, SMT
<1>4. CASE w = 8 BY <1>4, SMT
<1> QED BY <1>1, <1>2, <1>3, <1>4

LEMMA Spells ==
  ASSUME NEW s, Covered(s), Bytes(s), s.n_indexed > 0,
         NEW m, NEW at, NEW n, InRegion(m, at, s, n), HeaderStands(m, at, s)
  PROVE  LET M == at_put_all(m, at, s.n_indexed, s.width)
         IN KeptBelow(m, M, at) /\ HeaderStands(M, at, s) /\ Filled(M, at, "string", s)
<1> DEFINE f == formatAndSize(s)
           last == (s.n_indexed * s.width - 1) \div 8
           M == at_put_all(m, at, s.n_indexed, s.width)
<1>1. words(m, at) = f.total_size
  BY ReadBack DEF InRegion
<1>2. /\ s.n_indexed \in Nat \ {0} /\ s.width \in {1, 2, 4, 8} /\ s.n_instVars = 0 /\ ~s.weak
  BY DEF Covered, Bytes
<1>3. f.total_size = words_needed(s) + 1
  BY <1>2 DEF formatAndSize, Format
<1>4. last = words_needed(s) - 1
  BY <1>2, LastWord DEF words_needed, items_per_word
<1>5. f.format > 16 /\ f.size \in Nat /\ f.total_size = f.size + 1
  BY Formats
<1>6. /\ at \in Nat /\ n \in Nat /\ DOMAIN m = 0 .. n - 1 /\ at + f.total_size <= n
  BY DEF InRegion
<1>7. M = [a \in 0 .. n - 1 |->
             IF a - at - 1 \in 0 .. last THEN Data
             ELSE IF a - at - 1 = f.total_size - 2 THEN Zero ELSE m[a]]
  BY <1>1, <1>6 DEF at_put_all
<1>8. m[at] = Header(f) /\ ~CountedFormat(f.format)
  BY <1>5 DEF HeaderStands, CountedFormat
<1>9. Data.holds = "data" BY DEF Data, Word
<1>10. last = f.size - 1 /\ f.size >= 1
  <2>1. words_needed(s) = f.size
    BY <1>2 DEF formatAndSize, Format
  <2>2. last >= 0
    <3>1. s.n_indexed * s.width - 1 \in Nat BY <1>2
    <3> QED BY <3>1
  <2> QED BY <1>4, <1>5, <2>1, <2>2
<1> HIDE DEF f, last, M
<1>11. \A a \in 0 .. n - 1 : a <= at => M[a] = m[a]
  BY <1>5, <1>6, <1>7, <1>10
<1>12. KeptBelow(m, M, at)
  BY <1>6, <1>7, <1>11 DEF KeptBelow
<1>13. HeaderStands(M, at, s)
  <2>1. at \in 0 .. n - 1 BY <1>5, <1>6
  <2> QED BY <2>1, <1>6, <1>8, <1>11 DEF HeaderStands, f
<1>14. ASSUME NEW a \in at + 1 .. at + f.total_size - 1
       PROVE  M[a].holds = "data"
  <2>1. a \in 0 .. n - 1 /\ a - at - 1 \in 0 .. last
    BY <1>5, <1>6, <1>10
  <2> QED BY <2>1, <1>7, <1>9
<1> QED BY <1>12, <1>13, <1>14 DEF Filled, M, f

(* init and array store every field (object.rs:771-786). *)
LEMMA Stores ==
  ASSUME NEW s, Covered(s), ~s.weak, s.width = -1,
         s.n_indexed = -1 \/ (s.n_instVars = 0 /\ s.n_indexed < Large),
         NEW m, NEW at, NEW n, InRegion(m, at, s, n), HeaderStands(m, at, s)
  PROVE  LET M == store(m, at, formatAndSize(s).total_size - 1)
         IN KeptBelow(m, M, at) /\ HeaderStands(M, at, s) /\ Filled(M, at, "init", s)
<1> DEFINE f == formatAndSize(s)
           M == store(m, at, f.total_size - 1)
<1>1. s.n_instVars \in Nat /\ s.n_indexed \in Nat \cup {-1} /\ Large \in Nat
  BY LargeAssumption DEF Covered
<1>2. f.format \in {14, 15}
  BY <1>1 DEF formatAndSize, Format, format_inst_np, format_idx_np
<1>3. f.size \in Nat /\ f.total_size = f.size + 1
  BY <1>2, Formats
<1>4. /\ at \in Nat /\ n \in Nat /\ DOMAIN m = 0 .. n - 1 /\ at + f.total_size <= n
  BY DEF InRegion
<1>5. M = [a \in 0 .. n - 1 |-> IF a - at - 1 \in 0 .. f.total_size - 1 - 1 THEN Data ELSE m[a]]
  BY <1>4 DEF store
<1>6. m[at] = Header(f) /\ ~CountedFormat(f.format)
  BY <1>2 DEF HeaderStands, CountedFormat
<1>7. Data.holds = "data" BY DEF Data, Word
<1> HIDE DEF f, M
<1>8. \A a \in 0 .. n - 1 : a <= at => M[a] = m[a]
  BY <1>3, <1>4, <1>5
<1>9. KeptBelow(m, M, at)
  BY <1>4, <1>5, <1>8 DEF KeptBelow
<1>10. HeaderStands(M, at, s)
  <2>1. at \in 0 .. n - 1 BY <1>3, <1>4
  <2> QED BY <2>1, <1>4, <1>6, <1>8 DEF HeaderStands, f
<1>11. ASSUME NEW a \in at + 1 .. at + f.total_size - 1
       PROVE  M[a].holds = "data"
  <2>1. a \in 0 .. n - 1 /\ a - at - 1 \in 0 .. f.total_size - 1 - 1
    BY <1>3, <1>4
  <2> QED BY <2>1, <1>5, <1>7
<1> QED BY <1>9, <1>10, <1>11 DEF Filled, M, f

-----------------------------------------------------------------------------
(* What is asked for. *)

Asked(r) == \E th \in Threads : r \in Requests[th]

LEMMA AskedShape ==
  ASSUME NEW r, Asked(r)
  PROVE  /\ r.op \in {"alloc", "string", "init"}
         /\ ~Empty(r) => Covered(Shape(r))
         /\ r.op = "string" /\ ~Empty(r) =>
              /\ Bytes(Shape(r)) /\ Shape(r).n_indexed > 0
              /\ Shape(r).n_indexed = r.shape.n_indexed
         /\ r.op = "init" =>
              /\ ~Empty(r) /\ ~Shape(r).weak /\ Shape(r).width = -1
              /\ Shape(r).n_indexed = -1 \/ (Shape(r).n_instVars = 0 /\ Shape(r).n_indexed < Large)
<1>1. PICK th \in Threads : r \in Requests[th]
  BY DEF Asked
<1>2. /\ r.op \in {"alloc", "string", "init"}
      /\ r.shape \in [n_instVars : Nat, n_indexed : Nat \cup {-1}, width : -1 .. 8, weak : BOOLEAN]
      /\ r.op = "string" => (Bytes(r.shape) /\ r.shape.n_indexed > 0) \/ r.shape.width = 0
      /\ r.op = "init" =>
           /\ ~r.shape.weak /\ r.shape.width = -1
           /\ r.shape.n_indexed = -1 \/ (r.shape.n_instVars = 0 /\ r.shape.n_indexed < Large)
      /\ (r.op = "string" /\ r.shape.width = 0) \/ Covered(Shape(r))
  BY <1>1, RegionsAssumption
<1>3. ~Empty(r) => Covered(Shape(r))
  BY <1>2 DEF Empty
<1>4. ASSUME r.op = "string", ~Empty(r)
      PROVE  Bytes(Shape(r)) /\ Shape(r).n_indexed > 0 /\ Shape(r).n_indexed = r.shape.n_indexed
  <2>1. /\ Shape(r).n_indexed = r.shape.n_indexed /\ Shape(r).weak = r.shape.weak
        /\ Shape(r).n_instVars = r.shape.n_instVars
        /\ Shape(r).width = IF r.shape.width = 3 THEN 4 ELSE r.shape.width
    BY <1>2, <1>4 DEF Shape, str_shape
  <2>2. Bytes(r.shape) /\ r.shape.n_indexed > 0
    BY <1>2, <1>4 DEF Empty
  <2> QED BY <2>1, <2>2, <1>2 DEF Bytes
<1>5. r.op = "init" => Shape(r) = r.shape /\ ~Empty(r)
  BY DEF Shape, Empty
<1> QED BY <1>2, <1>3, <1>4, <1>5

LEMMA KeptTwice ==
  ASSUME NEW m, NEW m1, NEW m2, NEW at, KeptBelow(m, m1, at), KeptBelow(m1, m2, at)
  PROVE  KeptBelow(m, m2, at)
  BY DEF KeptBelow

(* A call that finds room writes a whole object and nothing before it. *)
LEMMA Writes ==
  ASSUME NEW r, Asked(r), ~Empty(r), NEW m, NEW at, NEW n, InRegion(m, at, Shape(r), n)
  PROVE  LET M == Contents(alloc(m, at, Shape(r)), at, r)
         IN KeptBelow(m, M, at) /\ HeaderStands(M, at, Shape(r)) /\ Filled(M, at, r.op, Shape(r))
<1> DEFINE s == Shape(r)
           m1 == alloc(m, at, s)
           M == Contents(m1, at, r)
<1>1. Covered(s) /\ r.op \in {"alloc", "string", "init"}
  BY AskedShape
<1>2. at \in Nat /\ DOMAIN m \subseteq Nat
  BY DEF InRegion
<1>3. KeptBelow(m, m1, at) /\ HeaderStands(m1, at, s)
  BY <1>1, <1>2, AllocKeeps, AllocStands
<1>4. InRegion(m1, at, s, n)
  BY <1>3 DEF InRegion, KeptBelow
<1> HIDE DEF s, m1
<1>5. CASE r.op = "alloc"
  <2>1. M = initialize(m1, at) BY <1>5 DEF Contents
  <2> HIDE DEF M
  <2>2. KeptBelow(m1, M, at) /\ HeaderStands(M, at, s) /\ Filled(M, at, r.op, s)
    BY <2>1, <1>1, <1>3, <1>4, <1>5, Initializes
  <2> QED BY <2>2, <1>3, KeptTwice DEF M, m1, s
<1>6. CASE r.op = "string"
  <2>1. M = at_put_all(m1, at, s.n_indexed, s.width)
    BY <1>6, AskedShape DEF Contents, s
  <2>2. Bytes(s) /\ s.n_indexed > 0 BY <1>6, AskedShape DEF s
  <2> HIDE DEF M
  <2>3. KeptBelow(m1, M, at) /\ HeaderStands(M, at, s) /\ Filled(M, at, r.op, s)
    BY <2>1, <2>2, <1>1, <1>3, <1>4, <1>6, Spells
  <2> QED BY <2>3, <1>3, KeptTwice DEF M, m1, s
<1>7. CASE r.op = "init"
  <2>1. M = store(m1, at, formatAndSize(s).total_size - 1)
    BY <1>7 DEF Contents, total_size, s
  <2>2. ~s.weak /\ s.width = -1 /\ (s.n_indexed = -1 \/ (s.n_instVars = 0 /\ s.n_indexed < Large))
    BY <1>7, AskedShape DEF s
  <2> HIDE DEF M
  <2>3. KeptBelow(m1, M, at) /\ HeaderStands(M, at, s) /\ Filled(M, at, r.op, s)
    BY <2>1, <2>2, <1>1, <1>3, <1>4, <1>7, Stores
  <2> QED BY <2>3, <1>3, KeptTwice DEF M, m1, s
<1> QED BY <1>1, <1>5, <1>6, <1>7

(* What no later call writes to, stays. *)
LEMMA Lasts ==
  ASSUME NEW s, Covered(s), NEW m, NEW M, NEW c, NEW n \in Nat, NEW at \in Nat, NEW op,
         DOMAIN m = 0 .. n - 1, c \in 0 .. n, KeptBelow(m, M, c),
         at + formatAndSize(s).total_size <= c, HeaderStands(m, at, s), Filled(m, at, op, s)
  PROVE  HeaderStands(M, at, s) /\ Filled(M, at, op, s)
<1> DEFINE f == formatAndSize(s)
<1>1. /\ f.size \in Nat /\ f.total_size \in Nat \ {0}
      /\ CountedFormat(f.format) => s.n_indexed \in Nat /\ f.total_size = f.size + 2 + s.n_indexed
  BY Formats
<1> HIDE DEF f
<1>2. at + f.total_size <= c BY DEF f
<1>3. \A a \in 0 .. n - 1 : a < c => M[a] = m[a]
  BY DEF KeptBelow
<1>4. M[at] = m[at] BY <1>1, <1>2, <1>3
<1>5. ASSUME CountedFormat(f.format) PROVE M[at + 1 + f.size] = m[at + 1 + f.size]
  <2>1. s.n_indexed \in Nat /\ f.total_size = f.size + 2 + s.n_indexed BY <1>1, <1>5
  <2>2. at + 1 + f.size \in Nat BY <1>1
  <2>3. at + 1 + f.size < at + f.total_size BY <2>1, <1>1
  <2>4. at + 1 + f.size < c BY <2>2, <2>3, <1>1, <1>2
  <2>5. at + 1 + f.size < n BY <2>2, <2>4
  <2>6. at + 1 + f.size \in 0 .. n - 1 BY <2>2, <2>5
  <2> QED BY <2>4, <2>6, <1>3
<1>6. HeaderStands(M, at, s)
  BY <1>4, <1>5 DEF HeaderStands, f
<1>7. \A a \in at + 1 .. at + f.total_size - 1 : M[a] = m[a]
  <2> TAKE a \in at + 1 .. at + f.total_size - 1
  <2>1. a \in 0 .. n - 1 /\ a < c BY <1>1, <1>2
  <2> QED BY <2>1, <1>3
<1>8. Filled(M, at, op, s)
  BY <1>4, <1>7 DEF Filled, f
<1> QED BY <1>6, <1>8

-----------------------------------------------------------------------------
(* The invariant. *)

(* The part of TypeOK that is about the regions. *)
Shaped ==
  /\ DOMAIN memory = Regions /\ DOMAIN objects = Regions
  /\ \A g \in Regions : DOMAIN memory[g] = 0 .. Capacity(g) - 1
  /\ end \in [Regions -> Nat] /\ \A g \in Regions : end[g] < Capacity(g)
  /\ current \in [Regions -> Nat] /\ \A g \in Regions : current[g] <= end[g]

Written ==
  \A g \in Regions : \A o \in objects[g] : Filled(memory[g], o.at, o.op, o.shape)

RegionsInv == Shaped /\ Stands /\ Apart /\ Written

Threading ==
  /\ poisoned \in BOOLEAN
  /\ pc \in [Threads -> {"idle", "primary", "collect", "panicked"} \cup Inside]
  /\ DOMAIN request = Threads /\ \A th \in Threads : request[th] \in Requests[th]
  /\ \A th \in Threads : pc[th] \in Inside => lock = th

Inv == RegionsInv /\ Threading /\ Outside

LEMMA Capacities == \A g \in Regions : Capacity(g) \in Nat \ {0}
  BY RegionsAssumption DEF Capacity

LEMMA InitInv ==
  ASSUME Init
  PROVE  Inv
<1> USE DEF Init
<1>1. Shaped
  <2>1. NurserySize \in Nat \ {0} /\ gc_size \in Nat \ {0} BY RegionsAssumption
  <2> QED BY <2>1 DEF Shaped, Capacity
<1>2. Stands /\ Apart /\ Written BY DEF Stands, Apart, Written
<1>3. Threading
  <2>1. ASSUME NEW th \in Threads PROVE request[th] \in Requests[th]
    <3>1. \E r \in Requests[th] : TRUE BY RegionsAssumption
    <3> QED BY <3>1
  <2> QED BY <2>1 DEF Threading, Inside
<1> QED BY <1>1, <1>2, <1>3 DEF Inv, RegionsInv, Outside

(* The objects of region g after a call that wrote at current or behind it.  *)
LEMMA OldObjects ==
  ASSUME RegionsInv, NEW g \in Regions, NEW M, KeptBelow(memory[g], M, current[g]),
         NEW o \in objects[g]
  PROVE  /\ o.at \in Nat /\ Covered(o.shape) /\ After(o) <= current[g]
         /\ HeaderStands(M, o.at, o.shape) /\ Filled(M, o.at, o.op, o.shape)
<1>1. /\ o.at \in Nat /\ Covered(o.shape) /\ After(o) <= current[g]
      /\ HeaderStands(memory[g], o.at, o.shape) /\ Filled(memory[g], o.at, o.op, o.shape)
  BY DEF RegionsInv, Stands, Written
<1>2. o.at + formatAndSize(o.shape).total_size <= current[g]
  BY <1>1 DEF After, Length
<1>3. Capacity(g) \in Nat /\ DOMAIN memory[g] = 0 .. Capacity(g) - 1 /\ current[g] \in 0 .. Capacity(g)
  <2>1. Capacity(g) \in Nat /\ end[g] \in Nat /\ end[g] < Capacity(g)
        /\ current[g] \in Nat /\ current[g] <= end[g]
    BY Capacities DEF RegionsInv, Shaped
  <2> QED BY <2>1 DEF RegionsInv, Shaped
<1> QED BY <1>1, <1>2, <1>3, Lasts

(* A step that changes the memory of g behind its objects and adds none.     *)
LEMMA NoObject ==
  ASSUME RegionsInv, NEW g \in Regions, NEW M, KeptBelow(memory[g], M, current[g]),
         NEW c \in Nat, current[g] <= c, c <= end[g],
         DOMAIN memory' = Regions, memory'[g] = M,
         \A x \in Regions : x # g => memory'[x] = memory[x],
         current' = [current EXCEPT ![g] = c], UNCHANGED <<end, objects>>
  PROVE  RegionsInv'
<1>1. Shaped'
  <2>1. DOMAIN M = DOMAIN memory[g] BY DEF KeptBelow
  <2> QED BY <2>1 DEF RegionsInv, Shaped, Capacity
<1>2. ASSUME NEW x \in Regions, NEW o \in objects[x]
      PROVE  /\ o.at \in Nat /\ Covered(o.shape) /\ After(o) <= current'[x]
             /\ HeaderStands(memory'[x], o.at, o.shape) /\ Filled(memory'[x], o.at, o.op, o.shape)
  <2>1. CASE x = g
    <3>1. /\ o.at \in Nat /\ Covered(o.shape) /\ After(o) <= current[g]
          /\ HeaderStands(M, o.at, o.shape) /\ Filled(M, o.at, o.op, o.shape)
      BY <2>1, OldObjects
    <3>2. After(o) \in Nat
      BY <3>1, Formats DEF After, Length
    <3>3. memory'[x] = M /\ current'[x] = c /\ current[g] \in Nat
      BY <2>1 DEF RegionsInv, Shaped
    <3> QED BY <3>1, <3>2, <3>3
  <2>2. CASE x # g
    BY <2>2, <1>2 DEF RegionsInv, Stands, Written, Shaped
  <2> QED BY <2>1, <2>2
<1>3. Stands' /\ Written'
  BY <1>2 DEF Stands, Written, After, Length
<1>4. Apart'
  BY DEF RegionsInv, Apart, After, Length
<1> QED BY <1>1, <1>3, <1>4 DEF RegionsInv

LEMMA RegionsUnchanged ==
  ASSUME RegionsInv, UNCHANGED regions
  PROVE  RegionsInv'
  BY DEF RegionsInv, regions, Shaped, Stands, Apart, Written, After, Length, Capacity

LEMMA AllocatedKeeps ==
  ASSUME RegionsInv, NEW g \in Regions, NEW r, Asked(r), Allocated(g, r)
  PROVE  RegionsInv'
<1> DEFINE s == Shape(r)
           at == current[g]
           M == Contents(alloc(memory[g], at, s), at, r)
           new == [at |-> at, op |-> r.op, shape |-> s]
<1>1. /\ ~Empty(r) /\ at + total_size(r) <= end[g]
      /\ memory' = [memory EXCEPT ![g] = M]
      /\ current' = [current EXCEPT ![g] = at + total_size(r)]
      /\ objects' = [objects EXCEPT ![g] = @ \cup {new}]
      /\ end' = end
  BY DEF Allocated, Fits
<1>2. Covered(s) BY <1>1, AskedShape
<1>3. total_size(r) = formatAndSize(s).total_size /\ formatAndSize(s).total_size \in Nat \ {0}
  BY <1>2, Formats DEF total_size
<1>4. /\ at \in Nat /\ end[g] \in Nat /\ end[g] < Capacity(g) /\ Capacity(g) \in Nat
      /\ DOMAIN memory[g] = 0 .. Capacity(g) - 1
  BY Capacities DEF RegionsInv, Shaped
<1>5. InRegion(memory[g], at, s, Capacity(g))
  <2> HIDE DEF s, at
  <2> QED BY <1>1, <1>3, <1>4 DEF InRegion
<1>6. KeptBelow(memory[g], M, at) /\ HeaderStands(M, at, s) /\ Filled(M, at, r.op, s)
  BY <1>1, <1>5, Writes
<1>7. new.at = at /\ new.shape = s /\ new.op = r.op
  OBVIOUS
<1> HIDE DEF s, M, new
<1>8. DOMAIN memory = Regions /\ DOMAIN objects = Regions
  BY DEF RegionsInv, Shaped
<1>9. /\ memory'[g] = M /\ current'[g] = at + total_size(r) /\ objects'[g] = objects[g] \cup {new}
      /\ \A x \in Regions : x # g =>
           memory'[x] = memory[x] /\ current'[x] = current[x] /\ objects'[x] = objects[x]
  <2> HIDE DEF at
  <2> QED BY <1>1, <1>8 DEF RegionsInv, Shaped
<1>10. After(new) = at + total_size(r)
  BY <1>3, <1>7 DEF After, Length
<1>11. Shaped'
  <2>1. DOMAIN M = DOMAIN memory[g] BY <1>6 DEF KeptBelow
  <2>2. at + total_size(r) \in Nat BY <1>3, <1>4
  <2> HIDE DEF at
  <2> QED BY <2>1, <2>2, <1>1, <1>9 DEF RegionsInv, Shaped, Capacity
<1>12. ASSUME NEW x \in Regions, NEW o \in objects'[x]
       PROVE  /\ o.at \in Nat /\ Covered(o.shape) /\ After(o) <= current'[x]
              /\ HeaderStands(memory'[x], o.at, o.shape) /\ Filled(memory'[x], o.at, o.op, o.shape)
  <2>1. CASE x # g
    <3>1. o \in objects[x] BY <2>1, <1>9, <1>12
    <3> QED BY <3>1, <2>1, <1>9 DEF RegionsInv, Stands, Written
  <2>2. CASE x = g /\ o = new
    <3>1. After(new) <= at + total_size(r) BY <1>10, <1>3, <1>4
    <3> QED BY <2>2, <3>1, <1>2, <1>4, <1>6, <1>7, <1>9
  <2>3. CASE x = g /\ o # new
    <3>1. o \in objects[g] BY <2>3, <1>9, <1>12
    <3>2. /\ o.at \in Nat /\ Covered(o.shape) /\ After(o) <= at
          /\ HeaderStands(M, o.at, o.shape) /\ Filled(M, o.at, o.op, o.shape)
      BY <3>1, <1>6, OldObjects
    <3>3. After(o) \in Nat BY <3>2, Formats DEF After, Length
    <3>4. After(o) <= at + total_size(r) BY <3>2, <3>3, <1>3, <1>4
    <3> QED BY <2>3, <3>2, <3>4, <1>9
  <2> QED BY <2>1, <2>2, <2>3
<1>13. Stands' /\ Written'
  BY <1>12 DEF Stands, Written, After, Length
<1>14. ASSUME NEW x \in Regions, NEW o \in objects'[x], NEW p \in objects'[x]
       PROVE  o = p \/ After(o) <= p.at \/ After(p) <= o.at
  <2>1. \A q \in objects[g] : After(q) <= at
    BY DEF RegionsInv, Stands
  <2>2. CASE x # g
    BY <2>2, <1>9, <1>14 DEF RegionsInv, Apart
  <2>3. CASE x = g
    BY <2>1, <2>3, <1>7, <1>9, <1>14 DEF RegionsInv, Apart
  <2> QED BY <2>2, <2>3
<1>15. Apart'
  BY <1>14 DEF Apart, After, Length
<1> QED BY <1>11, <1>13, <1>15 DEF RegionsInv

LEMMA FullKeeps ==
  ASSUME RegionsInv, NEW g \in Regions, NEW r, Asked(r), Full(g, r)
  PROVE  RegionsInv'
<1> DEFINE m1 == alloc(memory[g], current[g], Shape(r))
           M == IF ~HasRoom(g, r) THEN memory[g]
                ELSE IF r.op = "init" THEN store(m1, current[g], total_size(r) - 1) ELSE m1
<1>1. current[g] \in Nat /\ end[g] \in Nat /\ current[g] <= end[g] /\ DOMAIN memory = Regions
      /\ DOMAIN memory[g] \subseteq Nat
  BY Capacities DEF RegionsInv, Shaped
<1>2. DOMAIN memory' = Regions /\ memory'[g] = M /\ \A x \in Regions : x # g => memory'[x] = memory[x]
  <2>1. CASE ~HasRoom(g, r)
    BY <2>1, <1>1 DEF Full
  <2>2. CASE HasRoom(g, r)
    BY <2>2, <1>1 DEF Full
  <2> QED BY <2>1, <2>2
<1>3. KeptBelow(memory[g], M, current[g])
  <2>1. CASE ~HasRoom(g, r) BY <2>1 DEF KeptBelow
  <2>2. CASE HasRoom(g, r)
    <3>1. Covered(Shape(r)) BY <2>2, AskedShape DEF Full
    <3>2. KeptBelow(memory[g], m1, current[g]) BY <1>1, <3>1, AllocKeeps
    <3>3. CASE r.op = "init"
      <4>1. M = store(m1, current[g], total_size(r) - 1) BY <2>2, <3>3
      <4> HIDE DEF m1, M
      <4>2. \A a \in DOMAIN m1 : a < current[g] => a - current[g] - 1 \notin 0 .. total_size(r) - 1 - 1
        <5>1. DOMAIN m1 \subseteq Nat BY <3>2, <1>1 DEF KeptBelow
        <5>2. total_size(r) \in Nat BY <3>1, Formats DEF total_size
        <5> QED BY <5>1, <5>2, <1>1
      <4>3. KeptBelow(m1, M, current[g])
        BY <4>1, <4>2 DEF store, KeptBelow
      <4> QED BY <3>2, <4>3, KeptTwice
    <3>4. CASE r.op # "init" BY <2>2, <3>2, <3>4
    <3> QED BY <3>3, <3>4
  <2> QED BY <2>1, <2>2
<1>4. UNCHANGED <<current, end, objects>> BY DEF Full
<1>5. current' = [current EXCEPT ![g] = current[g]]
  BY <1>4 DEF RegionsInv, Shaped
<1>6. current[g] <= current[g] BY <1>1
<1> HIDE DEF m1, M
<1> QED BY <1>1, <1>2, <1>3, <1>4, <1>5, <1>6, NoObject

LEMMA UnencodableKeeps ==
  ASSUME RegionsInv, NEW g \in Regions, NEW r, Asked(r), Unencodable(g, r)
  PROVE  RegionsInv'
<1>1. CASE Empty(r) /\ UNCHANGED regions
  BY <1>1, RegionsUnchanged
<1>2. CASE ~(Empty(r) /\ UNCHANGED regions)
  <2> DEFINE M == alloc(memory[g], current[g], Shape(r))
  <2>1. /\ TwoBytes(r) /\ Fits(g, r)
        /\ memory' = [memory EXCEPT ![g] = M]
        /\ current' = [current EXCEPT ![g] = current[g] + total_size(r)]
        /\ UNCHANGED <<end, objects>>
    BY <1>2 DEF Unencodable
  <2>2. Covered(Shape(r))
    BY <2>1, AskedShape DEF TwoBytes, Empty
  <2>3. total_size(r) \in Nat
    BY <2>2, Formats DEF total_size
  <2>4. current[g] \in Nat /\ DOMAIN memory[g] \subseteq Nat /\ DOMAIN memory = Regions
    BY Capacities DEF RegionsInv, Shaped
  <2>5. KeptBelow(memory[g], M, current[g])
    BY <2>2, <2>4, AllocKeeps
  <2>6. /\ current[g] + total_size(r) \in Nat /\ current[g] <= current[g] + total_size(r)
        /\ current[g] + total_size(r) <= end[g]
    BY <2>1, <2>3, <2>4 DEF Fits
  <2> HIDE DEF M
  <2>7. DOMAIN memory' = Regions /\ memory'[g] = M /\ \A x \in Regions : x # g => memory'[x] = memory[x]
    BY <2>1, <2>4
  <2> QED BY <2>1, <2>5, <2>6, <2>7, NoObject
<1> QED BY <1>1, <1>2

-----------------------------------------------------------------------------
(* The steps. *)

LEMMA EnterKeeps ==
  ASSUME Inv, NEW th \in Threads, Enter(th)
  PROVE  Inv'
<1>1. Primary \in Regions /\ gc_size \in Nat \ {0}
  BY RegionsAssumption DEF Regions
<1>2. Shaped'
  <2>1. end' = [end EXCEPT ![Primary] = IF @ < gc_size - 1 THEN gc_size - 1 ELSE @]
        /\ UNCHANGED <<memory, current, objects>>
    BY DEF Enter, mapMemory
  <2> QED BY <1>1, <2>1 DEF Inv, RegionsInv, Shaped, Capacity
<1>3. Stands' /\ Apart' /\ Written'
  BY DEF Inv, RegionsInv, Stands, Apart, Written, Enter, After, Length
<1>4. Threading' /\ Outside'
  <2>1. /\ lock = Free /\ lock' = th /\ ~poisoned /\ poisoned' = poisoned /\ request' = request
        /\ \E l \in Inside : pc' = [pc EXCEPT ![th] = l]
    BY DEF Enter, lock_unwrap, Goto, Inside
  <2>2. \A x \in Threads : pc[x] \notin Inside
    BY <2>1, RegionsAssumption DEF Inv, Threading
  <2> QED BY <2>1, <2>2 DEF Inv, Threading, Outside
<1> QED BY <1>2, <1>3, <1>4 DEF Inv, RegionsInv

(* A step that enters nothing and leaves lock and mutex as they are. *)
LEMMA OutsideSteps ==
  ASSUME Threading, Outside, NEW th \in Threads, pc[th] \notin Inside,
         NEW l, l \in {"idle", "primary", "collect", "panicked"}, Goto(th, l), UNCHANGED mutex,
         request' = request \/ (\E r \in Requests[th] : request' = [request EXCEPT ![th] = r])
  PROVE  Threading' /\ Outside'
<1>1. l \notin Inside BY DEF Inside
<1> QED BY <1>1 DEF Threading, Outside, Goto, mutex

LEMMA NurseryKeeps ==
  ASSUME Inv, NEW th \in Threads, NEW r \in Requests[th], Nursery(th, r)
  PROVE  Inv'
<1>1. th \in Regions /\ Asked(r) BY DEF Regions, Asked
<1>2. RegionsInv'
  BY <1>1, AllocatedKeeps, FullKeeps, UnencodableKeeps DEF Inv, Nursery
<1>3. Threading' /\ Outside'
  <2>1. pc[th] = "idle" /\ UNCHANGED <<mutex, request>> BY DEF Nursery
  <2>2. CASE UNCHANGED pc
    BY <2>1, <2>2 DEF Inv, Threading, Outside, mutex
  <2>3. CASE Goto(th, IF r.op = "init" THEN "panicked" ELSE "collect") \/ Goto(th, "panicked")
    BY <2>1, <2>3, OutsideSteps DEF Inv, Inside
  <2> QED BY <2>2, <2>3 DEF Nursery
<1> QED BY <1>2, <1>3 DEF Inv

LEMMA PrimaryCallKeeps ==
  ASSUME Inv, NEW th \in Threads, NEW r \in Requests[th], primary_call(th, r)
  PROVE  Inv'
<1>1. RegionsInv' BY RegionsUnchanged DEF Inv, primary_call
<1>2. Threading' /\ Outside'
  BY OutsideSteps DEF Inv, primary_call, Inside
<1> QED BY <1>1, <1>2 DEF Inv

LEMMA EnterPoisonedKeeps ==
  ASSUME Inv, NEW th \in Threads, EnterPoisoned(th)
  PROVE  Inv'
<1>1. RegionsInv' BY RegionsUnchanged DEF Inv, EnterPoisoned
<1>2. Threading' /\ Outside'
  BY OutsideSteps DEF Inv, EnterPoisoned, Inside
<1> QED BY <1>1, <1>2 DEF Inv

(* Who leaves the mutex was the only one inside. *)
LEMMA Leaves ==
  ASSUME Threading, NEW th \in Threads, pc[th] \in Inside,
         NEW l \in {"idle", "panicked"}, Goto(th, l), poisoned' \in BOOLEAN, UNCHANGED request
  PROVE  Threading' /\ Outside'
<1>1. l \notin Inside BY DEF Inside
<1>2. \A x \in Threads : x # th => pc[x] \notin Inside
  BY DEF Threading
<1>3. \A x \in Threads : pc'[x] \notin Inside
  BY <1>1, <1>2 DEF Threading, Goto
<1> QED BY <1>1, <1>3 DEF Threading, Outside, Goto

LEMMA PrimarilyKeeps ==
  ASSUME Inv, NEW th \in Threads, Primarily(th)
  PROVE  Inv'
<1>1. Primary \in Regions /\ Asked(request[th])
  BY DEF Regions, Asked, Inv, Threading
<1>2. RegionsInv' BY <1>1, AllocatedKeeps DEF Inv, Primarily
<1>3. Threading' /\ Outside'
  BY Leaves DEF Inv, Threading, Primarily, Inside
<1> QED BY <1>2, <1>3 DEF Inv

LEMMA PrimaryPanicsKeeps ==
  ASSUME Inv, NEW th \in Threads, PrimaryPanics(th)
  PROVE  Inv'
<1>1. Primary \in Regions /\ Asked(request[th])
  BY DEF Regions, Asked, Inv, Threading
<1>2. RegionsInv' BY <1>1, FullKeeps, UnencodableKeeps DEF Inv, PrimaryPanics
<1>3. Threading' /\ Outside'
  BY Leaves DEF Inv, PrimaryPanics, panic, Inside
<1> QED BY <1>2, <1>3 DEF Inv

LEMMA CollectKeeps ==
  ASSUME Inv, NEW th \in Threads, collect_from(th)
  PROVE  Inv'
<1>1. RegionsInv' BY RegionsUnchanged DEF Inv, collect_from
<1>2. Threading' /\ Outside'
  BY Leaves DEF Inv, collect_from, panic, Inside
<1> QED BY <1>1, <1>2 DEF Inv

LEMMA NextInv ==
  ASSUME Inv, [Next]_vars
  PROVE  Inv'
<1>1. CASE Next
  <2>1. PICK th \in Threads :
          Step(th) \/ \E r \in Requests[th] : Nursery(th, r) \/ primary_call(th, r)
    BY <1>1 DEF Next
  <2> QED
    BY <2>1, EnterKeeps, EnterPoisonedKeeps, PrimarilyKeeps, PrimaryPanicsKeeps, CollectKeeps,
       NurseryKeeps, PrimaryCallKeeps DEF Step
<1>2. CASE UNCHANGED vars
  <2>1. UNCHANGED regions /\ UNCHANGED <<mutex, pc, request>> BY <1>2 DEF vars
  <2>2. RegionsInv' BY <2>1, RegionsUnchanged DEF Inv
  <2> QED BY <2>1, <2>2 DEF Inv, Threading, Outside, mutex
<1> QED BY <1>1, <1>2

THEOREM InvHolds == Spec => []Inv
<1>1. Init => Inv BY InitInv
<1>2. Inv /\ [Next]_vars => Inv' BY NextInv
<1> QED BY <1>1, <1>2, PTL DEF Spec

(* Types: no region is filled beyond its end, nor mapped beyond its memory,  *)
(* and the mutex has one owner.                                              *)
THEOREM TypeCorrect == Spec => []TypeOK
<1>1. Inv => TypeOK
  BY DEF Inv, RegionsInv, Shaped, Threading, TypeOK
<1> QED BY <1>1, InvHolds, PTL

(* Objects lie one behind the other, and words() reads of each the size it   *)
(* was given (memory.rs:43-54, object.rs:606-618).                           *)
THEOREM ObjectsTile == Spec => []Tiled
<1>1. Inv => Tiled
  <2> SUFFICES ASSUME Inv PROVE Tiled OBVIOUS
  <2>1. ASSUME NEW g \in Regions, NEW o \in objects[g]
        PROVE  After(o) <= current[g] /\ words(memory[g], o.at) = Length(o)
    BY ReadBack DEF Inv, RegionsInv, Stands, Length
  <2> QED BY <2>1 DEF Inv, RegionsInv, Apart, Tiled
<1> QED BY <1>1, InvHolds, PTL

(* The number of fields and of indexed fields, and their width, are read     *)
(* back from the header as they were asked for (object.rs:499-523, 575-659). *)
THEOREM ObjectsAsAsked == Spec => []AsAsked
<1>1. Inv => AsAsked
  BY ReadBack, SizeReadBack DEF Inv, RegionsInv, Stands, AsAsked
<1> QED BY <1>1, InvHolds, PTL

(* No object shows what was in its memory before (object.rs:751-760,         *)
(* memory.rs:219-242).                                                       *)
THEOREM ObjectsInitialised == Spec => []Initialised
<1>1. Inv => Initialised
  <2> SUFFICES ASSUME Inv, NEW g \in Regions, NEW o \in objects[g], NEW a \in o.at + 1 .. After(o) - 1
               PROVE  memory[g][a].holds \in
                        IF o.op # "alloc" THEN {"data"}
                        ELSE IF Bytes(o.shape) THEN {"zero"}
                        ELSE IF a = o.at + firstIndex(memory[g][o.at]) /\ a > o.at + o.shape.n_instVars
                             THEN {"count"} ELSE {"nil"}
    BY DEF Initialised
  <2>1. Filled(memory[g], o.at, o.op, o.shape) BY DEF Inv, RegionsInv, Written
  <2>3. After(o) = o.at + formatAndSize(o.shape).total_size BY DEF After, Length
  <2>4. o.at \in Nat /\ formatAndSize(o.shape).total_size \in Nat
    BY Formats DEF Inv, RegionsInv, Stands
  <2>2. a \in o.at + 1 .. o.at + formatAndSize(o.shape).total_size - 1 BY <2>3, <2>4
  <2> QED BY <2>1, <2>2 DEF Filled
<1> QED BY <1>1, InvHolds, PTL

(* Once a thread panicked with the mutex, no object is allocated in the      *)
(* primary region again (memory.rs:257-258).                                 *)
THEOREM PoisonStays == Spec => PoisonedForGood
<1>1. ASSUME Inv, [Next]_vars, poisoned
      PROVE  poisoned' /\ objects'[Primary] = objects[Primary]
  <2>1. CASE UNCHANGED vars BY <1>1, <2>1 DEF vars, regions, mutex
  <2>2. ASSUME NEW th \in Threads, Step(th)
        PROVE  poisoned' /\ objects'[Primary] = objects[Primary]
    <3>1. pc[th] \notin Inside BY <1>1 DEF Inv, Outside
    <3>2. EnterPoisoned(th)
      BY <1>1, <2>2, <3>1 DEF Step, Enter, lock_unwrap, Primarily, PrimaryPanics, collect_from, Inside
    <3> QED BY <1>1, <3>2 DEF EnterPoisoned, regions, mutex
  <2>3. ASSUME NEW th \in Threads, NEW r \in Requests[th], Nursery(th, r) \/ primary_call(th, r)
        PROVE  poisoned' /\ objects'[Primary] = objects[Primary]
    <3>1. poisoned' = poisoned BY <2>3 DEF Nursery, primary_call, mutex
    <3>2. Primary # th /\ Primary \in Regions BY RegionsAssumption DEF Regions
    <3>3. objects' = objects \/ \E new : objects' = [objects EXCEPT ![th] = @ \cup {new}]
      BY <2>3 DEF Nursery, Allocated, Full, Unencodable, primary_call, regions
    <3>4. DOMAIN objects = Regions BY <1>1 DEF Inv, RegionsInv, Shaped
    <3> QED BY <1>1, <3>1, <3>2, <3>3, <3>4
  <2> QED BY <1>1, <2>1, <2>2, <2>3 DEF Next
<1>2. Inv /\ [Next]_vars => [poisoned => poisoned' /\ objects'[Primary] = objects[Primary]]_vars
  BY <1>1
<1> QED BY <1>2, InvHolds, PTL DEF Spec, PoisonedForGood

(* Types and objects in place, for regions of every size and any number of   *)
(* threads (memory.rs:43-102).                                               *)
THEOREM RegionsWellFormed == Spec => []WellFormed
  BY TypeCorrect, ObjectsTile, PTL DEF WellFormed

=============================================================================

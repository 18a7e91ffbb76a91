---------------------------- MODULE ObjectFormat ----------------------------
(***************************************************************************)
(* The layout of an object of the Rust VM (object.rs): what is written in  *)
(* its header when it is allocated, and what is read from there later.     *)
(*                                                                         *)
(* Memory is a function of addresses in words.  A word holds a header      *)
(* (format and size; class and hash are left out), the count of indexed    *)
(* fields, or contents.                                                    *)
(*                                                                         *)
(* Covered is what any part of the program allocates: not weak objects     *)
(* without indexed fields, of which words() adds the -1 of n_indexed, nor  *)
(* bytes in 32767 words or more, whose count is written to field 0 and read*)
(* from field 32767 (object.rs:612, 616, 767).                             *)
(*                                                                         *)
(* An operator named after another one with a suffix is that one with a    *)
(* slip in it, for the runs that show a property to notice it.             *)
(***************************************************************************)
EXTENDS Integers

CONSTANT Large    (* 32767: a header's size of which means it is elsewhere *)

ASSUME LargeAssumption == Large \in Nat \ {0}

format_idx_inst_weak == 13
format_inst_np == 14
format_idx_np == 15
format_idx_inst_np == 16
format_idx_other_base == 16

Max0(n) == IF n > 0 THEN n ELSE 0
items_per_word(width) == 8 \div width

(* What a caller asks for: fields, indexed fields (-1: none), the width of   *)
(* one in bytes (-1: objects), and whether it is weak.                       *)
ShapeOf(n_instVars, n_indexed, width, weak) ==
  [n_instVars |-> n_instVars, n_indexed |-> n_indexed, width |-> width, weak |-> weak]

remainder(s) ==
  IF s.n_indexed % items_per_word(s.width) = 0 THEN items_per_word(s.width)
  ELSE s.n_indexed % items_per_word(s.width)
words_needed_floor(s) == s.n_indexed \div items_per_word(s.width)
words_needed(s) == (s.n_indexed + items_per_word(s.width) - 1) \div items_per_word(s.width)

Bytes(s) == ~s.weak /\ s.n_indexed >= 0 /\ s.n_instVars = 0 /\ s.width > 0

Covered(s) ==
  /\ s.n_instVars \in Nat /\ s.n_indexed \in Nat \cup {-1}
  /\ s.width \in {-1, 1, 2, 4, 8} /\ s.weak \in BOOLEAN
  /\ s.weak => s.n_indexed >= 0
  /\ s.n_instVars < Large
  /\ Bytes(s) => words_needed(s) < Large

Format(f, z, t) == [format |-> f, size |-> z, total_size |-> t]

(* Header, fields, count and indexed fields. *)
counted_size_without_count(s) == s.n_instVars + Max0(s.n_indexed) + 1
counted_size(s) == s.n_instVars + Max0(s.n_indexed) + 2

formatAndSize(s) ==
  IF s.weak THEN Format(format_idx_inst_weak, s.n_instVars, counted_size(s))
  ELSE IF s.n_indexed < 0 THEN Format(format_inst_np, s.n_instVars, s.n_instVars + 1)
  ELSE IF s.n_instVars > 0
    THEN Format(format_idx_inst_np, s.n_instVars, counted_size(s))
  ELSE IF s.width < 0
    THEN IF s.n_indexed < Large THEN Format(format_idx_np, s.n_indexed, s.n_indexed + 1)
         ELSE Format(format_idx_inst_np, 0, s.n_indexed + 2)
  ELSE Format(format_idx_other_base + items_per_word(s.width) * 2 - remainder(s),
              words_needed(s), words_needed(s) + 1)

-----------------------------------------------------------------------------
(* Words of memory. *)

Word(holds, format, size) == [holds |-> holds, format |-> format, size |-> size]
Header(f) == Word("header", f.format, f.size)
Count(n) == Word("count", 0, n)
Nil == Word("nil", 0, 0)
Zero == Word("zero", 0, 0)
Data == Word("data", 0, 0)
Unused == Word("unused", 0, 0)

(* The bits of the code's masks: format&27 = 10, format&27 = 11, format&26 = 10. *)
InstOnly(f) == f \in {10, 14}
IndexOnly(f) == f \in {11, 15}

raw_at(m, at, i) == m[at + 1 + i]

n_instVars(h) == IF IndexOnly(h.format) \/ h.format > 16 THEN 0 ELSE h.size

firstIndex(h) ==
  CASE InstOnly(h.format) -> h.size
    [] IndexOnly(h.format) -> 0
    [] ~InstOnly(h.format) /\ ~IndexOnly(h.format) /\ h.format <= 16 -> h.size + 1
    [] h.format > 16 -> IF h.size < Large THEN 0 ELSE 1

words(m, at) ==
  LET h == m[at]
  IN IF InstOnly(h.format) \/ IndexOnly(h.format) THEN h.size + 1
     ELSE IF h.format <= 16 THEN h.size + 2 + raw_at(m, at, h.size).size
     ELSE IF h.size < Large THEN h.size + 1 ELSE 2 + raw_at(m, at, h.size).size

size(m, at) ==
  LET h == m[at]
      n == IF h.size >= Large THEN raw_at(m, at, 0).size ELSE h.size
  IN CASE InstOnly(h.format) -> 0
       [] IndexOnly(h.format) -> h.size
       [] ~InstOnly(h.format) /\ ~IndexOnly(h.format) /\ h.format <= 16 ->
            raw_at(m, at, h.size).size
       [] h.format >= 24 -> n * 8 - (h.format % 8)
       [] h.format \in 20 .. 23 -> n * 4 - (h.format % 4)
       [] h.format \in 18 .. 19 -> n * 2 - (h.format % 2)
       [] h.format = 17 -> n

width(h) ==
  CASE h.format <= 16 -> -1
    [] h.format >= 24 -> 1
    [] h.format \in 20 .. 23 -> 2
    [] h.format \in 18 .. 19 -> 4
    [] h.format = 17 -> 8

(* A store beyond the memory is not seen by anybody here. *)
alloc(m, at, s) ==
  LET f == formatAndSize(s)
      h == Header(f)
      extra == firstIndex(h)
  IN [a \in DOMAIN m |->
        IF a = at THEN h
        ELSE IF extra > n_instVars(h) /\ a = at + extra THEN Count(s.n_indexed)
        ELSE m[a]]

initialize_last_field_kept(m, at) ==
  LET h == m[at]
      init == IF h.format <= 16 THEN Nil ELSE Zero
  IN [a \in DOMAIN m |->
        IF a - at - 1 \in 0 .. n_instVars(h) - 1 THEN Nil
        ELSE IF a - at - 1 \in firstIndex(h) .. words(m, at) - 3 THEN init
        ELSE m[a]]

initialize(m, at) ==
  LET h == m[at]
      init == IF h.format <= 16 THEN Nil ELSE Zero
  IN [a \in DOMAIN m |->
        IF a - at - 1 \in 0 .. n_instVars(h) - 1 THEN Nil
        ELSE IF a - at - 1 \in firstIndex(h) .. words(m, at) - 2 THEN init
        ELSE m[a]]

(* Fields 0 .. n-1 of the object, by raw_at_put. *)
store(m, at, n) == [a \in DOMAIN m |-> IF a - at - 1 \in 0 .. n - 1 THEN Data ELSE m[a]]

(* at_put_u8 and at_put_u32 of each character, the last word being zeroed    *)
(* before: the bytes fill the words of the object from the first.            *)
at_put_all(m, at, n, w) ==
  [a \in DOMAIN m |->
     IF a - at - 1 \in 0 .. (n * w - 1) \div 8 THEN Data
     ELSE IF a - at - 1 = words(m, at) - 2 THEN Zero
     ELSE m[a]]
=============================================================================

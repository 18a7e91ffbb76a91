----------------------------- MODULE Primitives -----------------------------
(***************************************************************************)
(* What the functions of the Rust VM do to the stack of a thread: the      *)
(* instructions of interpreter/stack.rs and the primitives of              *)
(* interpreter/primitives/*.rs.  All have one type (interpreter.rs:145), so*)
(* a compiled method may use any as an instruction, a send any that is in  *)
(* the table of primitives.                                                *)
(*                                                                         *)
(* An object is its class index and a value: the number of an integer, a   *)
(* double or a class, the number of a closure.  The code is between two    *)
(* encodings (NAN_VALUE is used and nowhere defined), so the predicates of *)
(* object.rs stand for what their names say.                               *)
(*                                                                         *)
(* A function yields the new stack and its FunctionResult; "panic" stands  *)
(* for a panic.  The printing of log: is left out.                         *)
(*                                                                         *)
(* An operator named after another one with a suffix is that one with a    *)
(* slip in it, for the runs that show a property to notice it.             *)
(***************************************************************************)
EXTENDS Integers, Sequences

CONSTANTS
  IntLimit,      (* integers are in -IntLimit .. IntLimit-1; 2^47 in the code *)
  IsizeLimit     (* what is computed with, isize, likewise; 2^63 in the code  *)

ASSUME IntLimitAssumption == IntLimit \in Nat \ {0}

(* A sum or a difference of two integers is an isize. *)
ASSUME IsizeAssumption == IsizeLimit \in Nat /\ IsizeLimit >= 2 * IntLimit

classBlockClosure == 1
classFalse == 2
classTrue == 3
classUndefinedObject == 4
classSmallInteger == 7
classFloat == 8
classClass == 11
METACLASS_OFFSET == 1001

Object(c, v) == [class |-> c, value |-> v]
falseObject == Object(classFalse, 0)
trueObject == Object(classTrue, 0)
nilObject == Object(classUndefinedObject, 0)
from_bool(b) == IF b THEN trueObject ELSE falseObject
from_f64(v) == Object(classFloat, v)

(* 48 bits of the isize are kept, sign extended when they are read again. *)
from_isize(i) == Object(classSmallInteger, ((i + IntLimit) % (2 * IntLimit)) - IntLimit)

is_integer(o) == o.class = classSmallInteger
is_double(o) == o.class = classFloat

-----------------------------------------------------------------------------
(* Thread: the stack.  Offsets count from the top, 1 being the top itself. *)

push(s, o) == Append(s, o)
top(s) == s[Len(s)]
pop(s) == SubSeq(s, 1, Len(s) - 1)
replace(s, o) == [s EXCEPT ![Len(s)] = o]
atOffset(s, n) == s[Len(s) + 1 - n]
discard(s, n) == SubSeq(s, 1, Len(s) - n)

Result(s, r, n) == [stack |-> s, result |-> r, to |-> n]
NormalReturn(s) == Result(s, "NormalReturn", 0)
ReturnIsNext(s) == Result(s, "ReturnIsNext", 0)
JumpTo(s, n) == Result(s, "JumpTo", n)
primitive_fail(s) == Result(push(s, nilObject), "panic", 0)

-----------------------------------------------------------------------------
(* smallInteger.rs and double.rs: the argument is popped and pushed back if *)
(* it is of the wrong class.                                                *)

addI(s) ==
  IF ~is_integer(top(s)) THEN primitive_fail(s)
  ELSE NormalReturn(replace(pop(s), from_isize(top(pop(s)).value + top(s).value)))

subISwapped(s) ==
  IF ~is_integer(top(s)) THEN primitive_fail(s)
  ELSE NormalReturn(replace(pop(s), from_isize(top(s).value - top(pop(s)).value)))

subI(s) ==
  IF ~is_integer(top(s)) THEN primitive_fail(s)
  ELSE NormalReturn(replace(pop(s), from_isize(top(pop(s)).value - top(s).value)))

(* A product that is no isize is an arithmetic overflow: the panic of a      *)
(* checked build, with the argument popped already.                         *)
mulI(s) ==
  LET product == top(pop(s)).value * top(s).value
  IN IF ~is_integer(top(s)) THEN primitive_fail(s)
     ELSE IF product \notin -IsizeLimit .. IsizeLimit - 1 THEN Result(pop(s), "panic", 0)
     ELSE NormalReturn(replace(pop(s), from_isize(product)))

(* The receiver is replaced by true, but false is pushed above it. *)
Equals(s, Fits(_)) ==
  IF top(pop(s)) = top(s) THEN NormalReturn(replace(pop(s), trueObject))
  ELSE IF ~Fits(top(s)) THEN primitive_fail(s)
  ELSE NormalReturn(push(pop(s), falseObject))

eqI(s) == Equals(s, is_integer)
eqF(s) == Equals(s, is_double)

addF(s) ==
  IF ~is_double(top(s)) THEN primitive_fail(s)
  ELSE NormalReturn(push(pop(pop(s)), from_f64(top(s).value + top(pop(s)).value)))

(* object.rs *)
yourself(s) == NormalReturn(s)
log_(s) == NormalReturn(pop(s))

-----------------------------------------------------------------------------
(* stack.rs *)

dup(s) == NormalReturn(push(s, top(s)))
drop(s) == NormalReturn(pop(s))
pre_return(s) == ReturnIsNext(s)
constant(s, o) == NormalReturn(push(s, o.value))
eq_constant(s, o) == NormalReturn(push(pop(s), from_bool(top(s) = o.value)))
eq_class(s, o) == NormalReturn(push(pop(s), from_bool(top(s).class = o.value.value)))
eq(s) == NormalReturn(push(pop(pop(s)), from_bool(top(s) = top(pop(s)))))
br_false(s, o) ==
  IF top(s) = trueObject THEN NormalReturn(pop(s)) ELSE JumpTo(pop(s), o.value.value)

br_true(s, o) ==
  IF top(s) = trueObject THEN JumpTo(pop(s), o.value.value) ELSE NormalReturn(pop(s))
nop(s) == NormalReturn(s)
add(s) ==
  IF ~is_integer(top(s)) THEN primitive_fail(s)
  ELSE NormalReturn(push(pop(pop(s)), from_isize(top(s).value + top(pop(s)).value)))

(* The operand packs how many to discard, whether to return, and the offsets *)
(* of what to keep; they are read before anything is discarded.             *)
restack(s, o) ==
  LET kept == [i \in DOMAIN o.keep |-> atOffset(s, o.keep[i])]
      t == discard(s, o.discard % 128) \o kept
  IN IF o.discard > 127 THEN ReturnIsNext(t) ELSE NormalReturn(t)

(* How deep in the stack a function reaches; with less it panics: an index  *)
(* out of range, a subtraction below 0 (checked arithmetic, as in the tests)*)
(* or the unwrap of None.                                                   *)
Reach(f, o) ==
  CASE f \in {"nop", "yourself", "constant", "pre_return"} -> 0
    [] f \in {"dup", "eq_constant", "eq_class", "br_true", "log_"} -> 1
    [] f \in {"addI", "subI", "mulI", "eqI", "addF", "eqF", "eq", "add", "drop"} -> 2
    [] f = "restack" -> LET all == {o.discard % 128} \cup {o.keep[i] : i \in DOMAIN o.keep}
                        IN CHOOSE n \in all : \A i \in all : n >= i

Call(f, s, o) ==
  IF Len(s) < Reach(f, o) THEN Result(s, "panic", 0)
  ELSE CASE f = "nop" -> nop(s)          [] f = "yourself" -> yourself(s)
         [] f = "dup" -> dup(s)          [] f = "drop" -> drop(s)
         [] f = "log_" -> log_(s)        [] f = "pre_return" -> pre_return(s)
         [] f = "constant" -> constant(s, o)
         [] f = "eq_constant" -> eq_constant(s, o)
         [] f = "eq_class" -> eq_class(s, o)
         [] f = "br_true" -> br_true(s, o)
         [] f = "restack" -> restack(s, o)
         [] f = "addI" -> addI(s)        [] f = "subI" -> subI(s)
         [] f = "mulI" -> mulI(s)        [] f = "eqI" -> eqI(s)
         [] f = "addF" -> addF(s)        [] f = "eqF" -> eqF(s)
         [] f = "eq" -> eq(s)            [] f = "add" -> add(s)

-----------------------------------------------------------------------------
(* The load functions: what each puts in the table of primitives, in order. *)

object_load == <<<<"yourself prim", "yourself">>, <<"log: prim", "log_">>>>
smallInteger_load == <<<<"7", "eqI">>, <<"1", "addI">>, <<"2", "subI">>, <<"9", "mulI">>>>
double_load == <<<<"41", "addF">>, <<"47", "eqF">>>>
stack_load == <<<<"110", "eq">>, <<"1", "add">>, <<"nop", "nop">>, <<"dup", "dup">>>>
loads == object_load \o smallInteger_load \o double_load \o stack_load
=============================================================================

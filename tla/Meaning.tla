------------------------------ MODULE Meaning ------------------------------
(***************************************************************************)
(* What an expression means, without a stack: its value by recursion over  *)
(* the tree, given self.  The interpreter of the Rust VM is compared with  *)
(* this.                                                                   *)
(*                                                                         *)
(* The value of a block is the block itself.  An expression that cannot be *)
(* evaluated (a message not understood, a load, an argument of the wrong   *)
(* class, a product that does not fit an isize) has the value Error.       *)
(***************************************************************************)
EXTENDS Interpreter

Meant(o) == [object |-> o, block |-> Leaf("none", nilObject)]
MeantBlock(m) == [object |-> Object(classBlockClosure, 0), block |-> m]
Error == [object |-> Object(0, 0), block |-> Leaf("error", nilObject)]

Isize == -IsizeLimit .. IsizeLimit - 1
Wrapped(n) == CHOOSE i \in Representable : \E k \in -IntLimit .. IntLimit : n = i + 2 * IntLimit * k
Integer(n) == Meant(Object(classSmallInteger, Wrapped(n)))
Boolean(b) == Meant(IF b THEN trueObject ELSE falseObject)

(* What the primitives promise, for a receiver that is an integer: sums,     *)
(* differences and products wrap as long as the machine can compute them.   *)
Computed(f, vs) ==
  LET a == vs[1].object.value  b == vs[2].object.value
      integers == is_integer(vs[2].object)
  IN CASE f = "log_" -> vs[1]
       [] f # "log_" /\ ~integers -> Error
       [] f \in {"add", "addI"} /\ integers -> Integer(a + b)
       [] f = "subI" /\ integers -> Integer(a - b)
       [] f = "mulI" /\ integers -> IF a * b \in Isize THEN Integer(a * b) ELSE Error
       [] f = "eqI" /\ integers -> Boolean(a = b)

RECURSIVE MeaningOf(_, _)
RECURSIVE MeaningOfSend(_, _)

(* The value of the first return, or of the last statement; of no statement  *)
(* that of the last argument.                                                *)
MeaningOfBody(m, vs) ==
  LET ends == {i \in DOMAIN m.parts : m.parts[i].kind = "return" \/ i = Len(m.parts)}
      end == CHOOSE i \in ends : \A j \in ends : i <= j
      values == [i \in 1 .. end |-> MeaningOf(m.parts[i], vs[1])]
  IN IF ends = {} THEN vs[Len(vs)]
     ELSE IF \E i \in 1 .. end : values[i] = Error THEN Error
     ELSE values[end]

MeaningOfSend(selector, vs) ==
  LET class == vs[1].object.class
      found == find_method(class, selector)
      m == CHOOSE m \in found : TRUE
      primitive == prim_lookup(m.primitive)
  IN IF class = classBlockClosure
     THEN IF vs[1].block.selector = selector THEN MeaningOfBody(vs[1].block, vs) ELSE Error
     ELSE IF class \notin DOMAIN classes THEN Error
     ELSE IF found = {} THEN Error
     ELSE IF primitive # {} THEN Computed(CHOOSE f \in primitive : TRUE, vs)
     ELSE IF m.primitive # "0" THEN Error
     ELSE MeaningOfBody(m, vs)

MeaningOf(e, self) ==
  LET values == [i \in DOMAIN e.parts |-> MeaningOf(e.parts[i], self)]
  IN CASE e.kind \in {"literal", "object"} -> Meant(e.value)
       [] e.kind = "self" -> self
       [] e.kind = "load" -> Error
       [] e.kind = "method" -> MeantBlock(e)
       [] e.kind = "return" -> values[1]
       [] e.kind = "send" -> IF \E i \in DOMAIN values : values[i] = Error THEN Error
                             ELSE MeaningOfSend(e.selector, values)

-----------------------------------------------------------------------------
(* A test that executes one send. *)
IsSend == Len(Tests[test].method.code) = 1 /\ Tests[test].method.code[1].function = "dispatch"

Meaning ==
  MeaningOfSend(Tests[test].method.code[1].selector,
                [i \in DOMAIN Tests[test].stack |-> Meant(Tests[test].stack[i])])

Denotes(o) == IF o.class = classBlockClosure THEN MeantBlock(closures[o.value]) ELSE Meant(o)

(* A send leaves exactly one object in place of receiver and arguments, the  *)
(* one meant, and it panics only if nothing is meant (a product behind isize *)
(* included) or the closures do not fit (the tests'                          *)
(* assert_eq!(thread.size(),1), interpreter.rs:640, and what follows it).    *)
ResultAsMeant ==
  IsSend =>
    /\ outcome = "returned" => Len(stack) = 1 /\ Denotes(top(stack)) = Meaning
    /\ outcome \notin {"idle", "running", "returned", "collect_from not implemented"}
         => Meaning = Error
=============================================================================

--------------------------- MODULE MCInterpreter ---------------------------
(***************************************************************************)
(* The classes of the tests of interpreter.rs (init_classes), with two     *)
(* methods of SmallInteger more: `main`, whose body ranges over what nested*)
(* sends, blocks and returns can be built of, and `keyed:`.                *)
(*                                                                         *)
(* In a block `self` is the closure; [self value] value never ends (in the  *)
(* code: overflows the stack) and is left out.                             *)
(*                                                                         *)
(* `=` is sent only as a whole statement here: inside another send it      *)
(* leaves an object too many, which MCEqualityTests shows.                 *)
(***************************************************************************)
EXTENDS Meaning

classSystemMeta == 16 + METACLASS_OFFSET

MCInteger(n) == Object(classSmallInteger, n)
Literal(n) == Leaf("literal", MCInteger(n))
Self == Leaf("self", nilObject)
Load == Leaf("load", nilObject)

Selector(name, arity) == [name |-> name, arity |-> arity]
Node(kind, parts) == [Leaf(kind, nilObject) EXCEPT !.parts = parts]
Return1(e) == Node("return", <<e>>)
Send1(name, parts) ==
  [Node("send", parts) EXCEPT !.selector = Selector(name, Len(parts) - 1)]
Method(name, arity, primitive, body) ==
  [Node("method", body) EXCEPT !.selector = Selector(name, arity), !.primitive = primitive]
Block(body) == Method("value", 0, "0", body)
Block1(body) == Method("value:", 1, "0", body)

foo == Method("foo", 0, "0",
         <<Return1(Send1("*", <<Send1("+", <<Self, Literal(2)>>), Literal(7)>>))>>)
bar == Method("bar", 0, "0",
         <<Return1(Send1("*", <<Send1("value",
             <<Block(<<Return1(Send1("+", <<Load, Literal(2)>>))>>)>>), Literal(7)>>))>>)
broken == Method("broken", 0, "12", <<>>)

Image(main, keyed) ==
  [c \in {classSmallInteger, classSystemMeta} |->
     IF c = classSystemMeta THEN <<Method("log:", 1, "log: prim", <<>>)>>
     ELSE <<Method("+", 1, "1", <<>>), Method("-", 1, "2", <<>>), Method("*", 1, "9", <<>>),
            Method("=", 1, "7", <<>>), foo, bar, broken,
            Method("main", 0, "0", main), Method("keyed:", 1, "0", keyed)>>]

-----------------------------------------------------------------------------
Atoms == {Self, Literal(3), Leaf("object", trueObject)}
Arithmetic(receivers, arguments) ==
  {Send1(op, <<a, b>>) : op \in {"+", "-", "*"}, a \in receivers, b \in arguments}
Blocks ==
  {Block(<<>>), Block(<<Self>>), Block(<<Literal(1), Return1(Literal(2)), Load>>),
   Block(<<Return1(Send1("-", <<Literal(1), Send1("foo", <<Literal(0)>>)>>))>>)}
Evaluated ==
  {Send1("value", <<b>>) : b \in Blocks \cup Atoms}
    \cup {Send1("value:", <<Block1(body), a>>) :
            body \in {<<>>, <<Literal(2)>>, <<Return1(Self), Literal(1)>>}, a \in Atoms}
Unary == {Send1(name, <<a>>) : name \in {"foo", "bar", "broken"}, a \in Atoms \cup Blocks}
Keyed == {Send1("keyed:", <<a, b>>) : a \in Atoms, b \in Atoms \cup Blocks}
Simple == Arithmetic(Atoms, Atoms) \cup Evaluated \cup Unary \cup Keyed
Nested ==
  Arithmetic(Simple, {Self}) \cup Arithmetic({Self}, Simple)
    \cup {Send1("-", <<a, b>>) : a \in Keyed \cup Evaluated, b \in Unary \cup Evaluated}
    \cup {Send1("keyed:", <<Self, b>>) : b \in Evaluated}
    \cup {Send1("value", <<Block(<<e>>)>>) : e \in Simple \ {Send1("value", <<Self>>)}}
Comparisons == {Send1("=", <<a, b>>) : a \in Atoms, b \in Atoms \cup {Literal(4)}}

Bodies ==
  {<<>>, <<Block(<<>>), Block(<<>>), Send1("value", <<Block(<<>>)>>)>>}
    \cup {<<e>> : e \in Nested \cup Comparisons \cup Blocks}
    \cup {<<Return1(e), Load>> : e \in Simple \cup Comparisons}
    \cup {<<e, f>> : e \in Comparisons \cup Evaluated \cup Atoms,
                     f \in {Self, Send1("-", <<Self, Literal(1)>>), Return1(Literal(1))}}

Keyeds ==
  {<<>>, <<Self>>, <<Return1(Send1("*", <<Self, Self>>)), Load>>,
   <<Send1("=", <<Self, Literal(4)>>), Send1("foo", <<Self>>)>>,
   <<Send1("=", <<Self, Literal(4)>>)>>}

-----------------------------------------------------------------------------
(* Instructions and their operands. *)
Operand(o, discards, kept) == [value |-> o, discard |-> discards, keep |-> kept]
Instr(f) == [function |-> f, operand |-> Operand(nilObject, 0, <<>>), selector |-> Selector("", 0)]
InstrWith(f, o) == [Instr(f) EXCEPT !.operand.value = o]
Restack(d, kept) == [Instr("restack") EXCEPT !.operand = Operand(nilObject, d, kept)]
Dispatch(name, arity) == [Instr("dispatch") EXCEPT !.selector = Selector(name, arity)]

MCTest(objects, parameters, locals, instructions) ==
  [stack |-> objects,
   method |-> [parameters |-> parameters, locals |-> locals, code |-> instructions]]
DoIt(objects, name) == MCTest(objects, 0, 0, <<Dispatch(name, Len(objects) - 1)>>)

System == Object(classSystemMeta, 16)
ClassOperand(c) == Object(classSmallInteger, c)
Jump(n) == InstrWith("br_true", MCInteger(n))

MCTests == <<
  DoIt(<<MCInteger(4)>>, "main"),
  DoIt(<<MCInteger(5), MCInteger(3)>>, "keyed:"),
  DoIt(<<MCInteger(-3), MCInteger(7)>>, "+"),
  DoIt(<<nilObject>>, "foo"),
  DoIt(<<MCInteger(4), trueObject>>, "*"),
  DoIt(<<System, MCInteger(3)>>, "log:"),
  \* stackManipulation of interpreter/stack.rs
  MCTest(<<MCInteger(1), MCInteger(2), MCInteger(3), MCInteger(4), MCInteger(5)>>, 4, 0,
         <<Instr("dup"), InstrWith("constant", MCInteger(3)), Instr("add"),
           Restack(5, <<1, 3, 4>>)>>),
  \* a loop, then two sends below each other
  MCTest(<<MCInteger(2), trueObject, falseObject>>, 2, 0,
         <<Restack(2, <<1, 2>>), Instr("dup"), Jump(0), InstrWith("constant", nilObject), Jump(0),
           Instr("drop"), Instr("drop"), InstrWith("constant", MCInteger(3)), Dispatch("+", 1),
           InstrWith("eq_constant", MCInteger(5)), Dispatch("foo", 0)>>),
  \* an early return, and local variables
  MCTest(<<MCInteger(2)>>, 0, 2,
         <<InstrWith("eq_class", ClassOperand(classUndefinedObject)), Jump(3), Instr("nop"),
           Restack(128 + 1, <<>>), Dispatch("foo", 0), Instr("nop")>>),
  MCTest(<<MCInteger(2), MCInteger(2)>>, 1, 0,
         <<Instr("eq"), Instr("pre_return"), Instr("drop")>>),
  MCTest(<<MCInteger(2), nilObject>>, 1, 0, <<Instr("add"), Instr("nop")>>),
  MCTest(<<from_f64(2), from_f64(3)>>, 1, 1,
         <<Instr("drop"), Instr("addF"), InstrWith("constant", from_f64(5)), Instr("eqF"), Jump(9),
           Instr("nop")>>) >>

MCImages == [t \in DOMAIN MCTests |->
  CASE t = 1 -> {Image(main, <<>>) : main \in Bodies}
    [] t = 2 -> {Image(<<Send1("keyed:", <<Self, Literal(2)>>)>>, keyed) : keyed \in Keyeds}
    [] t > 2 -> {Image(<<>>, <<>>)}]

(* The nodes of all trees, and how many objects each instruction finds.      *)
InImage(image) == UNION {{image[c][i] : i \in DOMAIN image[c]} : c \in DOMAIN image}
Below(nodes) == UNION {{n.parts[i] : i \in DOMAIN n.parts} : n \in nodes}
NodesTo[d \in 0 .. 8] ==
  IF d = 0
  THEN {Method("main", 0, "0", main) : main \in Bodies \cup {<<Send1("keyed:", <<Self, Literal(2)>>)>>}}
         \cup {Method("keyed:", 1, "0", keyed) : keyed \in Keyeds} \cup InImage(Image(<<>>, <<>>))
  ELSE LET nodes == NodesTo[d - 1] IN nodes \cup Below(nodes)
MCNodes == NodesTo[8]

Found == <<
  <<1>>, <<2>>, <<2>>, <<1>>, <<2>>, <<2>>, <<5, 6, 7, 6>>,
  <<3, 3, 4, 3, 4, 3, 2, 1, 2, 1, 1>>, <<3, 3, 2, 2, 1, 1>>, <<2, 1, 1>>, <<2, 1>>,
  <<3, 2, 1, 2, 1, 0>> >>

MCHeights == [t \in DOMAIN MCTests |-> [pc \in 0 .. Len(Found[t]) - 1 |-> Found[t][pc + 1]]]

ASSUME CompiledHere == DOMAIN Tests = DOMAIN MCTests => Compiled(MCNodes, MCHeights)

(* Two integers that differ, compared by a test like add_integers_dispatch.  *)
MCEqualityTests == <<DoIt(<<MCInteger(4), MCInteger(3)>>, "=")>>
MCEqualityImages == <<{Image(<<>>, <<>>)}>>
=============================================================================

---------------------------- MODULE Interpreter ----------------------------
(***************************************************************************)
(* The interpreter of the Rust VM (interpreter.rs): one thread that runs a *)
(* compiled method (a list of functions), whose sends run primitives or    *)
(* walk the trees of methods and blocks.                                   *)
(*                                                                         *)
(* The functions of the code call each other recursively; `calls` is that  *)
(* recursion as a stack, each entry a function and how far it got.         *)
(*                                                                         *)
(* The dispatch tables of the code hold no methods (addMethodToDispatch    *)
(* has no caller), so a send always reaches find_method.  No function      *)
(* returns NonLocalReturn, SpillReturn, MakeClosure or ExceptionSignaled,  *)
(* and no selector is an integer (a send to super): these arms are absent. *)
(* What prim_lookup answers is the subject of PrimitiveTable; a thread     *)
(* alone finds all of `loads`.                                             *)
(*                                                                         *)
(* An operator named after another one with a suffix is that one with a    *)
(* slip in it, for the runs that show a property to notice it.             *)
(***************************************************************************)
EXTENDS Primitives, FiniteSets

CONSTANTS
  Tests,        (* the stack, the method a test executes                    *)
  Images,       (* what is set up for it: for each class that has an entry  *)
                (* in dispatchTable the methods of its class object         *)
  NurseryRoom   (* how many closures fit the nursery                        *)

ASSUME NurseryAssumption == NurseryRoom \in Nat

VARIABLES
  classes,      (* the image                                                *)
  test,
  stack, self_index, frames,     (* the fields of Thread                    *)
  calls,
  returned,     (* what the last interpret_expression returned              *)
  closures,     (* the block of each closure allocated                      *)
  outcome       (* "running", "returned" or why it panicked                 *)

threadVars == <<stack, self_index, frames>>
vars == <<classes, test, threadVars, calls, returned, closures, outcome>>

(* A node of a tree: its class, a literal, a selector, the code of its      *)
(* primitive, and the nodes below it: of a send receiver and arguments, of  *)
(* a method or block the statements.                                        *)
Leaf(kind, value) ==
  [kind |-> kind, value |-> value, selector |-> [name |-> "", arity |-> 0],
   primitive |-> "0", parts |-> <<>>]

Entry(at, node, next) == [at |-> at, node |-> node, next |-> next]
current == calls[Len(calls)]
callers == pop(calls)
At(where) == outcome = "running" /\ current.at = where
Advanced == Entry(current.at, current.node, current.next + 1)

Calls(cs) ==
  /\ calls' = cs
  /\ outcome' = IF cs = <<>> THEN "returned" ELSE "running"

Panics(why) ==
  /\ outcome' = why
  /\ UNCHANGED calls

Init ==
  /\ test \in DOMAIN Tests
  /\ classes \in Images[test]
  /\ stack = Tests[test].stack
  /\ self_index = 0 /\ frames = <<>>
  /\ calls = <<>> /\ returned = FALSE /\ closures = <<>>
  /\ outcome = "idle"

-----------------------------------------------------------------------------
(* Methods: where self is, and the frames. Indices into the stack are from 0.*)

start_method_by_one(parameters) ==
  /\ frames' = push(frames, self_index)
  /\ self_index' = Len(stack) - parameters

start_method(parameters) ==
  /\ frames' = push(frames, self_index)
  /\ self_index' = Len(stack) - parameters - 1

end_method_kept ==
  /\ self_index' = top(frames)
  /\ UNCHANGED frames

end_method ==
  /\ self_index' = top(frames)
  /\ frames' = pop(frames)

return_with(o) == stack' = push(SubSeq(stack, 1, self_index), o)

(* Method::execute up to its loop; parameters are within what is pushed. *)
execute ==
  /\ outcome = "idle"
  /\ start_method(Tests[test].method.parameters)
  /\ stack' = stack \o [i \in 1 .. Tests[test].method.locals |-> nilObject]
  /\ Calls(<<Entry("code", Tests[test].method, 0)>>)
  /\ UNCHANGED <<classes, test, returned, closures>>

code(pc) == current.node.code[pc + 1]
last == Len(current.node.code) - 1
Dispatches(selector) == Entry("dispatch", [Leaf("", nilObject) EXCEPT !.selector = selector], 1)

(* One instruction that is not the last. *)
Instruction ==
  /\ At("code") /\ current.next < last
  /\ code(current.next).function # "dispatch"
  /\ LET r == Call(code(current.next).function, stack, code(current.next).operand)
     IN /\ stack' = r.stack
        /\ \/ r.result = "NormalReturn" /\ Calls(push(callers, Advanced))
           \/ r.result = "ReturnIsNext"
              /\ Calls(push(callers, Entry("tail", current.node, current.next + 1)))
           \/ r.result = "JumpTo" /\ Calls(push(callers, Entry("code", current.node, r.to)))
           \/ r.result = "panic" /\ Panics("primitive failed")
  /\ UNCHANGED <<classes, test, self_index, frames, returned, closures>>

InstructionSends ==
  /\ At("code") /\ current.next < last
  /\ code(current.next).function = "dispatch"
  /\ Calls(push(push(callers, Advanced), Dispatches(code(current.next).selector)))
  /\ UNCHANGED <<classes, test, threadVars, returned, closures>>

JumpedOut ==
  /\ At("code") /\ current.next > last
  /\ Panics("index out of bounds")
  /\ UNCHANGED <<classes, test, threadVars, returned, closures>>

(* The last instruction runs when the method has ended; its result would be *)
(* that of the method, which nobody reads here.                             *)
LastInstruction ==
  /\ At("tail") \/ (At("code") /\ current.next = last)
  /\ end_method
  /\ LET c == code(current.next)
     IN \/ /\ c.function = "dispatch"
           /\ Calls(push(callers, Dispatches(c.selector)))
           /\ UNCHANGED stack
        \/ /\ c.function # "dispatch"
           /\ LET r == Call(c.function, stack, c.operand)
              IN /\ stack' = r.stack
                 /\ IF r.result = "panic" THEN Panics("primitive failed") ELSE Calls(callers)
  /\ UNCHANGED <<classes, test, returned, closures>>

-----------------------------------------------------------------------------
(* Sends *)

receiver == atOffset(stack, current.node.selector.arity + 1)

prim_lookup(key) ==
  {loads[i][2] : i \in {j \in DOMAIN loads :
     loads[j][1] = key /\ \A k \in DOMAIN loads : k > j => loads[k][1] # key}}

(* The first method of the class itself; superclasses are not searched. *)
find_method(class, selector) ==
  {classes[class][i] : i \in {j \in DOMAIN classes[class] :
     /\ classes[class][j].selector = selector
     /\ \A k \in 1 .. j - 1 : classes[class][k].selector # selector}}

IsBlock == receiver.class = classBlockClosure
Understood ==
  ~IsBlock /\ receiver.class \in DOMAIN classes
  /\ find_method(receiver.class, current.node.selector) # {}

interpret_method(m) ==
  /\ start_method(current.node.selector.arity)
  /\ Calls(push(callers, Entry("body", m, 1)))
  /\ returned' = FALSE
  /\ UNCHANGED <<classes, test, stack, closures>>

dispatch_closure ==
  /\ At("dispatch") /\ IsBlock
  /\ closures[receiver.value].selector = current.node.selector
  /\ interpret_method(closures[receiver.value])

(* interpret_primitive_or_method *)
dispatch_primitive ==
  /\ At("dispatch") /\ Understood
  /\ \E m \in find_method(receiver.class, current.node.selector) :
     \E f \in prim_lookup(m.primitive) :
       LET r == Call(f, stack, nilObject)
       IN /\ stack' = r.stack
          /\ IF r.result = "panic" THEN Panics("primitive failed") ELSE Calls(callers)
  /\ returned' = FALSE
  /\ UNCHANGED <<classes, test, self_index, frames, closures>>

dispatch_method ==
  /\ At("dispatch") /\ Understood
  /\ \E m \in find_method(receiver.class, current.node.selector) :
       /\ prim_lookup(m.primitive) = {} /\ m.primitive = "0"
       /\ interpret_method(m)

dispatch_panics ==
  /\ At("dispatch")
  /\ \/ IsBlock /\ closures[receiver.value].selector # current.node.selector
        /\ Panics("dispatch_closure")
     \/ ~IsBlock /\ receiver.class \notin DOMAIN classes /\ Panics("no dispatch found")
     \/ ~IsBlock /\ receiver.class \in DOMAIN classes /\ ~Understood /\ Panics("find_method")
     \/ /\ Understood
        /\ \E m \in find_method(receiver.class, current.node.selector) :
             prim_lookup(m.primitive) = {} /\ m.primitive # "0"
        /\ Panics("missing primitive")
  /\ UNCHANGED <<classes, test, threadVars, returned, closures>>

-----------------------------------------------------------------------------
(* interpret_method and interpret_expression *)

Statement ==
  /\ At("body") /\ ~returned /\ current.next <= Len(current.node.parts)
  /\ Calls(push(push(callers, Advanced), Entry("expression", current.node.parts[current.next], 1)))
  /\ UNCHANGED <<classes, test, threadVars, returned, closures>>

FinishMethodSwapped ==
  /\ At("body") /\ (returned \/ current.next > Len(current.node.parts))
  /\ end_method
  /\ stack' = push(SubSeq(stack, 1, self_index'), top(stack))
  /\ Calls(callers)
  /\ returned' = FALSE
  /\ UNCHANGED <<classes, test, closures>>

FinishMethod ==
  /\ At("body") /\ (returned \/ current.next > Len(current.node.parts))
  /\ return_with(top(stack))
  /\ end_method
  /\ Calls(callers)
  /\ returned' = FALSE
  /\ UNCHANGED <<classes, test, closures>>

IsA(kind) == At("expression") /\ current.node.kind = kind

(* classReturn, and its end: what is below it has been interpreted. *)
Return ==
  /\ IsA("return")
  /\ Calls(push(push(callers, Entry("return", current.node, 1)),
                Entry("expression", current.node.parts[1], 1)))
  /\ UNCHANGED <<classes, test, threadVars, returned, closures>>

Returned ==
  /\ At("return")
  /\ Calls(callers)
  /\ returned' = TRUE
  /\ UNCHANGED <<classes, test, threadVars, closures>>

(* classSend: receiver and arguments, whatever they return, then dispatch. *)
Part ==
  /\ IsA("send") /\ current.next <= Len(current.node.parts)
  /\ Calls(push(push(callers, Advanced), Entry("expression", current.node.parts[current.next], 1)))
  /\ UNCHANGED <<classes, test, threadVars, returned, closures>>

Send ==
  /\ IsA("send") /\ current.next > Len(current.node.parts)
  /\ Calls(push(callers, Dispatches(current.node.selector)))
  /\ UNCHANGED <<classes, test, threadVars, returned, closures>>

Push(o) ==
  /\ stack' = push(stack, o)
  /\ Calls(callers)
  /\ returned' = FALSE
  /\ UNCHANGED <<classes, test, self_index, frames>>

Value == (IsA("literal") \/ IsA("object")) /\ Push(current.node.value) /\ UNCHANGED closures
push_self == IsA("self") /\ Push(stack[self_index + 1]) /\ UNCHANGED closures

(* classMethod: a closure of the block; its nursery is of one thread. *)
MakeClosure ==
  /\ IsA("method") /\ Len(closures) < NurseryRoom
  /\ closures' = push(closures, current.node)
  /\ Push(Object(classBlockClosure, Len(closures) + 1))

expression_panics ==
  /\ \/ IsA("load") /\ Panics("expression")
     \/ IsA("method") /\ Len(closures) >= NurseryRoom /\ Panics("collect_from not implemented")
  /\ UNCHANGED <<classes, test, threadVars, returned, closures>>

Step ==
  \/ execute \/ Instruction \/ InstructionSends \/ JumpedOut \/ LastInstruction
  \/ dispatch_closure \/ dispatch_primitive \/ dispatch_method \/ dispatch_panics
  \/ Statement \/ FinishMethod \/ Return \/ Returned \/ Part \/ Send
  \/ Value \/ push_self \/ MakeClosure \/ expression_panics

Next == Step

Spec == Init /\ [][Next]_vars /\ WF_vars(Step)

-----------------------------------------------------------------------------
Representable == -IntLimit .. IntLimit - 1

(* Types. An integer keeps to its 48 bits whatever is computed with it       *)
(* (object.rs, From<isize>).                                                 *)
TypeOK ==
  /\ \A i \in DOMAIN stack :
       /\ is_integer(stack[i]) => stack[i].value \in Representable
       /\ stack[i].class = classBlockClosure => stack[i].value \in DOMAIN closures
  /\ self_index \in Nat /\ \A i \in DOMAIN frames : frames[i] \in Nat
  /\ returned \in BOOLEAN
  /\ Len(closures) <= NurseryRoom

Activations == {i \in DOMAIN calls : calls[i].at \in {"code", "tail", "body"}}

(* Each method that runs has its frame, and nothing else has: start_method   *)
(* and end_method pair up over every return, jump and nested send, and at    *)
(* the end no frame is left and self is where it was (interpreter.rs:82-91). *)
FramesMatchCalls ==
  outcome \in {"running", "returned"} =>
    /\ Len(frames) = Cardinality(Activations)
    /\ (frames # <<>> => frames[1] = 0) /\ (frames = <<>> => self_index = 0)

Interpreting == outcome = "running" /\ \E i \in Activations : calls[i].at = "body"

(* The receivers of the methods that run lie one above the other in the      *)
(* stack, and that of the last is in it.                                     *)
SelfInRange ==
  Interpreting =>
    /\ self_index < Len(stack)
    /\ \A i \in DOMAIN frames : frames[i] <= self_index
    /\ \A i, j \in DOMAIN frames : i < j => frames[i] <= frames[j]

(* Types, and self of every activation where its receiver is.                *)
WellFormed == TypeOK /\ SelfInRange

(* Interpreting a method changes nothing in the stack below its receiver:    *)
(* not by its sends, not by what they pop, not by its end (return_with,      *)
(* interpreter.rs:105-108), and the receiver only then.                      *)
BelowUntouched ==
  [][Interpreting =>
       /\ \A i \in 1 .. self_index : i \in DOMAIN stack' /\ stack'[i] = stack[i]
       /\ (current.at # "body" =>
            self_index + 1 \in DOMAIN stack' /\ stack'[self_index + 1] = stack[self_index + 1])
    ]_vars

(* A test ends: with its result or with a panic.                             *)
Ends == <>(outcome \notin {"idle", "running"})

-----------------------------------------------------------------------------
(***************************************************************************)
(* What the two properties ask of a program, and nothing checks when it    *)
(* runs.  An image is made of the nodes of a set: a send has receiver and  *)
(* arguments, and a primitive takes no more than these.                    *)
(***************************************************************************)
Objects == [class : Int, value : Int]

Constants ==
  {o \in Objects : o.class # classBlockClosure /\ (is_integer(o) => o.value \in Representable)}

Instructions ==
  {"nop", "yourself", "dup", "drop", "log_", "pre_return", "constant", "eq_constant", "eq_class",
   "br_true", "restack", "addI", "subI", "mulI", "eqI", "addF", "eqF", "eq", "add"}

(* By how many objects a function may shorten the stack.  A comparison that  *)
(* finds a difference shortens it by less.                                   *)
Taken(f, o) ==
  CASE f \in {"dup", "constant"} -> -1
    [] f \in {"nop", "yourself", "pre_return", "eq_constant", "eq_class"} -> 0
    [] f = "restack" -> (o.discard % 128) - Len(o.keep)
    [] OTHER -> 1

Trees(Nodes) ==
  \A n \in Nodes :
    /\ n.parts \in Seq(Nodes) /\ n.value \in Constants /\ n.selector.arity \in Nat
    /\ n.kind = "send" => Len(n.parts) > n.selector.arity
    /\ n.kind = "return" => n.parts # <<>>

MethodsOf(Nodes) ==
  \A t \in DOMAIN Tests : \A image \in Images[t] : \A class \in DOMAIN image :
    /\ image[class] \in Seq(Nodes)
    /\ \A i \in DOMAIN image[class] : \A f \in prim_lookup(image[class][i].primitive) :
         Taken(f, nilObject) <= image[class][i].selector.arity

(* A compiled method finds at each instruction at least as many objects on   *)
(* the stack as `height` says, and what it sends and does not return is sent *)
(* to objects above its own receiver, or to that.                            *)
OperandOf(i) ==
  CASE i.function = "dispatch" -> i.selector.arity \in Nat
    [] i.function = "constant" -> i.operand.value \in Constants
    [] i.function = "br_true" -> i.operand.value.value \in Nat
    [] i.function = "restack" -> i.operand.discard \in Nat /\ i.operand.keep \in Seq(Nat \ {0})
    [] OTHER -> i.function \in Instructions

Checked(m, objects, height) ==
  LET instruction(pc) == m.code[pc + 1]
      end == Len(m.code) - 1
      self == Len(objects) - m.parameters - 1
  IN /\ objects \in Seq(Constants) /\ self \in Nat /\ m.parameters \in Nat /\ m.locals \in Nat
     /\ end \in Nat /\ height \in [0 .. end -> Nat] /\ height[0] <= Len(objects) + m.locals
     /\ \A pc \in 0 .. end :
          LET i == instruction(pc)
              left == height[pc] - (IF i.function = "dispatch" THEN i.selector.arity
                                    ELSE Taken(i.function, i.operand))
          IN /\ OperandOf(i)
             /\ pc < end => height[pc + 1] <= left
             /\ i.function = "dispatch" =>
                  /\ height[pc] > i.selector.arity
                  /\ pc < end => height[pc] > self + i.selector.arity
             /\ i.function = "br_true" /\ i.operand.value.value <= end =>
                  height[i.operand.value.value] <= left

Compiled(Nodes, heights) ==
  /\ Trees(Nodes) /\ MethodsOf(Nodes)
  /\ \A t \in DOMAIN Tests : Checked(Tests[t].method, Tests[t].stack, heights[t])
=============================================================================

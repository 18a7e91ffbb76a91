------------------------- MODULE InterpreterProofs -------------------------
(***************************************************************************)
(* The frames of the interpreter for every image, every test, every width  *)
(* of integers: whatever is sent and however it ends, the methods that run *)
(* and the frames match.                                                   *)
(*                                                                         *)
(* With regard to this a step is of one of four kinds: it starts a method, *)
(* ends one, does neither, or panics.                                      *)
(*                                                                         *)
(* Then the stack, for every program that is compiled as Compiled says:    *)
(* where self is, and what a method leaves alone.  At last the table of    *)
(* primitives, for any number of threads that load it.                     *)
(***************************************************************************)
EXTENDS Interpreter, PrimitiveTable, FiniteSetTheorems, SequenceTheorems, TLAPS

CONSTANTS
  Nodes,        (* the nodes all trees are made of                          *)
  heights       (* of the method of each test, for each instruction how many*)
                (* objects it finds on the stack at least                   *)

Methods == {"code", "tail", "body"}
One(e) == IF e.at \in Methods THEN 1 ELSE 0
ActivationsOf(cs) == {i \in DOMAIN cs : cs[i].at \in Methods}
Running(cs) == Cardinality(ActivationsOf(cs))
IsSequence(s) == \E S : s \in Seq(S)

FrameInv ==
  outcome \in {"idle", "running", "returned"} =>
    /\ IsSequence(calls) /\ IsSequence(frames)
    /\ calls = <<>> <=> outcome # "running"
    /\ Len(frames) = Running(calls)
    /\ frames # <<>> => frames[1] = 0
    /\ frames = <<>> => self_index = 0

-----------------------------------------------------------------------------
LEMMA EmptyRunning == IsSequence(<<>>) /\ ActivationsOf(<<>>) = {} /\ Running(<<>>) = 0
<1>1. <<>> \in Seq({}) OBVIOUS
<1>2. ActivationsOf(<<>>) = {} BY DEF ActivationsOf
<1>3. QED BY <1>1, <1>2, FS_EmptySet DEF IsSequence, Running

LEMMA FiniteActivations ==
  ASSUME NEW S, NEW cs \in Seq(S)
  PROVE  IsFiniteSet(ActivationsOf(cs)) /\ Running(cs) \in Nat
<1>1. IsFiniteSet(1 .. Len(cs)) BY FS_Interval
<1>2. ActivationsOf(cs) \subseteq 1 .. Len(cs) BY DEF ActivationsOf
<1>3. IsFiniteSet(ActivationsOf(cs)) BY <1>1, <1>2, FS_Subset
<1>4. QED BY <1>3, FS_CardinalityType DEF Running

LEMMA RunningPush ==
  ASSUME NEW cs, IsSequence(cs), NEW e
  PROVE  /\ IsSequence(push(cs, e)) /\ push(cs, e) # <<>>
         /\ Running(push(cs, e)) = Running(cs) + One(e)
<1>1. PICK S : cs \in Seq(S) BY DEF IsSequence
<1>2. /\ push(cs, e) \in Seq(S \cup {e}) /\ push(cs, e) # <<>>
      /\ DOMAIN push(cs, e) = 1 .. Len(cs) + 1
      /\ \A i \in 1 .. Len(cs) : push(cs, e)[i] = cs[i]
      /\ push(cs, e)[Len(cs) + 1] = e
      /\ Len(cs) \in Nat /\ DOMAIN cs = 1 .. Len(cs)
  <2>1. cs \in Seq(S \cup {e}) BY <1>1
  <2>2. QED BY <2>1 DEF push
<1>3. CASE e.at \in Methods
  <2>1. ActivationsOf(push(cs, e)) = ActivationsOf(cs) \cup {Len(cs) + 1}
    BY <1>2, <1>3 DEF ActivationsOf
  <2>2. Len(cs) + 1 \notin ActivationsOf(cs) BY <1>2 DEF ActivationsOf
  <2>3. IsFiniteSet(ActivationsOf(cs)) BY <1>1, FiniteActivations
  <2>4. QED BY <1>2, <1>3, <2>1, <2>2, <2>3, FS_AddElement DEF Running, One, IsSequence
<1>4. CASE e.at \notin Methods
  <2>1. ActivationsOf(push(cs, e)) = ActivationsOf(cs) BY <1>2, <1>4 DEF ActivationsOf
  <2>2. Running(cs) \in Nat BY <1>1, FiniteActivations
  <2>3. QED BY <1>2, <1>4, <2>1, <2>2 DEF Running, One, IsSequence
<1>5. QED BY <1>3, <1>4

LEMMA PopFacts ==
  ASSUME NEW S, NEW s \in Seq(S), s # <<>>
  PROVE  /\ pop(s) \in Seq(S) /\ Len(pop(s)) = Len(s) - 1
         /\ pop(s) # <<>> => pop(s)[1] = s[1]
         /\ pop(s) = <<>> => top(s) = s[1]
<1>1. /\ pop(s) \in Seq(S) /\ Len(pop(s)) = Len(s) - 1 /\ Len(s) \in Nat \ {0}
      /\ \A i \in 1 .. Len(s) - 1 : pop(s)[i] = s[i]
  <2>1. Len(s) \in Nat \ {0} OBVIOUS
  <2>2. SubSeq(s, 1, Len(s) - 1) \in Seq(S) BY <2>1
  <2>3. Len(SubSeq(s, 1, Len(s) - 1)) = Len(s) - 1
    <3>1. 1 \in Int /\ Len(s) - 1 \in Int BY <2>1
    <3>2. \A i \in 1 .. Len(s) - 1 : s[i] \in S BY <2>1
    <3>3. Len(SubSeq(s, 1, Len(s) - 1)) =
            IF 1 <= Len(s) - 1 THEN (Len(s) - 1) - 1 + 1 ELSE 0
      BY <3>1, <3>2, SubSeqProperties
    <3> DEFINE n == Len(s)  t == SubSeq(s, 1, Len(s) - 1)
    <3>4. n \in Nat \ {0} BY <2>1
    <3>5. Len(t) = IF 1 <= n - 1 THEN (n - 1) - 1 + 1 ELSE 0 BY <3>3
    <3> HIDE DEF n, t
    <3>6. Len(t) = n - 1 BY <3>4, <3>5
    <3>7. QED BY <3>6 DEF n, t
  <2>4. \A i \in 1 .. Len(s) - 1 : SubSeq(s, 1, Len(s) - 1)[i] = s[i] BY <2>1
  <2>5. QED BY <2>1, <2>2, <2>3, <2>4 DEF pop
<1>2. ASSUME pop(s) # <<>> PROVE pop(s)[1] = s[1]
  <2>1. Len(pop(s)) # 0 BY <1>1, <1>2
  <2>2. QED BY <1>1, <2>1
<1>3. ASSUME pop(s) = <<>> PROVE top(s) = s[1]
  <2>1. Len(s) = 1 BY <1>1, <1>3
  <2>2. QED BY <2>1 DEF top
<1>4. QED BY <1>1, <1>2, <1>3

LEMMA RunningPop ==
  ASSUME NEW cs, IsSequence(cs), cs # <<>>
  PROVE  /\ IsSequence(pop(cs))
         /\ Running(cs) = Running(pop(cs)) + One(top(cs)) /\ Running(pop(cs)) \in Nat
<1>1. PICK S : cs \in Seq(S) BY DEF IsSequence
<1>2. /\ pop(cs) \in Seq(S) /\ Len(cs) \in Nat \ {0}
      /\ cs = push(pop(cs), top(cs))
  BY <1>1 DEF pop, top, push
<1>3. IsSequence(pop(cs)) BY <1>2 DEF IsSequence
<1>4. Running(cs) = Running(pop(cs)) + One(top(cs)) BY <1>2, <1>3, RunningPush
<1>5. Running(pop(cs)) \in Nat BY <1>2, FiniteActivations
<1>6. QED BY <1>3, <1>4, <1>5

-----------------------------------------------------------------------------
(* Kinds of steps. *)
Continues ==
  IsSequence(calls') /\ outcome' = IF calls' = <<>> THEN "returned" ELSE "running"
Neither == Continues /\ UNCHANGED <<frames, self_index>> /\ Running(calls') = Running(calls)
Starts == Continues /\ frames' = push(frames, self_index) /\ Running(calls') = Running(calls) + 1
Finishes ==
  /\ Continues /\ end_method
  /\ Running(calls) = Running(calls') + 1 /\ Running(calls') \in Nat
Fails == outcome' \notin {"idle", "running", "returned"}

LEMMA KindsKeep ==
  ASSUME FrameInv, outcome \in {"idle", "running", "returned"},
         Neither \/ Starts \/ Finishes \/ Fails
  PROVE  FrameInv'
<1>1. CASE Fails BY <1>1 DEF Fails, FrameInv
<1>2. CASE Neither BY <1>2 DEF Neither, Continues, FrameInv
<1> DEFINE Shape == /\ IsSequence(frames') /\ Len(frames') = Running(calls')
                    /\ frames' # <<>> => frames'[1] = 0
                    /\ frames' = <<>> => self_index' = 0
<1>3. CASE Starts
  <2>1. PICK S : frames \in Seq(S) BY DEF FrameInv, IsSequence
  <2>2. frames \in Seq(S \cup {self_index}) BY <2>1
  <2>3. /\ frames' \in Seq(S \cup {self_index}) /\ Len(frames') = Len(frames) + 1
        /\ frames' # <<>> /\ frames'[1] = IF frames = <<>> THEN self_index ELSE frames[1]
    BY <1>3, <2>2 DEF Starts, push
  <2>4. Shape BY <1>3, <2>3 DEF Starts, FrameInv, IsSequence
  <2>5. QED BY <1>3, <2>4 DEF Starts, Continues, FrameInv
<1>4. CASE Finishes
  <2>1. PICK S : frames \in Seq(S) BY DEF FrameInv, IsSequence
  <2>2. frames # <<>> /\ Len(frames) \in Nat \ {0} BY <1>4, <2>1 DEF Finishes, FrameInv
  <2>0. frames' = pop(frames) /\ self_index' = top(frames)
    BY <1>4 DEF Finishes, end_method
  <2>3. /\ frames' \in Seq(S) /\ Len(frames') = Len(frames) - 1
        /\ frames' # <<>> => frames'[1] = frames[1]
        /\ frames' = <<>> => self_index' = frames[1]
    BY <2>0, <2>1, <2>2, PopFacts
  <2>4. Len(frames') = Running(calls')
    BY <1>4, <2>2, <2>3 DEF Finishes, FrameInv
  <2>5. Shape BY <2>2, <2>3, <2>4 DEF FrameInv, IsSequence
  <2>6. QED BY <1>4, <2>5 DEF Finishes, Continues, FrameInv
<1>5. QED BY <1>1, <1>2, <1>3, <1>4

(* What becomes of the calls: the current function returns (no next), goes   *)
(* on as e, or as e that calls f.                                            *)
LEMMA CallsEffects ==
  ASSUME FrameInv, outcome = "running"
  PROVE  /\ Running(calls) = Running(callers) + One(current) /\ Running(callers) \in Nat
         /\ Calls(callers) => Continues /\ Running(calls') = Running(callers)
         /\ \A e : Calls(push(callers, e)) =>
              Continues /\ Running(calls') = Running(callers) + One(e)
         /\ \A e, f : Calls(push(push(callers, e), f)) =>
              Continues /\ Running(calls') = Running(callers) + One(e) + One(f)
<1>1. IsSequence(calls) /\ calls # <<>> BY DEF FrameInv
<1>2. /\ IsSequence(callers) /\ Running(callers) \in Nat
      /\ Running(calls) = Running(callers) + One(current)
  BY <1>1, RunningPop DEF callers, current, top
<1>3. ASSUME NEW e PROVE IsSequence(push(callers, e)) /\ Running(push(callers, e)) = Running(callers) + One(e)
  BY <1>2, RunningPush
<1>4. ASSUME NEW e, NEW f
      PROVE  /\ IsSequence(push(push(callers, e), f))
             /\ Running(push(push(callers, e), f)) = Running(callers) + One(e) + One(f)
  BY <1>3, RunningPush
<1>5. QED BY <1>2, <1>3, <1>4 DEF Calls, Continues

LEMMA OneOf ==
  /\ \A n, k : One(Entry("expression", n, k)) = 0 /\ One(Entry("dispatch", n, k)) = 0
  /\ \A n, k : One(Entry("return", n, k)) = 0
  /\ \A n, k : One(Entry("body", n, k)) = 1 /\ One(Entry("code", n, k)) = 1
  /\ \A n, k : One(Entry("tail", n, k)) = 1
  /\ One(Advanced) = One(current)
  /\ \A s : One(Dispatches(s)) = 0
BY DEF One, Entry, Methods, Advanced, Dispatches

LEMMA AtOne ==
  ASSUME NEW w, At(w)
  PROVE  outcome = "running" /\ One(current) = IF w \in Methods THEN 1 ELSE 0
BY DEF At, One

LEMMA ExecuteKind == FrameInv /\ execute => Starts
<1> SUFFICES ASSUME FrameInv, execute PROVE Starts
  OBVIOUS
<1> DEFINE e == Entry("code", Tests[test].method, 0)
<1>1. calls = <<>> BY DEF FrameInv, execute
<1>2. Calls(<<e>>) BY DEF execute
<1>3. <<e>> = push(<<>>, e) BY DEF push
<1>4. IsSequence(<<e>>) /\ Running(<<e>>) = 0 + One(e) /\ <<e>> # <<>>
  BY <1>3, EmptyRunning, RunningPush
<1>5. One(e) = 1 BY OneOf
<1> HIDE DEF e
<1>6. Continues /\ Running(calls') = 1 BY <1>2, <1>4, <1>5 DEF Calls, Continues
<1>7. QED BY <1>1, <1>6, EmptyRunning DEF execute, start_method, Starts

LEMMA InstructionKind == FrameInv /\ Instruction => Neither \/ Fails
<1> SUFFICES ASSUME FrameInv, Instruction PROVE Neither \/ Fails
  OBVIOUS
<1>1. At("code") /\ UNCHANGED <<frames, self_index>> BY DEF Instruction
<1>2. \/ \E e : Calls(push(callers, e)) /\ One(e) = 1
      \/ Panics("primitive failed")
  <2>1. One(current) = 1 BY <1>1, AtOne DEF Methods
  <2>2. QED BY <2>1, OneOf DEF Instruction
<1>3. CASE Panics("primitive failed") BY <1>3 DEF Panics, Fails
<1>4. ASSUME NEW e, Calls(push(callers, e)), One(e) = 1 PROVE Neither
  <2>1. Continues /\ Running(calls') = Running(callers) + 1
    BY <1>1, <1>4, CallsEffects DEF At
  <2>2. Running(calls) = Running(callers) + 1
    BY <1>1, AtOne, CallsEffects DEF Methods
  <2>3. QED BY <1>1, <2>1, <2>2 DEF Neither
<1>5. QED BY <1>2, <1>3, <1>4

(* Steps that push what is no method, or drop it. *)
LEMMA CallKinds ==
  ASSUME FrameInv, NEW w, At(w), UNCHANGED <<frames, self_index>>
  PROVE  /\ w \notin Methods /\ Calls(callers) => Neither
         /\ \A e : w \notin Methods /\ One(e) = 0 /\ Calls(push(callers, e)) => Neither
         /\ \A e, f : One(e) = One(current) /\ One(f) = 0 /\ Calls(push(push(callers, e), f))
              => Neither
<1>1. outcome = "running" /\ One(current) = IF w \in Methods THEN 1 ELSE 0 BY AtOne
<1>2. QED BY <1>1, CallsEffects DEF Neither

LEMMA LastKind == FrameInv /\ LastInstruction => Finishes \/ Fails
<1> SUFFICES ASSUME FrameInv, LastInstruction PROVE Finishes \/ Fails
  OBVIOUS
<1>1. outcome = "running" /\ One(current) = 1 /\ end_method
  BY AtOne DEF LastInstruction, Methods
<1>2. \/ \E s : Calls(push(callers, Dispatches(s)))
      \/ Calls(callers) \/ Panics("primitive failed")
  BY DEF LastInstruction
<1>3. CASE Panics("primitive failed") BY <1>3 DEF Panics, Fails
<1>4. CASE Calls(callers) BY <1>1, <1>4, CallsEffects DEF Finishes
<1>5. ASSUME NEW s, Calls(push(callers, Dispatches(s))) PROVE Finishes
  <2>1. Running(calls') = Running(callers) + One(Dispatches(s)) /\ Continues
    BY <1>1, <1>5, CallsEffects
  <2>2. QED BY <1>1, <2>1, OneOf, CallsEffects DEF Finishes
<1>6. QED BY <1>2, <1>3, <1>4, <1>5

LEMMA MethodKind ==
  ASSUME FrameInv, At("dispatch"), NEW n, interpret_method(n)
  PROVE  Starts
<1>1. outcome = "running" /\ One(current) = 0 BY AtOne DEF Methods
<1>2. Calls(push(callers, Entry("body", n, 1))) /\ frames' = push(frames, self_index)
  BY DEF interpret_method, start_method
<1>3. Continues /\ Running(calls') = Running(callers) + One(Entry("body", n, 1))
  BY <1>1, <1>2, CallsEffects
<1>4. QED BY <1>1, <1>2, <1>3, OneOf, CallsEffects DEF Starts

LEMMA StepKinds == FrameInv /\ Next => Neither \/ Starts \/ Finishes \/ Fails
<1> SUFFICES ASSUME FrameInv, Next PROVE Neither \/ Starts \/ Finishes \/ Fails
  OBVIOUS
<1>1. CASE execute BY <1>1, ExecuteKind
<1>2. CASE Instruction BY <1>2, InstructionKind
<1>3. CASE InstructionSends
  <2>1. At("code") /\ UNCHANGED <<frames, self_index>> BY <1>3 DEF InstructionSends, threadVars
  <2>2. \E s : Calls(push(push(callers, Advanced), Dispatches(s))) BY <1>3 DEF InstructionSends
  <2>3. QED BY <2>1, <2>2, CallKinds, OneOf
<1>4. CASE JumpedOut BY <1>4 DEF JumpedOut, Panics, Fails
<1>5. CASE LastInstruction BY <1>5, LastKind
<1>6. CASE dispatch_closure
  <2>1. At("dispatch") /\ interpret_method(closures[receiver.value]) BY <1>6 DEF dispatch_closure
  <2>2. QED BY <2>1, MethodKind
<1>7. CASE dispatch_primitive
  <2>1. /\ At("dispatch") /\ UNCHANGED <<frames, self_index>>
        /\ Calls(callers) \/ Panics("primitive failed")
    BY <1>7 DEF dispatch_primitive
  <2>2. CASE Panics("primitive failed") BY <2>2 DEF Panics, Fails
  <2>3. CASE Calls(callers) BY <2>1, <2>3, CallKinds DEF Methods
  <2>4. QED BY <2>1, <2>2, <2>3
<1>8. CASE dispatch_method
  <2>1. At("dispatch") /\ \E n : interpret_method(n) BY <1>8 DEF dispatch_method
  <2>2. QED BY <2>1, MethodKind
<1>9. CASE dispatch_panics BY <1>9 DEF dispatch_panics, Panics, Fails
<1>10. CASE Statement
  <2>1. At("body") /\ UNCHANGED <<frames, self_index>> BY <1>10 DEF Statement, threadVars
  <2>2. \E n : Calls(push(push(callers, Advanced), Entry("expression", n, 1)))
    BY <1>10 DEF Statement
  <2>3. QED BY <2>1, <2>2, CallKinds, OneOf
<1>11. CASE FinishMethod
  <2>1. At("body") /\ end_method /\ Calls(callers) BY <1>11 DEF FinishMethod
  <2>2. outcome = "running" /\ One(current) = 1 BY <2>1, AtOne DEF Methods
  <2>3. QED BY <2>1, <2>2, CallsEffects DEF Finishes
<1>12. CASE Return
  <2>1. At("expression") /\ UNCHANGED <<frames, self_index>> BY <1>12 DEF Return, IsA, threadVars
  <2>2. \E n, o : Calls(push(push(callers, Entry("return", n, 1)), Entry("expression", o, 1)))
    BY <1>12 DEF Return
  <2>3. One(current) = 0 BY <2>1, AtOne DEF Methods
  <2>4. QED BY <2>1, <2>2, <2>3, CallKinds, OneOf
<1>13. CASE Returned
  <2>1. At("return") /\ UNCHANGED <<frames, self_index>> /\ Calls(callers)
    BY <1>13 DEF Returned, threadVars
  <2>2. QED BY <2>1, CallKinds DEF Methods
<1>14. CASE Part
  <2>1. At("expression") /\ UNCHANGED <<frames, self_index>> BY <1>14 DEF Part, IsA, threadVars
  <2>2. \E n : Calls(push(push(callers, Advanced), Entry("expression", n, 1))) BY <1>14 DEF Part
  <2>3. QED BY <2>1, <2>2, CallKinds, OneOf
<1>15. CASE Send
  <2>1. At("expression") /\ UNCHANGED <<frames, self_index>> BY <1>15 DEF Send, IsA, threadVars
  <2>2. \E s : Calls(push(callers, Dispatches(s))) BY <1>15 DEF Send
  <2>3. QED BY <2>1, <2>2, CallKinds, OneOf DEF Methods
<1>16. CASE Value \/ push_self \/ MakeClosure
  <2>1. At("expression") /\ UNCHANGED <<frames, self_index>> /\ Calls(callers)
    BY <1>16 DEF Value, push_self, MakeClosure, Push, IsA
  <2>2. QED BY <2>1, CallKinds DEF Methods
<1>17. CASE expression_panics BY <1>17 DEF expression_panics, Panics, Fails
<1>18. QED
  BY <1>1, <1>2, <1>3, <1>4, <1>5, <1>6, <1>7, <1>8, <1>9, <1>10, <1>11, <1>12, <1>13, <1>14,
     <1>15, <1>16, <1>17 DEF Next, Step

LEMMA StepsNeedLife == Next => outcome \in {"idle", "running"}
BY DEF Next, Step, execute, Instruction, InstructionSends, JumpedOut, LastInstruction,
       dispatch_closure, dispatch_primitive, dispatch_method, dispatch_panics, Statement,
       FinishMethod, Return, Returned, Part, Send, Value, push_self, MakeClosure,
       expression_panics, IsA, At

LEMMA FrameSteps == FrameInv /\ [Next]_vars => FrameInv'
<1> SUFFICES ASSUME FrameInv, [Next]_vars PROVE FrameInv'
  OBVIOUS
<1>1. CASE Next BY <1>1, StepKinds, StepsNeedLife, KindsKeep
<1>2. CASE UNCHANGED vars
  BY <1>2 DEF vars, threadVars, FrameInv, IsSequence, Running, ActivationsOf
<1>3. QED BY <1>1, <1>2

LEMMA FrameInit == Init => FrameInv
BY EmptyRunning DEF Init, FrameInv

LEMMA FrameInvImplies == FrameInv => FramesMatchCalls
<1>1. Activations = ActivationsOf(calls) BY DEF Activations, ActivationsOf, Methods
<1>2. QED BY <1>1 DEF FrameInv, FramesMatchCalls, Running

(* As many frames as methods that run, the first saying that nothing ran     *)
(* before it, whatever images, tests and integers there are.                 *)
THEOREM FramesMatch == Spec => []FramesMatchCalls
<1>1. FrameInv => FramesMatchCalls BY FrameInvImplies
<1>2. QED BY FrameInit, FrameSteps, <1>1, PTL DEF Spec

(* When a test has returned, the thread is as no method had run: no frame is *)
(* left, and self is where it was.                                           *)
THEOREM Balanced == Spec => [](outcome = "returned" => frames = <<>> /\ self_index = 0)
<1>1. ASSUME FrameInv, outcome = "returned" PROVE frames = <<>> /\ self_index = 0
  <2>1. calls = <<>> /\ Len(frames) = Running(calls) /\ IsSequence(frames)
    BY <1>1 DEF FrameInv
  <2>2. Len(frames) = 0 BY <2>1, EmptyRunning
  <2>3. frames = <<>> BY <2>1, <2>2 DEF IsSequence
  <2>4. QED BY <1>1, <2>3 DEF FrameInv
<1>2. FrameInv => (outcome = "returned" => frames = <<>> /\ self_index = 0) BY <1>1
<1>3. QED BY FrameInit, FrameSteps, <1>2, PTL DEF Spec

-----------------------------------------------------------------------------
Values(n) ==
  {o \in Objects : /\ is_integer(o) => o.value \in Representable
                   /\ o.class = classBlockClosure => o.value \in 1 .. n}

CodeOf(t) == Tests[t].method
EndOf(t) == Len(CodeOf(t).code) - 1
SelfOf(t) == Len(Tests[t].stack) - CodeOf(t).parameters - 1

(* A function that runs above e keeps to what is above n. *)
Above(t, e, b, n) ==
  /\ e.at \in {"code", "body", "expression", "return"} /\ b <= n
  /\ e.at = "body" => b + 1 <= n
  /\ e.at = "expression" => b + e.next <= n + 2
  /\ e.at = "code" /\ e.next <= EndOf(t) => heights[t][e.next] <= n + 1

(* What e, going on, finds on a stack of l objects. *)
Ready(t, e, b, l) ==
  /\ e.at = "expression" => b + e.next <= l + 1
  /\ e.at \in {"body", "return"} => b + 1 <= l
  /\ e.at = "dispatch" => b + e.node.selector.arity + 1 <= l
  /\ e.at \in {"code", "tail"} /\ e.next <= EndOf(t) => heights[t][e.next] <= l

Holds(t, e, b) ==
  /\ e.at \in {"code", "tail", "body", "expression", "return", "dispatch"} /\ e.next \in Nat
  /\ e.at \in {"body", "expression", "return"} => e.node \in Nodes /\ e.next >= 1
  /\ e.at = "dispatch" => e.node.selector.arity \in Nat
  /\ e.at \in {"code", "tail"} => e.node = CodeOf(t) /\ b = SelfOf(t)
  /\ e.at = "tail" => e.next <= EndOf(t)

Chain(t, cs, b) ==
  /\ b \in Seq(Nat) /\ Len(b) = Len(cs)
  /\ \A j \in 1 .. Len(cs) : \A i \in 1 .. j - 1 : Above(t, cs[i], b[i], b[j])
  /\ \A i \in 1 .. Len(cs) : Holds(t, cs[i], b[i])
  /\ \A i \in 2 .. Len(cs) : cs[i].at \notin {"code", "tail"}
  /\ \A i \in 1 .. Len(cs) :
       cs[i].at \in {"expression", "return"} => \E j \in 1 .. i - 1 : cs[j].at = "body"

(* The methods that run are at the places `act`, with their frames. *)
Ordered(act, cs, b, fs, s) ==
  /\ act \in Seq(Nat) /\ Len(act) = Len(fs)
  /\ \A i, j \in 1 .. Len(act) : i < j => act[i] < act[j]
  /\ {act[i] : i \in 1 .. Len(act)} = ActivationsOf(cs)
  /\ fs # <<>> => fs[1] = 0
  /\ fs = <<>> => s = 0
  /\ \A k \in 1 .. Len(act) : b[act[k]] = IF k = Len(act) THEN s ELSE fs[k + 1]

Order(cs, b, fs, s) == \E act : Ordered(act, cs, b, fs, s)

-----------------------------------------------------------------------------
LEMMA SeqIs == ASSUME NEW S, NEW s \in Seq(S) PROVE IsSequence(s)
BY DEF IsSequence

LEMMA PushAt ==
  ASSUME NEW cs, IsSequence(cs), NEW e
  PROVE  /\ IsSequence(push(cs, e)) /\ Len(push(cs, e)) = Len(cs) + 1 /\ push(cs, e) # <<>>
         /\ Len(cs) \in Nat /\ DOMAIN cs = 1 .. Len(cs)
         /\ \A i \in 1 .. Len(cs) : push(cs, e)[i] = cs[i]
         /\ push(cs, e)[Len(cs) + 1] = e /\ top(push(cs, e)) = e
<1>1. PICK S : cs \in Seq(S) BY DEF IsSequence
<1>2. cs \in Seq(S \cup {e}) BY <1>1
<1>3. push(cs, e) \in Seq(S \cup {e}) BY <1>2 DEF push
<1>4. /\ Len(push(cs, e)) = Len(cs) + 1 /\ Len(cs) \in Nat /\ push(cs, e) # <<>>
      /\ DOMAIN cs = 1 .. Len(cs)
      /\ \A i \in 1 .. Len(cs) : push(cs, e)[i] = cs[i]
      /\ push(cs, e)[Len(cs) + 1] = e
  BY <1>2 DEF push
<1>5. QED BY <1>3, <1>4 DEF IsSequence, top

LEMMA PopAt ==
  ASSUME NEW cs, IsSequence(cs), cs # <<>>
  PROVE  /\ IsSequence(pop(cs)) /\ Len(pop(cs)) = Len(cs) - 1 /\ Len(cs) \in Nat \ {0}
         /\ \A i \in 1 .. Len(cs) - 1 : pop(cs)[i] = cs[i]
         /\ cs = push(pop(cs), top(cs)) /\ top(cs) = cs[Len(cs)] /\ DOMAIN cs = 1 .. Len(cs)
<1>1. PICK S : cs \in Seq(S) BY DEF IsSequence
<1>2. /\ pop(cs) \in Seq(S) /\ Len(cs) \in Nat \ {0} /\ DOMAIN cs = 1 .. Len(cs)
      /\ cs = push(pop(cs), top(cs))
  BY <1>1 DEF pop, top, push
<1>3. Len(pop(cs)) = Len(cs) - 1 BY <1>1, PopFacts
<1>4. \A i \in 1 .. Len(pop(cs)) : push(pop(cs), top(cs))[i] = pop(cs)[i]
  BY <1>2, PushAt DEF IsSequence
<1>5. QED BY <1>2, <1>3, <1>4 DEF IsSequence, top

LEMMA ActivationsPush ==
  ASSUME NEW cs, IsSequence(cs), NEW e
  PROVE  ActivationsOf(push(cs, e)) =
           ActivationsOf(cs) \cup (IF e.at \in Methods THEN {Len(cs) + 1} ELSE {})
<1>1. DOMAIN push(cs, e) = 1 .. Len(cs) + 1
  BY PushAt, PushAt DEF IsSequence
<1>2. QED BY <1>1, PushAt DEF ActivationsOf

LEMMA ChainPopped ==
  ASSUME NEW t, NEW cs, IsSequence(cs), cs # <<>>, NEW b, Chain(t, cs, b)
  PROVE  Chain(t, pop(cs), pop(b)) /\ pop(b) \in Seq(Nat) /\ top(b) = b[Len(cs)]
<1>1. /\ Len(pop(cs)) = Len(cs) - 1 /\ Len(cs) \in Nat \ {0}
      /\ \A i \in 1 .. Len(cs) - 1 : pop(cs)[i] = cs[i]
  BY PopAt
<1>2. b \in Seq(Nat) /\ Len(b) = Len(cs) /\ b # <<>> BY <1>1 DEF Chain
<1>3. /\ pop(b) \in Seq(Nat) /\ Len(pop(b)) = Len(b) - 1
      /\ \A i \in 1 .. Len(b) - 1 : pop(b)[i] = b[i]
      /\ top(b) = b[Len(b)]
  BY <1>2, PopAt, PopFacts DEF IsSequence
<1>4. \A j \in 1 .. Len(cs) - 1 : pop(b)[j] = b[j] /\ pop(cs)[j] = cs[j] /\ j \in 1 .. Len(cs)
  BY <1>1, <1>2, <1>3
<1>5. \A j \in 1 .. Len(cs) - 1 : \A i \in 1 .. j - 1 : i \in 1 .. Len(cs) - 1
  BY <1>1
<1>6. \A j \in 1 .. Len(pop(cs)) : \A i \in 1 .. j - 1 : Above(t, pop(cs)[i], pop(b)[i], pop(b)[j])
  BY <1>1, <1>4, <1>5 DEF Chain
<1>7. \A i \in 1 .. Len(pop(cs)) : Holds(t, pop(cs)[i], pop(b)[i])
  BY <1>1, <1>4 DEF Chain
<1>8. \A i \in 2 .. Len(pop(cs)) : pop(cs)[i].at \notin {"code", "tail"}
  BY <1>1, <1>4 DEF Chain
<1>9. Len(pop(b)) = Len(pop(cs)) /\ top(b) = b[Len(cs)] BY <1>1, <1>2, <1>3
<1>10. ASSUME NEW i \in 1 .. Len(pop(cs)), pop(cs)[i].at \in {"expression", "return"}
       PROVE  \E j \in 1 .. i - 1 : pop(cs)[j].at = "body"
  <2>1. i \in 1 .. Len(cs) - 1 BY <1>1
  <2>2. i \in 1 .. Len(cs) /\ cs[i].at \in {"expression", "return"} BY <1>4, <1>10, <2>1
  <2>3. PICK j \in 1 .. i - 1 : cs[j].at = "body" BY <2>2 DEF Chain
  <2>4. QED BY <1>4, <1>5, <2>1, <2>3
<1>11. QED BY <1>3, <1>6, <1>7, <1>8, <1>9, <1>10 DEF Chain

LEMMA ChainPushed ==
  ASSUME NEW t, NEW cs, IsSequence(cs), NEW b, Chain(t, cs, b), NEW e, NEW m \in Nat,
         Holds(t, e, m), cs # <<>> => e.at \notin {"code", "tail"},
         \A i \in 1 .. Len(cs) : Above(t, cs[i], b[i], m),
         e.at \in {"expression", "return"} => \E j \in 1 .. Len(cs) : cs[j].at = "body"
  PROVE  Chain(t, push(cs, e), push(b, m)) /\ top(push(b, m)) = m
<1>1. /\ Len(push(cs, e)) = Len(cs) + 1 /\ Len(cs) \in Nat
      /\ \A i \in 1 .. Len(cs) : push(cs, e)[i] = cs[i]
      /\ push(cs, e)[Len(cs) + 1] = e
  BY PushAt
<1>2. b \in Seq(Nat) /\ Len(b) = Len(cs) BY DEF Chain
<1>3. push(b, m) \in Seq(Nat) BY <1>2 DEF push
<1>4. /\ Len(push(b, m)) = Len(b) + 1 /\ push(b, m)[Len(b) + 1] = m /\ top(push(b, m)) = m
      /\ \A i \in 1 .. Len(b) : push(b, m)[i] = b[i]
  BY <1>2, PushAt DEF IsSequence
<1>5. Len(cs) >= 1 => e.at \notin {"code", "tail"}
  BY <1>1, EmptySeq
<1>6. \A j \in 1 .. Len(cs) + 1 : \A i \in 1 .. j - 1 :
        Above(t, push(cs, e)[i], push(b, m)[i], push(b, m)[j])
  <2> SUFFICES ASSUME NEW j \in 1 .. Len(cs) + 1, NEW i \in 1 .. j - 1
               PROVE  Above(t, push(cs, e)[i], push(b, m)[i], push(b, m)[j])
    OBVIOUS
  <2>1. i \in 1 .. Len(cs) /\ push(cs, e)[i] = cs[i] /\ push(b, m)[i] = b[i]
    BY <1>1, <1>2, <1>4
  <2>2. CASE j = Len(cs) + 1 BY <1>2, <1>4, <2>1, <2>2
  <2>3. CASE j # Len(cs) + 1
    <3>1. j \in 1 .. Len(cs) BY <1>1, <2>3
    <3>2. QED BY <1>2, <1>4, <2>1, <3>1 DEF Chain
  <2>4. QED BY <2>2, <2>3
<1>7. \A i \in 1 .. Len(cs) + 1 : Holds(t, push(cs, e)[i], push(b, m)[i])
  BY <1>1, <1>2, <1>4 DEF Chain
<1>8. \A i \in 2 .. Len(cs) + 1 : push(cs, e)[i].at \notin {"code", "tail"}
  BY <1>1, <1>5 DEF Chain
<1>9. ASSUME NEW i \in 1 .. Len(cs) + 1, push(cs, e)[i].at \in {"expression", "return"}
      PROVE  \E j \in 1 .. i - 1 : push(cs, e)[j].at = "body"
  <2>1. PICK j \in 1 .. i - 1 : j \in 1 .. Len(cs) /\ cs[j].at = "body"
    <3>1. CASE i = Len(cs) + 1
      <4>1. e.at \in {"expression", "return"} BY <1>1, <1>9, <3>1
      <4>2. 1 .. i - 1 = 1 .. Len(cs) BY <1>1, <3>1
      <4>3. QED BY <4>1, <4>2
    <3>2. CASE i # Len(cs) + 1
      <4>1. i \in 1 .. Len(cs) BY <1>1, <3>2
      <4>2. cs[i].at \in {"expression", "return"} BY <1>1, <1>9, <4>1
      <4>3. 1 .. i - 1 \subseteq 1 .. Len(cs) BY <1>1, <4>1
      <4>4. QED BY <4>1, <4>2, <4>3 DEF Chain
    <3>3. QED BY <3>1, <3>2
  <2>2. QED BY <1>1, <2>1
<1>10. QED BY <1>1, <1>2, <1>3, <1>4, <1>6, <1>7, <1>8, <1>9 DEF Chain

LEMMA ActivationsWithin ==
  ASSUME NEW cs, IsSequence(cs)
  PROVE  ActivationsOf(cs) \subseteq 1 .. Len(cs) /\ Len(cs) \in Nat
BY PushAt DEF ActivationsOf

LEMMA ActivationsPop ==
  ASSUME NEW cs, IsSequence(cs), cs # <<>>
  PROVE  ActivationsOf(pop(cs)) = ActivationsOf(cs) \ {Len(cs)}
<1>1. /\ cs = push(pop(cs), top(cs)) /\ IsSequence(pop(cs)) /\ Len(pop(cs)) + 1 = Len(cs)
      /\ Len(pop(cs)) \in Nat
  BY PopAt
<1>2. ActivationsOf(cs) =
        ActivationsOf(pop(cs)) \cup (IF top(cs).at \in Methods THEN {Len(cs)} ELSE {})
  BY <1>1, ActivationsPush
<1>3. ActivationsOf(pop(cs)) \subseteq 1 .. Len(cs) - 1 BY <1>1, ActivationsWithin
<1>4. Len(cs) \notin ActivationsOf(pop(cs)) BY <1>1, <1>3
<1>5. QED BY <1>2, <1>4

LEMMA NotLast == \A n \in Nat : \A j \in 1 .. n + 1 : j # n + 1 => j \in 1 .. n
OBVIOUS

LEMMA OrderPopped ==
  ASSUME NEW cs, IsSequence(cs), cs # <<>>, One(top(cs)) = 0,
         NEW b \in Seq(Nat), Len(b) = Len(cs), NEW fs, NEW s, Order(cs, b, fs, s)
  PROVE  Order(pop(cs), pop(b), fs, s)
<1>0. PICK act : Ordered(act, cs, b, fs, s) BY DEF Order
<1>1. /\ act \in Seq(Nat) /\ Len(act) = Len(fs) /\ Len(act) \in Nat /\ IsSequence(act)
      /\ \A i, j \in 1 .. Len(act) : i < j => act[i] < act[j]
      /\ {act[i] : i \in 1 .. Len(act)} = ActivationsOf(cs)
      /\ fs # <<>> => fs[1] = 0
      /\ fs = <<>> => s = 0
      /\ \A k \in 1 .. Len(act) : b[act[k]] = IF k = Len(act) THEN s ELSE fs[k + 1]
  <2>1. act \in Seq(Nat) BY <1>0 DEF Ordered
  <2>2. Len(act) \in Nat /\ IsSequence(act) BY <2>1, SeqIs
  <2>3. QED BY <1>0, <2>1, <2>2 DEF Ordered
<1>n. Len(act) \in Nat BY <1>1
<1>b. IsSequence(b) BY SeqIs
<1>2. Len(cs) \in Nat \ {0} /\ top(cs) = cs[Len(cs)] BY PopAt
<1>3. Len(cs) \notin ActivationsOf(cs) BY <1>2 DEF ActivationsOf, One
<1>4. ActivationsOf(pop(cs)) = ActivationsOf(cs) BY <1>3, ActivationsPop
<1>5. b # <<>> /\ \A i \in 1 .. Len(cs) - 1 : pop(b)[i] = b[i]
  <2>1. b # <<>> BY <1>2, EmptySeq
  <2>2. QED BY <1>b, <2>1, PopAt
<1>6. ASSUME NEW k \in 1 .. Len(act) PROVE pop(b)[act[k]] = b[act[k]]
  <2>1. act[k] \in ActivationsOf(cs) BY <1>1
  <2>2. act[k] \in 1 .. Len(cs) /\ act[k] # Len(cs) BY <1>3, <2>1, ActivationsWithin
  <2>3. QED BY <1>2, <1>5, <2>2
<1>7. Ordered(act, pop(cs), pop(b), fs, s) BY <1>1, <1>4, <1>6 DEF Ordered
<1>8. QED BY <1>7 DEF Order

LEMMA OrderPushed ==
  ASSUME NEW cs, IsSequence(cs), NEW e, One(e) = 0,
         NEW b \in Seq(Nat), Len(b) = Len(cs), NEW m \in Nat, NEW fs, NEW s, Order(cs, b, fs, s)
  PROVE  Order(push(cs, e), push(b, m), fs, s)
<1>0. PICK act : Ordered(act, cs, b, fs, s) BY DEF Order
<1>1. /\ act \in Seq(Nat) /\ Len(act) = Len(fs) /\ Len(act) \in Nat /\ IsSequence(act)
      /\ \A i, j \in 1 .. Len(act) : i < j => act[i] < act[j]
      /\ {act[i] : i \in 1 .. Len(act)} = ActivationsOf(cs)
      /\ fs # <<>> => fs[1] = 0
      /\ fs = <<>> => s = 0
      /\ \A k \in 1 .. Len(act) : b[act[k]] = IF k = Len(act) THEN s ELSE fs[k + 1]
  <2>1. act \in Seq(Nat) BY <1>0 DEF Ordered
  <2>2. Len(act) \in Nat /\ IsSequence(act) BY <2>1, SeqIs
  <2>3. QED BY <1>0, <2>1, <2>2 DEF Ordered
<1>n. Len(act) \in Nat BY <1>1
<1>b. IsSequence(b) BY SeqIs
<1>2. ActivationsOf(push(cs, e)) = ActivationsOf(cs)
  <2>1. e.at \notin Methods BY DEF One
  <2>2. QED BY <2>1, ActivationsPush
<1>3. \A i \in 1 .. Len(cs) : push(b, m)[i] = b[i]
  BY <1>b, PushAt
<1>4. ASSUME NEW k \in 1 .. Len(act) PROVE push(b, m)[act[k]] = b[act[k]]
  <2>1. act[k] \in ActivationsOf(cs) BY <1>1
  <2>2. QED BY <1>3, <2>1, ActivationsWithin
<1>5. Ordered(act, push(cs, e), push(b, m), fs, s) BY <1>1, <1>2, <1>4 DEF Ordered
<1>6. QED BY <1>5 DEF Order

LEMMA OrderStarted ==
  ASSUME NEW cs, IsSequence(cs), NEW e, One(e) = 1,
         NEW b \in Seq(Nat), Len(b) = Len(cs), NEW m \in Nat,
         NEW fs \in Seq(Nat), NEW s \in Nat, Order(cs, b, fs, s)
  PROVE  Order(push(cs, e), push(b, m), push(fs, s), m)
<1>0. PICK act : Ordered(act, cs, b, fs, s) BY DEF Order
<1>1. /\ act \in Seq(Nat) /\ Len(act) = Len(fs) /\ Len(act) \in Nat /\ IsSequence(act)
      /\ \A i, j \in 1 .. Len(act) : i < j => act[i] < act[j]
      /\ {act[i] : i \in 1 .. Len(act)} = ActivationsOf(cs)
      /\ fs # <<>> => fs[1] = 0
      /\ fs = <<>> => s = 0
      /\ \A k \in 1 .. Len(act) : b[act[k]] = IF k = Len(act) THEN s ELSE fs[k + 1]
  <2>1. act \in Seq(Nat) BY <1>0 DEF Ordered
  <2>2. Len(act) \in Nat /\ IsSequence(act) BY <2>1, SeqIs
  <2>3. QED BY <1>0, <2>1, <2>2 DEF Ordered
<1>n. Len(act) \in Nat BY <1>1
<1>b. IsSequence(b) BY SeqIs
<1> DEFINE n == Len(cs) + 1  more == push(act, n)  all == push(fs, s)
<1>2. ActivationsOf(push(cs, e)) = ActivationsOf(cs) \cup {n}
  <2>1. e.at \in Methods BY DEF One
  <2>2. QED BY <2>1, ActivationsPush
<1>3. /\ \A i \in 1 .. Len(cs) : push(b, m)[i] = b[i]
      /\ push(b, m)[n] = m /\ Len(cs) \in Nat /\ n \in Nat
  BY <1>b, PushAt
<1>4. /\ more \in Seq(Nat) /\ Len(more) = Len(act) + 1 /\ Len(act) \in Nat
      /\ \A i \in 1 .. Len(act) : more[i] = act[i]
      /\ more[Len(act) + 1] = n
  <2>1. more \in Seq(Nat) BY <1>1, <1>3 DEF push
  <2>2. QED BY <1>1, <2>1, PushAt
<1>5. /\ Len(all) = Len(fs) + 1 /\ all # <<>>
      /\ \A i \in 1 .. Len(fs) : all[i] = fs[i]
      /\ all[Len(fs) + 1] = s
  BY SeqIs, PushAt
<1> HIDE DEF more, all, n
<1>6. \A k \in 1 .. Len(act) : act[k] \in 1 .. Len(cs) /\ act[k] < n
  <2> SUFFICES ASSUME NEW k \in 1 .. Len(act) PROVE act[k] \in 1 .. Len(cs) /\ act[k] < n
    OBVIOUS
  <2>1. act[k] \in ActivationsOf(cs) BY <1>1
  <2>2. act[k] \in 1 .. Len(cs) BY <2>1, ActivationsWithin
  <2>3. QED BY <2>2, <1>3 DEF n
<1>7. \A i, j \in 1 .. Len(more) : i < j => more[i] < more[j]
  <2> SUFFICES ASSUME NEW i \in 1 .. Len(more), NEW j \in 1 .. Len(more), i < j
               PROVE  more[i] < more[j]
    OBVIOUS
  <2>1. i \in 1 .. Len(act) BY <1>4
  <2>2. CASE j = Len(act) + 1 BY <1>4, <1>6, <2>1, <2>2
  <2>3. CASE j # Len(act) + 1
    <3>0. j \in 1 .. Len(act) + 1 BY <1>4
    <3>1. j \in 1 .. Len(act) BY <1>n, <2>3, <3>0, NotLast
    <3>2. QED BY <1>1, <1>4, <2>1, <3>1
  <2>4. QED BY <2>2, <2>3
<1>8. {more[i] : i \in 1 .. Len(more)} = ActivationsOf(push(cs, e))
  <2>1. {more[i] : i \in 1 .. Len(more)} = {act[i] : i \in 1 .. Len(act)} \cup {n}
    <3>1. \A i \in 1 .. Len(more) : i \in 1 .. Len(act) \/ i = Len(act) + 1 BY <1>4
    <3>2. 1 .. Len(act) \subseteq 1 .. Len(more) /\ Len(act) + 1 \in 1 .. Len(more) BY <1>4
    <3>3. QED BY <1>4, <3>1, <3>2
  <2>2. QED BY <1>1, <1>2, <2>1
<1>9. all[1] = 0
  <2>1. CASE fs = <<>> BY <1>1, <1>5, <2>1
  <2>2. CASE fs # <<>>
    <3>1. 1 \in 1 .. Len(fs) BY <2>2
    <3>2. QED BY <1>1, <1>5, <2>2, <3>1
  <2>3. QED BY <2>1, <2>2
<1>10. ASSUME NEW k \in 1 .. Len(more)
       PROVE  push(b, m)[more[k]] = IF k = Len(more) THEN m ELSE all[k + 1]
  <2>1. CASE k = Len(act) + 1 BY <1>3, <1>4, <2>1
  <2>2. CASE k # Len(act) + 1
    <3>1. k \in 1 .. Len(act) /\ k # Len(more) BY <1>4, <2>2
    <3>2. push(b, m)[more[k]] = b[act[k]] BY <1>3, <1>4, <1>6, <3>1
    <3>3. CASE k = Len(act) BY <1>1, <1>5, <3>1, <3>2, <3>3
    <3>4. CASE k # Len(act)
      <4>0. k + 1 \in 1 .. Len(act) BY <1>n, <3>1, <3>4
      <4>1. k + 1 \in 1 .. Len(fs) BY <1>1, <4>0
      <4>2. QED BY <1>1, <1>5, <3>1, <3>2, <3>4, <4>1
    <3>5. QED BY <3>3, <3>4
  <2>3. QED BY <2>1, <2>2
<1>11. Len(more) = Len(all) BY <1>1, <1>4, <1>5
<1>12. Ordered(more, push(cs, e), push(b, m), all, m)
  BY <1>4, <1>5, <1>7, <1>8, <1>9, <1>10, <1>11 DEF Ordered
<1>13. QED BY <1>12 DEF all, Order

LEMMA OrderFinished ==
  ASSUME NEW cs, IsSequence(cs), cs # <<>>, One(top(cs)) = 1,
         NEW b \in Seq(Nat), Len(b) = Len(cs), NEW fs \in Seq(Nat), NEW s \in Nat, Order(cs, b, fs, s)
  PROVE  /\ Order(pop(cs), pop(b), pop(fs), top(fs)) /\ fs # <<>> /\ s = top(b)
         /\ pop(fs) \in Seq(Nat) /\ top(fs) \in Nat /\ push(pop(fs), top(fs)) = fs
<1>0. PICK act : Ordered(act, cs, b, fs, s) BY DEF Order
<1>1. /\ act \in Seq(Nat) /\ Len(act) = Len(fs) /\ Len(act) \in Nat /\ IsSequence(act)
      /\ \A i, j \in 1 .. Len(act) : i < j => act[i] < act[j]
      /\ {act[i] : i \in 1 .. Len(act)} = ActivationsOf(cs)
      /\ fs # <<>> => fs[1] = 0
      /\ fs = <<>> => s = 0
      /\ \A k \in 1 .. Len(act) : b[act[k]] = IF k = Len(act) THEN s ELSE fs[k + 1]
  <2>1. act \in Seq(Nat) BY <1>0 DEF Ordered
  <2>2. Len(act) \in Nat /\ IsSequence(act) BY <2>1, SeqIs
  <2>3. QED BY <1>0, <2>1, <2>2 DEF Ordered
<1>n. Len(act) \in Nat BY <1>1
<1>b. IsSequence(b) BY SeqIs
<1> DEFINE n == Len(cs)  fewer == pop(act)  rest == pop(fs)
<1>2. n \in Nat \ {0} /\ top(cs) = cs[n] /\ DOMAIN cs = 1 .. n BY PopAt
<1>3. n \in ActivationsOf(cs) BY <1>2 DEF ActivationsOf, One
<1>4. PICK last1 \in 1 .. Len(act) : act[last1] = n BY <1>1, <1>3
<1>5. Len(act) \in Nat \ {0} /\ act # <<>> BY <1>4, EmptySeq
<1>6. \A k \in 1 .. Len(act) : act[k] \in 1 .. n
  BY <1>1, ActivationsWithin
<1>7. last1 = Len(act)
  <2>0. Len(act) \in 1 .. Len(act) BY <1>5
  <2>1. last1 < Len(act) => act[last1] < act[Len(act)] BY <1>1, <1>4, <2>0
  <2>2. act[Len(act)] \in 1 .. n BY <1>5, <1>6
  <2>3. QED BY <1>2, <1>4, <1>5, <2>1, <2>2
<1>8. /\ fewer \in Seq(Nat) /\ Len(fewer) = Len(act) - 1
      /\ \A i \in 1 .. Len(act) - 1 : fewer[i] = act[i]
  BY <1>1, <1>5, PopAt, PopFacts
<1>9. fs # <<>> BY <1>1, <1>5
<1>10. /\ rest \in Seq(Nat) /\ Len(rest) = Len(fs) - 1 /\ top(fs) = fs[Len(fs)]
       /\ \A i \in 1 .. Len(fs) - 1 : rest[i] = fs[i]
       /\ push(rest, top(fs)) = fs
  BY <1>9, SeqIs, PopAt, PopFacts
<1>11. b # <<>> /\ top(b) = b[n] /\ \A i \in 1 .. n - 1 : pop(b)[i] = b[i]
  <2>1. b # <<>> BY <1>2, EmptySeq
  <2>2. QED BY <1>b, <2>1, PopAt
<1>12. s = top(b) BY <1>1, <1>4, <1>5, <1>7, <1>11
<1>13. \A k \in 1 .. Len(act) - 1 : act[k] \in 1 .. n - 1
  <2> SUFFICES ASSUME NEW k \in 1 .. Len(act) - 1 PROVE act[k] \in 1 .. n - 1
    OBVIOUS
  <2>1. k \in 1 .. Len(act) /\ k < Len(act) BY <1>5
  <2>0. Len(act) \in 1 .. Len(act) BY <1>5
  <2>2. act[k] < act[Len(act)] BY <1>1, <2>0, <2>1
  <2>3. QED BY <1>2, <1>4, <1>6, <1>7, <2>1, <2>2
<1>14. ActivationsOf(pop(cs)) = ActivationsOf(cs) \ {n} BY ActivationsPop
<1> HIDE DEF fewer, rest, n
<1>15. {fewer[i] : i \in 1 .. Len(fewer)} = ActivationsOf(pop(cs))
  <2>1. \A i \in 1 .. Len(act) : i \in 1 .. Len(act) - 1 \/ i = Len(act) BY <1>5
  <2>2. \A i \in 1 .. Len(act) - 1 : i \in 1 .. Len(act) /\ act[i] # n BY <1>2, <1>5, <1>13
  <2>3. {fewer[i] : i \in 1 .. Len(fewer)} = {act[i] : i \in 1 .. Len(act)} \ {n}
    BY <1>4, <1>7, <1>8, <2>1, <2>2
  <2>4. QED BY <1>1, <1>14, <2>3
<1>16. \A i, j \in 1 .. Len(fewer) : i < j => fewer[i] < fewer[j]
  <2> SUFFICES ASSUME NEW i \in 1 .. Len(fewer), NEW j \in 1 .. Len(fewer), i < j
               PROVE  fewer[i] < fewer[j]
    OBVIOUS
  <2>1. i \in 1 .. Len(act) - 1 /\ j \in 1 .. Len(act) - 1 BY <1>8
  <2>2. i \in 1 .. Len(act) /\ j \in 1 .. Len(act) BY <1>n, <2>1
  <2>3. QED BY <1>1, <1>8, <2>1, <2>2
<1>17. rest # <<>> => rest[1] = 0
  <2> SUFFICES ASSUME rest # <<>> PROVE rest[1] = 0
    OBVIOUS
  <2>1. Len(rest) \in Nat \ {0} BY <1>10, EmptySeq
  <2>2. 1 \in 1 .. Len(fs) - 1 BY <1>10, <2>1
  <2>3. QED BY <1>1, <1>9, <1>10, <2>2
<1>18. rest = <<>> => top(fs) = 0
  <2> SUFFICES ASSUME rest = <<>> PROVE top(fs) = 0
    OBVIOUS
  <2>1. Len(rest) = 0 BY EmptySeq
  <2>2. Len(fs) = 1 BY <1>10, <2>1
  <2>3. QED BY <1>1, <1>9, <1>10, <2>2
<1>19. ASSUME NEW k \in 1 .. Len(fewer)
       PROVE  pop(b)[fewer[k]] = IF k = Len(fewer) THEN top(fs) ELSE rest[k + 1]
  <2>0. k \in 1 .. Len(act) - 1 BY <1>8
  <2>1. k \in 1 .. Len(act) /\ k # Len(act) /\ k \in 1 .. Len(act) - 1
    BY <1>1, <2>0
  <2>2. pop(b)[fewer[k]] = b[act[k]] BY <1>8, <1>11, <1>13, <2>1
  <2>3. pop(b)[fewer[k]] = fs[k + 1] BY <1>1, <2>1, <2>2
  <2>4. CASE k = Len(fewer) BY <1>1, <1>8, <1>10, <2>1, <2>3, <2>4
  <2>5. CASE k # Len(fewer)
    <3>1. k + 1 \in 1 .. Len(fs) - 1 BY <1>1, <1>8, <2>1, <2>5
    <3>2. QED BY <1>10, <2>3, <2>5, <3>1
  <2>6. QED BY <2>4, <2>5
<1>20. Len(fewer) = Len(rest) BY <1>1, <1>8, <1>10
<1>21. Ordered(fewer, pop(cs), pop(b), rest, top(fs))
  BY <1>8, <1>15, <1>16, <1>17, <1>18, <1>19, <1>20 DEF Ordered
<1>22. top(fs) \in Nat BY <1>9, <1>10
<1>23. QED BY <1>9, <1>10, <1>12, <1>21, <1>22 DEF rest, Order

-----------------------------------------------------------------------------
(* The functions of the code. *)

LEMMA ValuesMade ==
  ASSUME NEW n \in Nat
  PROVE  /\ \A i \in Int : from_isize(i) \in Values(n) /\ from_f64(i) \in Values(n)
         /\ \A p : from_bool(p) \in Values(n)
         /\ nilObject \in Values(n) /\ trueObject \in Values(n) /\ falseObject \in Values(n)
         /\ Constants \subseteq Values(n)
         /\ \A m \in Nat : m >= n => Values(n) \subseteq Values(m)
         /\ \A o \in Values(n) : o.value \in Int /\ o.class \in Int
<1>1. ASSUME NEW i \in Int PROVE from_isize(i) \in Values(n)
  <2>1. 2 * IntLimit \in Nat \ {0} BY IntLimitAssumption
  <2>2. PICK r : r = (i + IntLimit) % (2 * IntLimit) OBVIOUS
  <2>3. r \in 0 .. 2 * IntLimit - 1
    <3>1. \A a \in Int, k \in Nat \ {0} : a % k \in 0 .. k - 1 OBVIOUS
    <3>2. i + IntLimit \in Int BY IntLimitAssumption
    <3>3. QED BY <2>1, <2>2, <3>1, <3>2
  <2>4. r - IntLimit \in Representable BY <2>3, IntLimitAssumption DEF Representable
  <2>5. r - IntLimit \in Int BY <2>3, IntLimitAssumption
  <2>6. QED BY <2>2, <2>4, <2>5
    DEF from_isize, Object, Values, Objects, is_integer, classSmallInteger, classBlockClosure
<1>2. ASSUME NEW i \in Int PROVE from_f64(i) \in Values(n)
  BY DEF from_f64, Object, Values, Objects, is_integer, classSmallInteger, classBlockClosure, classFloat
<1>3. nilObject \in Values(n) /\ trueObject \in Values(n) /\ falseObject \in Values(n)
  BY DEF nilObject, trueObject, falseObject, Object, Values, Objects, is_integer, classSmallInteger,
         classBlockClosure, classTrue, classFalse, classUndefinedObject
<1>4. \A p : from_bool(p) \in Values(n) BY <1>3 DEF from_bool
<1>5. Constants \subseteq Values(n) BY DEF Constants, Values
<1>6. \A m \in Nat : m >= n => Values(n) \subseteq Values(m)
  <2> SUFFICES ASSUME NEW m \in Nat, m >= n, NEW o \in Values(n) PROVE o \in Values(m)
    OBVIOUS
  <2>1. o.value \in 1 .. n => o.value \in 1 .. m OBVIOUS
  <2>2. QED BY <2>1 DEF Values
<1>7. \A o \in Values(n) : o.value \in Int /\ o.class \in Int BY DEF Values, Objects
<1>8. QED BY <1>1, <1>2, <1>3, <1>4, <1>5, <1>6, <1>7

(* r is a stack of l objects, the lowest k as in s. *)
Agrees(S, s, r, l, k) ==
  r \in Seq(S) /\ Len(r) = l /\ l >= k /\ \A i \in 1 .. k : r[i] = s[i]

LEMMA StackShapes ==
  ASSUME NEW S, NEW s \in Seq(S), NEW x \in S
  PROVE  /\ Len(s) \in Nat /\ Agrees(S, s, s, Len(s), Len(s))
         /\ Agrees(S, s, push(s, x), Len(s) + 1, Len(s))
         /\ Len(s) >= 1 =>
              /\ top(s) \in S
              /\ Agrees(S, s, pop(s), Len(s) - 1, Len(s) - 1)
              /\ Agrees(S, s, push(pop(s), x), Len(s), Len(s) - 1)
         /\ Len(s) >= 2 =>
              /\ top(pop(s)) \in S
              /\ Agrees(S, s, push(pop(pop(s)), x), Len(s) - 1, Len(s) - 2)
              /\ Agrees(S, s, replace(pop(s), x), Len(s) - 1, Len(s) - 2)
<1>1. Len(s) \in Nat /\ Agrees(S, s, s, Len(s), Len(s)) BY DEF Agrees
<1>2. ASSUME NEW u \in Seq(S)
      PROVE  push(u, x) \in Seq(S) /\ Len(push(u, x)) = Len(u) + 1 /\ \A i \in 1 .. Len(u) : push(u, x)[i] = u[i]
  BY SeqIs, PushAt DEF push
<1>3. ASSUME NEW u \in Seq(S), Len(u) >= 1
      PROVE  /\ top(u) \in S /\ pop(u) \in Seq(S) /\ Len(pop(u)) = Len(u) - 1
             /\ \A i \in 1 .. Len(u) - 1 : pop(u)[i] = u[i]
             /\ replace(u, x) \in Seq(S) /\ Len(replace(u, x)) = Len(u)
             /\ \A i \in 1 .. Len(u) - 1 : replace(u, x)[i] = u[i]
  <2>1. u # <<>> /\ Len(u) \in 1 .. Len(u) BY <1>3
  <2>2. top(u) \in S BY <2>1 DEF top
  <2>3. replace(u, x) \in Seq(S) /\ Len(replace(u, x)) = Len(u)
    BY <2>1 DEF replace
  <2>4. \A i \in 1 .. Len(u) - 1 : replace(u, x)[i] = u[i] BY <2>1 DEF replace
  <2>5. QED BY <2>1, <2>2, <2>3, <2>4, SeqIs, PopAt, PopFacts
<1>4. Agrees(S, s, push(s, x), Len(s) + 1, Len(s)) BY <1>1, <1>2 DEF Agrees
<1>5. ASSUME Len(s) >= 1
      PROVE  /\ top(s) \in S
             /\ Agrees(S, s, pop(s), Len(s) - 1, Len(s) - 1)
             /\ Agrees(S, s, push(pop(s), x), Len(s), Len(s) - 1)
  <2>1. /\ top(s) \in S /\ pop(s) \in Seq(S) /\ Len(pop(s)) = Len(s) - 1
        /\ \A i \in 1 .. Len(s) - 1 : pop(s)[i] = s[i]
    BY <1>3, <1>5
  <2>2. /\ push(pop(s), x) \in Seq(S) /\ Len(push(pop(s), x)) = Len(s) - 1 + 1
        /\ \A i \in 1 .. Len(s) - 1 : push(pop(s), x)[i] = pop(s)[i]
    BY <1>2, <2>1
  <2>3. QED BY <1>1, <2>1, <2>2 DEF Agrees
<1>6. ASSUME Len(s) >= 2
      PROVE  /\ top(pop(s)) \in S
             /\ Agrees(S, s, push(pop(pop(s)), x), Len(s) - 1, Len(s) - 2)
             /\ Agrees(S, s, replace(pop(s), x), Len(s) - 1, Len(s) - 2)
  <2> DEFINE u == pop(s)
  <2>1. /\ u \in Seq(S) /\ Len(u) = Len(s) - 1
        /\ \A i \in 1 .. Len(s) - 1 : u[i] = s[i]
    <3>1. Len(s) >= 1 BY <1>1, <1>6
    <3>2. QED BY <1>3, <3>1
  <2> HIDE DEF u
  <2>2. Len(u) >= 1 BY <1>1, <1>6, <2>1
  <2>3. /\ top(u) \in S /\ pop(u) \in Seq(S) /\ Len(pop(u)) = Len(u) - 1
        /\ \A i \in 1 .. Len(u) - 1 : pop(u)[i] = u[i]
        /\ replace(u, x) \in Seq(S) /\ Len(replace(u, x)) = Len(u)
        /\ \A i \in 1 .. Len(u) - 1 : replace(u, x)[i] = u[i]
    BY <1>3, <2>1, <2>2
  <2>4. /\ push(pop(u), x) \in Seq(S) /\ Len(push(pop(u), x)) = Len(u) - 1 + 1
        /\ \A i \in 1 .. Len(u) - 1 : push(pop(u), x)[i] = pop(u)[i]
    BY <1>2, <2>3
  <2>5. \A i \in 1 .. Len(s) - 2 : i \in 1 .. Len(u) - 1 /\ i \in 1 .. Len(s) - 1
    BY <1>1, <2>1
  <2>6. Agrees(S, s, push(pop(u), x), Len(s) - 1, Len(s) - 2)
    BY <1>1, <2>1, <2>3, <2>4, <2>5 DEF Agrees
  <2>7. Agrees(S, s, replace(u, x), Len(s) - 1, Len(s) - 2)
    BY <1>1, <2>1, <2>3, <2>5 DEF Agrees
  <2>8. QED BY <2>3, <2>6, <2>7 DEF u
<1>7. QED BY <1>1, <1>4, <1>5, <1>6

LEMMA GreatestOf ==
  ASSUME NEW E, IsFiniteSet(E), E \subseteq Nat, E # {}
  PROVE  \E n \in E : \A i \in E : n >= i
<1> DEFINE Over(n) == {i \in E : i > n}  T == {Over(n) : n \in E}
<1>1. IsWellFoundedOn(StrictSubsetOrdering(E), SUBSET E)
  BY FS_StrictSubsetOrderingWellFounded, FS_FiniteSubsetsOfFinite
<1>2. T \subseteq SUBSET E /\ T # {} OBVIOUS
<1>3. PICK x \in T : \A y \in T : <<y, x>> \notin StrictSubsetOrdering(E)
  <2> HIDE DEF T
  <2> QED BY <1>1, <1>2, WFMin
<1>4. PICK n \in E : x = Over(n) OBVIOUS
<1>5. ASSUME NEW i \in E, i > n PROVE FALSE
  <2>0. Over(i) \in T OBVIOUS
  <2>1. Over(i) \subseteq Over(n) /\ i \in Over(n) /\ i \notin Over(i)
    <3>1. n \in Nat /\ i \in Nat /\ \A j \in E : j \in Nat OBVIOUS
    <3>2. \A j \in E : j > i => j > n BY <1>5, <3>1
    <3>3. ~(i > i) BY <3>1
    <3>4. QED BY <1>5, <3>2, <3>3
  <2>2. Over(i) \subseteq E /\ Over(n) \subseteq E OBVIOUS
  <2>3. <<Over(i), x>> \notin StrictSubsetOrdering(E) BY <1>3, <2>0
  <2> HIDE DEF Over
  <2>4. QED BY <1>4, <2>1, <2>2, <2>3 DEF StrictSubsetOrdering
<1>6. QED BY <1>5

(* The operand of a function fits it. *)
Fit(f, o) ==
  /\ f = "constant" => o.value \in Constants
  /\ f = "restack" => o.discard \in Nat /\ o.keep \in Seq(Nat \ {0})

LEMMA RestackReach ==
  ASSUME NEW o, Fit("restack", o)
  PROVE  /\ Reach("restack", o) \in Nat /\ o.discard % 128 \in 0 .. 127
         /\ Reach("restack", o) >= o.discard % 128
         /\ \A i \in DOMAIN o.keep : Reach("restack", o) >= o.keep[i]
<1>1. o.discard \in Nat /\ o.keep \in Seq(Nat \ {0}) BY DEF Fit
<1>2. o.discard % 128 \in 0 .. 127
  <2>1. \A x \in Nat : x % 128 \in 0 .. 127 OBVIOUS
  <2>2. QED BY <1>1, <2>1
<1> DEFINE all == {o.discard % 128} \cup {o.keep[i] : i \in DOMAIN o.keep}
           kept == {o.keep[i] : i \in DOMAIN o.keep}
<1>3. Reach("restack", o) = CHOOSE n \in all : \A i \in all : n >= i
  BY DEF Reach
<1>4. IsFiniteSet(kept)
  <2>1. DOMAIN o.keep = 1 .. Len(o.keep) /\ Len(o.keep) \in Nat BY <1>1
  <2>2. o.keep \in Surjection(DOMAIN o.keep, kept) BY <1>1 DEF Surjection
  <2>3. IsFiniteSet(DOMAIN o.keep) BY <2>1, FS_Interval
  <2> HIDE DEF kept
  <2>4. QED BY <2>2, <2>3, FS_Surjection
<1>5. IsFiniteSet(all) BY <1>4, FS_Union, FS_Singleton
<1>6. all \subseteq Nat /\ all # {} BY <1>1, <1>2
<1>7. \E n \in all : \A i \in all : n >= i
  <2> HIDE DEF all
  <2> QED BY <1>5, <1>6, GreatestOf
<1>8. Reach("restack", o) \in all /\ \A i \in all : Reach("restack", o) >= i
  <2> HIDE DEF all
  <2> QED BY <1>3, <1>7
<1>9. QED BY <1>2, <1>6, <1>8

LEMMA RestackSafe ==
  ASSUME NEW S, NEW s \in Seq(S), NEW o, Fit("restack", o), Len(s) >= Reach("restack", o)
  PROVE  /\ restack(s, o).stack \in Seq(S)
         /\ Len(restack(s, o).stack) = Len(s) - (o.discard % 128) + Len(o.keep)
         /\ restack(s, o).result \in {"ReturnIsNext", "NormalReturn"}
<1> DEFINE d == o.discard % 128
           kept == [i \in DOMAIN o.keep |-> atOffset(s, o.keep[i])]
<1>1. o.keep \in Seq(Nat \ {0}) /\ Len(s) \in Nat /\ Len(o.keep) \in Nat
      /\ DOMAIN o.keep = 1 .. Len(o.keep)
  BY DEF Fit
<1>2. d \in Nat /\ d <= Len(s)
  <2>1. d \in 0 .. 127 /\ Reach("restack", o) \in Nat /\ Reach("restack", o) >= d BY RestackReach
  <2> HIDE DEF d
  <2>2. QED BY <1>1, <2>1
<1>3. \A i \in DOMAIN o.keep : o.keep[i] \in 1 .. Len(s)
  <2>1. \A i \in DOMAIN o.keep : o.keep[i] \in Nat \ {0} BY <1>1
  <2>2. QED BY <1>1, <2>1, RestackReach
<1>4. \A i \in DOMAIN o.keep : atOffset(s, o.keep[i]) \in S
  <2> SUFFICES ASSUME NEW i \in DOMAIN o.keep PROVE atOffset(s, o.keep[i]) \in S
    OBVIOUS
  <2>1. Len(s) + 1 - o.keep[i] \in 1 .. Len(s) BY <1>1, <1>3
  <2>2. QED BY <2>1 DEF atOffset
<1>5. kept \in Seq(S) /\ Len(kept) = Len(o.keep) BY <1>1, <1>4
<1>6. discard(s, d) \in Seq(S) /\ Len(discard(s, d)) = Len(s) - d
  <2>1. Len(s) - d \in 0 .. Len(s) BY <1>1, <1>2
  <2>2. \A i \in 1 .. Len(s) - d : i \in 1 .. Len(s) BY <1>1, <2>1
  <2>3. \A i \in 1 .. Len(s) - d : s[i] \in S BY <2>2
  <2> HIDE DEF d
  <2>4. PICK k \in Nat : k = Len(s) - d /\ k <= Len(s) BY <1>1, <2>1
  <2>5. SubSeq(s, 1, k) \in Seq(S) /\ Len(SubSeq(s, 1, k)) = k
    BY <2>3, <2>4, SubSeqProperties
  <2>6. QED BY <2>4, <2>5 DEF discard
<1>7. restack(s, o).stack = discard(s, d) \o kept
      /\ restack(s, o).result \in {"ReturnIsNext", "NormalReturn"}
  BY DEF restack, ReturnIsNext, NormalReturn, Result
<1> HIDE DEF d, kept
<1>8. discard(s, d) \o kept \in Seq(S) /\ Len(discard(s, d) \o kept) = Len(s) - d + Len(o.keep)
  BY <1>5, <1>6, ConcatProperties
<1>9. QED BY <1>7, <1>8 DEF d

LEMMA CallSafe ==
  ASSUME NEW n \in Nat, NEW s \in Seq(Values(n)), NEW f \in Instructions, NEW o, Fit(f, o),
         NEW r, r = Call(f, s, o)
  PROVE  /\ r.stack \in Seq(Values(n)) /\ Taken(f, o) \in Int /\ Len(r.stack) \in Nat
         /\ r.result = "panic" \/ Len(r.stack) >= Len(s) - Taken(f, o)
         /\ f # "restack" => Reach(f, o) \in Nat
              /\ \A i \in 1 .. Len(s) - Reach(f, o) : i \in 1 .. Len(r.stack) /\ r.stack[i] = s[i]
         /\ r.result = "JumpTo" => f = "br_true" /\ r.to = o.value.value
<1> DEFINE V == Values(n)
<1>1. CASE f = "restack"
  <2>1. Taken(f, o) = (o.discard % 128) - Len(o.keep) BY <1>1 DEF Taken
  <2>0. Fit("restack", o) BY <1>1
  <2>2. o.discard % 128 \in 0 .. 127 /\ Len(o.keep) \in Nat
    <3>1. o.keep \in Seq(Nat \ {0}) BY <2>0 DEF Fit
    <3>2. QED BY <2>0, <3>1, RestackReach
  <2>8. PICK d \in Nat : d = o.discard % 128 BY <2>2
  <2>9. PICK k \in Nat : k = Len(o.keep) BY <2>2
  <2>6. Taken(f, o) = d - k /\ Taken(f, o) \in Int
    <3>1. Taken(f, o) = d - k BY <2>1, <2>8, <2>9
    <3>2. QED BY <3>1
  <2>7. Reach(f, o) \in Nat /\ Len(s) \in Nat BY <1>1, <2>0, RestackReach
  <2>3. CASE Len(s) < Reach(f, o)
    <3>1. r = Result(s, "panic", 0) BY <2>3 DEF Call
    <3>2. r.stack = s /\ r.result = "panic" BY <3>1 DEF Result
    <3>3. QED BY <1>1, <2>6, <2>7, <3>2
  <2>4. CASE ~(Len(s) < Reach(f, o))
    <3>1. r = restack(s, o) BY <1>1, <2>4 DEF Call
    <3>2. Len(s) >= Reach("restack", o) BY <1>1, <2>4, <2>7
    <3>3. /\ r.stack \in Seq(Values(n)) /\ r.result \in {"ReturnIsNext", "NormalReturn"}
          /\ Len(r.stack) = Len(s) - (o.discard % 128) + Len(o.keep)
      BY <2>0, <3>1, <3>2, RestackSafe
    <3>7. Len(r.stack) = Len(s) - d + k BY <2>8, <2>9, <3>3
    <3>4. Len(r.stack) = Len(s) - Taken(f, o) BY <2>6, <2>7, <3>7
    <3>5. Len(r.stack) \in Nat BY <3>3
    <3>6. QED BY <1>1, <2>6, <2>7, <3>3, <3>4, <3>5
  <2>5. QED BY <2>3, <2>4
<1> DEFINE Fine(k, t) ==
             /\ Reach(f, o) = k /\ Taken(f, o) = t
             /\ r.result \in {"panic", "NormalReturn", "ReturnIsNext", "JumpTo"}
             /\ \E l \in Nat : Agrees(V, s, r.stack, l, Len(s) - k)
                               /\ (r.result = "panic" \/ l >= Len(s) - t)
             /\ r.result = "JumpTo" => f = "br_true" /\ r.to = o.value.value
<1>2. ASSUME f # "restack", NEW k \in 0 .. 2, NEW t \in -1 .. 1, Fine(k, t)
      PROVE  /\ r.stack \in Seq(V) /\ Taken(f, o) \in Int /\ Len(r.stack) \in Nat
             /\ r.result = "panic" \/ Len(r.stack) >= Len(s) - Taken(f, o)
             /\ Reach(f, o) \in Nat
             /\ \A i \in 1 .. Len(s) - Reach(f, o) : i \in 1 .. Len(r.stack) /\ r.stack[i] = s[i]
             /\ r.result = "JumpTo" => f = "br_true" /\ r.to = o.value.value
  BY <1>2 DEF Agrees
<1> HIDE DEF V
<1>3. s \in Seq(V) /\ Len(s) \in Nat /\ V # {} BY ValuesMade DEF V
<1>4. /\ \A i \in Int : from_isize(i) \in V /\ from_f64(i) \in V
      /\ \A p : from_bool(p) \in V
      /\ nilObject \in V /\ trueObject \in V /\ falseObject \in V
      /\ Constants \subseteq V /\ \A v \in V : v.value \in Int
  BY ValuesMade DEF V
<1>5. \A l, k, j : Agrees(V, s, l, j, k) /\ k \in Int => \A m \in Int : m <= k => Agrees(V, s, l, j, m)
  <2> SUFFICES ASSUME NEW u, NEW j, NEW k \in Int, Agrees(V, s, u, j, k), NEW m \in Int, m <= k
               PROVE  Agrees(V, s, u, j, m)
    OBVIOUS
  <2>1. u \in Seq(V) /\ Len(u) = j /\ j >= k /\ \A i \in 1 .. k : u[i] = s[i] BY DEF Agrees
  <2>2. j \in Nat BY <2>1
  <2>3. QED BY <2>1, <2>2 DEF Agrees
<1>6. ASSUME NEW k \in 0 .. 2, NEW t \in -1 .. 1, Reach(f, o) = k, Taken(f, o) = t, f # "restack",
             Len(s) < k
      PROVE  Fine(k, t)
  <2>1. r = Result(s, "panic", 0) BY <1>6 DEF Call
  <2>2. r.stack = s /\ r.result = "panic" BY <2>1 DEF Result
  <2>3. Agrees(V, s, s, Len(s), Len(s)) BY <1>3, <1>4, StackShapes
  <2>4. Agrees(V, s, s, Len(s), Len(s) - k) BY <1>3, <1>5, <2>3
  <2>5. QED BY <1>3, <1>6, <2>2, <2>4
<1>7. ASSUME NEW k \in 0 .. 2, NEW t \in -1 .. 1, Reach(f, o) = k, Taken(f, o) = t,
             NEW l \in Int, NEW m \in Int, Agrees(V, s, r.stack, l, m),
             l >= Len(s) - t, m >= Len(s) - k,
             r.result \in {"NormalReturn", "ReturnIsNext", "JumpTo"},
             r.result = "JumpTo" => f = "br_true" /\ r.to = o.value.value
      PROVE  Fine(k, t)
  <2>1. l \in Nat BY <1>7 DEF Agrees
  <2>2. Agrees(V, s, r.stack, l, Len(s) - k) BY <1>3, <1>5, <1>7
  <2>3. QED BY <1>7, <2>1, <2>2
<1>8. ASSUME NEW k \in 0 .. 2, NEW t \in -1 .. 1, Reach(f, o) = k, Taken(f, o) = t,
             r = primitive_fail(s)
      PROVE  Fine(k, t)
  <2>1. r.stack = push(s, nilObject) /\ r.result = "panic" BY <1>8 DEF primitive_fail, Result
  <2>2. Agrees(V, s, push(s, nilObject), Len(s) + 1, Len(s)) BY <1>3, <1>4, StackShapes
  <2>3. Agrees(V, s, push(s, nilObject), Len(s) + 1, Len(s) - k) BY <1>3, <1>5, <2>2
  <2>4. QED BY <1>3, <1>8, <2>1, <2>3
<1> HIDE DEF Fine
<1>10. CASE f \in {"nop", "yourself", "pre_return"}
  <2>1. Reach(f, o) = 0 /\ Taken(f, o) = 0 BY <1>10 DEF Reach, Taken
  <2>2. ~(Len(s) < Reach(f, o)) BY <1>3, <2>1
  <2>3. r.stack = s /\ r.result \in {"NormalReturn", "ReturnIsNext"}
    <3>1. CASE f = "nop"
      <4>1. r = nop(s) BY <2>2, <3>1 DEF Call
      <4>2. QED BY <4>1 DEF nop, NormalReturn, Result
    <3>2. CASE f = "yourself"
      <4>1. r = yourself(s) BY <2>2, <3>2 DEF Call
      <4>2. QED BY <4>1 DEF yourself, NormalReturn, Result
    <3>3. CASE f = "pre_return"
      <4>1. r = pre_return(s) BY <2>2, <3>3 DEF Call
      <4>2. QED BY <4>1 DEF pre_return, ReturnIsNext, Result
    <3>4. QED BY <1>10, <3>1, <3>2, <3>3
  <2>6. Agrees(V, s, s, Len(s), Len(s)) BY <1>3, <1>4, StackShapes
  <2>4. Fine(0, 0) BY <1>3, <1>7, <2>1, <2>3, <2>6
  <2>5. QED BY <1>2, <1>10, <2>4 DEF V
<1>11. CASE f = "constant"
  <2>1. Reach(f, o) = 0 /\ Taken(f, o) = -1 BY <1>11 DEF Reach, Taken
  <2>2. r.stack = push(s, o.value) /\ r.result = "NormalReturn"
    <3>1. ~(Len(s) < Reach(f, o)) BY <1>3, <2>1
    <3>2. r = constant(s, o) BY <1>11, <3>1 DEF Call
    <3>3. QED BY <3>2 DEF constant, NormalReturn, Result
  <2>3. o.value \in V BY <1>4, <1>11 DEF Fit
  <2>4. Agrees(V, s, push(s, o.value), Len(s) + 1, Len(s)) BY <1>3, <2>3, StackShapes
  <2>5. Fine(0, -1)
    <3>1. /\ Len(s) + 1 \in Int /\ Len(s) \in Int /\ 0 \in 0 .. 2 /\ -1 \in -1 .. 1
          /\ Len(s) + 1 >= Len(s) - (-1) /\ Len(s) >= Len(s) - 0
      BY <1>3
    <3>2. Agrees(V, s, r.stack, Len(s) + 1, Len(s)) BY <2>2, <2>4
    <3>3. QED BY <1>7, <2>1, <2>2, <3>1, <3>2
  <2>6. QED BY <1>2, <1>11, <2>5 DEF V
<1>12. CASE f = "dup"
  <2>1. Reach(f, o) = 1 /\ Taken(f, o) = -1 BY <1>12 DEF Reach, Taken
  <2>2. CASE Len(s) < 1 BY <1>2, <1>6, <1>12, <2>1, <2>2 DEF V
  <2>3. CASE ~(Len(s) < 1)
    <3>1. r.stack = push(s, top(s)) /\ r.result = "NormalReturn"
      BY <1>12, <2>1, <2>3 DEF Call, dup, NormalReturn, Result
    <3>2. top(s) \in V BY <1>3, <1>4, <2>3, StackShapes
    <3>3. Agrees(V, s, push(s, top(s)), Len(s) + 1, Len(s)) BY <1>3, <3>2, StackShapes
    <3>4. Fine(1, -1)
      <4>1. /\ Len(s) + 1 \in Int /\ Len(s) \in Int /\ 1 \in 0 .. 2 /\ -1 \in -1 .. 1
            /\ Len(s) + 1 >= Len(s) - (-1) /\ Len(s) >= Len(s) - 1
        BY <1>3
      <4>2. Agrees(V, s, r.stack, Len(s) + 1, Len(s)) BY <3>1, <3>3
      <4>3. QED BY <1>7, <2>1, <3>1, <4>1, <4>2
    <3>5. QED BY <1>2, <1>12, <3>4 DEF V
  <2>4. QED BY <2>2, <2>3
<1>13. CASE f \in {"eq_constant", "eq_class"}
  <2>1. Reach(f, o) = 1 /\ Taken(f, o) = 0 BY <1>13 DEF Reach, Taken
  <2>2. CASE Len(s) < 1 BY <1>2, <1>6, <1>13, <2>1, <2>2 DEF V
  <2>3. CASE ~(Len(s) < 1)
    <3>1. PICK p : r.stack = push(pop(s), from_bool(p)) /\ r.result = "NormalReturn"
      BY <1>13, <2>1, <2>3 DEF Call, eq_constant, eq_class, NormalReturn, Result
    <3>2. Agrees(V, s, push(pop(s), from_bool(p)), Len(s), Len(s) - 1)
      BY <1>3, <1>4, <2>3, StackShapes
    <3>3. Fine(1, 0) BY <1>3, <1>7, <2>1, <2>3, <3>1, <3>2
    <3>4. QED BY <1>2, <1>13, <3>3 DEF V
  <2>4. QED BY <2>2, <2>3
<1>14. CASE f = "br_true"
  <2>1. Reach(f, o) = 1 /\ Taken(f, o) = 1 BY <1>14 DEF Reach, Taken
  <2>2. CASE Len(s) < 1 BY <1>2, <1>6, <1>14, <2>1, <2>2 DEF V
  <2>3. CASE ~(Len(s) < 1)
    <3>1. /\ r.stack = pop(s) /\ r.result \in {"NormalReturn", "JumpTo"}
          /\ r.result = "JumpTo" => r.to = o.value.value
      BY <1>14, <2>1, <2>3 DEF Call, br_true, NormalReturn, JumpTo, Result
    <3>2. Agrees(V, s, pop(s), Len(s) - 1, Len(s) - 1) BY <1>3, <1>4, <2>3, StackShapes
    <3>5. Agrees(V, s, r.stack, Len(s) - 1, Len(s) - 1) BY <3>1, <3>2
    <3>6. r.result = "JumpTo" => f = "br_true" /\ r.to = o.value.value BY <1>14, <3>1
    <3>7. r.result \in {"NormalReturn", "ReturnIsNext", "JumpTo"} BY <3>1
    <3>3. Fine(1, 1) BY <1>3, <1>7, <2>1, <3>5, <3>6, <3>7
    <3>4. QED BY <1>2, <1>14, <3>3 DEF V
  <2>4. QED BY <2>2, <2>3
<1>15. CASE f = "log_"
  <2>1. Reach(f, o) = 1 /\ Taken(f, o) = 1 BY <1>15 DEF Reach, Taken
  <2>2. CASE Len(s) < 1 BY <1>2, <1>6, <1>15, <2>1, <2>2 DEF V
  <2>3. CASE ~(Len(s) < 1)
    <3>1. r.stack = pop(s) /\ r.result = "NormalReturn"
      BY <1>15, <2>1, <2>3 DEF Call, log_, NormalReturn, Result
    <3>2. Agrees(V, s, pop(s), Len(s) - 1, Len(s) - 1) BY <1>3, <1>4, <2>3, StackShapes
    <3>3. Fine(1, 1) BY <1>3, <1>7, <2>1, <2>3, <3>1, <3>2
    <3>4. QED BY <1>2, <1>15, <3>3 DEF V
  <2>4. QED BY <2>2, <2>3
<1>16. CASE f \in {"addI", "subI", "mulI", "eqI", "addF", "eqF", "eq", "add", "drop"}
  <2>1. Reach(f, o) = 2 /\ Taken(f, o) = 1 /\ f # "restack" BY <1>16 DEF Reach, Taken
  <2>2. CASE Len(s) < 2 BY <1>2, <1>6, <2>1, <2>2 DEF V
  <2>3. CASE ~(Len(s) < 2)
    <3>0. Len(s) >= 1 /\ Len(s) >= 2 BY <1>3, <2>3
    <3>1. /\ top(s) \in V /\ top(pop(s)) \in V /\ top(s).value \in Int /\ top(pop(s)).value \in Int
      BY <1>3, <1>4, <3>0, StackShapes
    <3>2. /\ top(pop(s)).value + top(s).value \in Int /\ top(s).value + top(pop(s)).value \in Int
          /\ top(pop(s)).value - top(s).value \in Int /\ top(pop(s)).value * top(s).value \in Int
      BY <3>1
    <3>3. ASSUME r = primitive_fail(s) PROVE Fine(2, 1) BY <1>8, <2>1, <3>3
    <3>4. ASSUME NEW v \in V, r = NormalReturn(push(pop(pop(s)), v)) \/ r = NormalReturn(replace(pop(s), v))
          PROVE  Fine(2, 1)
      <4>1. /\ Agrees(V, s, push(pop(pop(s)), v), Len(s) - 1, Len(s) - 2)
            /\ Agrees(V, s, replace(pop(s), v), Len(s) - 1, Len(s) - 2)
        BY <1>3, <3>0, StackShapes
      <4>2. Len(s) - 1 \in Nat /\ Len(s) - 2 \in Nat BY <1>3, <3>0
      <4>3. /\ r.result = "NormalReturn"
            /\ r.stack = push(pop(pop(s)), v) \/ r.stack = replace(pop(s), v)
        BY <3>4 DEF NormalReturn, Result
      <4>4. Agrees(V, s, r.stack, Len(s) - 1, Len(s) - 2) BY <4>1, <4>3
      <4>5. /\ Len(s) - 1 \in Int /\ Len(s) - 2 \in Int /\ 2 \in 0 .. 2 /\ 1 \in -1 .. 1
            /\ Len(s) - 1 >= Len(s) - 1 /\ Len(s) - 2 >= Len(s) - 2
        BY <1>3
      <4>6. QED BY <1>7, <2>1, <4>3, <4>4, <4>5
    <3>5. ASSUME NEW v \in V, r = NormalReturn(push(pop(s), v)) PROVE Fine(2, 1)
      <4>1. Agrees(V, s, push(pop(s), v), Len(s), Len(s) - 1) BY <1>3, <3>0, StackShapes
      <4>2. r.stack = push(pop(s), v) /\ r.result = "NormalReturn" BY <3>5 DEF NormalReturn, Result
      <4>3. QED BY <1>3, <1>7, <2>1, <3>0, <4>1, <4>2
    <3>6. ASSUME f = "addI" PROVE Fine(2, 1)
      <4>1. r = addI(s) BY <2>1, <2>3, <3>6 DEF Call
      <4>2. QED BY <1>4, <3>2, <3>3, <3>4, <4>1 DEF addI
    <3>7. ASSUME f = "subI" PROVE Fine(2, 1)
      <4>1. r = subI(s) BY <2>1, <2>3, <3>7 DEF Call
      <4>2. QED BY <1>4, <3>2, <3>3, <3>4, <4>1 DEF subI
    <3>8. ASSUME f = "mulI" PROVE Fine(2, 1)
      <4>1. r = mulI(s) BY <2>1, <2>3, <3>8 DEF Call
      <4>2. CASE r = Result(pop(s), "panic", 0)
        <5>1. r.stack = pop(s) /\ r.result = "panic" BY <4>2 DEF Result
        <5>2. Agrees(V, s, pop(s), Len(s) - 1, Len(s) - 1) BY <1>3, <1>4, <3>0, StackShapes
        <5>3. Agrees(V, s, r.stack, Len(s) - 1, Len(s) - 2) BY <1>3, <1>5, <5>1, <5>2
        <5>4. Len(s) - 1 \in Nat /\ Len(s) - 1 >= Len(s) - 1 BY <1>3, <3>0
        <5>5. QED BY <2>1, <5>1, <5>3, <5>4 DEF Fine
      <4>3. CASE r # Result(pop(s), "panic", 0)
        BY <1>4, <3>2, <3>3, <3>4, <4>1, <4>3 DEF mulI
      <4>4. QED BY <4>2, <4>3
    <3>9. ASSUME f = "eqI" PROVE Fine(2, 1)
      <4>1. r = eqI(s) BY <2>1, <2>3, <3>9 DEF Call
      <4>2. QED BY <1>4, <3>3, <3>4, <3>5, <4>1 DEF eqI, Equals
    <3>10. ASSUME f = "eqF" PROVE Fine(2, 1)
      <4>1. r = eqF(s) BY <2>1, <2>3, <3>10 DEF Call
      <4>2. QED BY <1>4, <3>3, <3>4, <3>5, <4>1 DEF eqF, Equals
    <3>11. ASSUME f = "addF" PROVE Fine(2, 1)
      <4>1. r = addF(s) BY <2>1, <2>3, <3>11 DEF Call
      <4>2. QED BY <1>4, <3>2, <3>3, <3>4, <4>1 DEF addF
    <3>12. ASSUME f = "eq" PROVE Fine(2, 1)
      <4>1. r = eq(s) BY <2>1, <2>3, <3>12 DEF Call
      <4>2. QED BY <1>4, <3>4, <4>1 DEF eq
    <3>13. ASSUME f = "add" PROVE Fine(2, 1)
      <4>1. r = add(s) BY <2>1, <2>3, <3>13 DEF Call
      <4>2. QED BY <1>4, <3>2, <3>3, <3>4, <4>1 DEF add
    <3>14. ASSUME f = "drop" PROVE Fine(2, 1)
      <4>1. r.stack = pop(s) /\ r.result = "NormalReturn"
        BY <2>1, <2>3, <3>14 DEF Call, drop, NormalReturn, Result
      <4>4. /\ Len(s) - 1 \in Int /\ 2 \in 0 .. 2 /\ 1 \in -1 .. 1
            /\ Len(s) - 1 >= Len(s) - 1 /\ Len(s) - 1 >= Len(s) - 2
        BY <1>3
      <4>2. Agrees(V, s, pop(s), Len(s) - 1, Len(s) - 1) BY <1>3, <1>4, <3>0, StackShapes
      <4>5. Agrees(V, s, r.stack, Len(s) - 1, Len(s) - 1) BY <4>1, <4>2
      <4>3. QED BY <1>7, <2>1, <4>1, <4>4, <4>5
    <3>15. Fine(2, 1)
      BY <1>16, <3>6, <3>7, <3>8, <3>9, <3>10, <3>11, <3>12, <3>13, <3>14
    <3>16. QED BY <1>2, <2>1, <3>15 DEF V
  <2>4. QED BY <2>2, <2>3
<1>17. QED
  BY <1>1, <1>10, <1>11, <1>12, <1>13, <1>14, <1>15, <1>16 DEF Instructions

(* What sends run: no constant, jump or restack, and what takes no more than *)
(* receiver and arguments reaches no deeper.                                 *)
Sent ==
  {"yourself", "log_", "eqI", "addI", "subI", "mulI", "addF", "eqF", "eq", "add", "nop", "dup"}

LEMMA SentFunctions == \A p : prim_lookup(p) \subseteq Sent
<1> DEFINE Names == {"yourself prim", "log: prim", "7", "1", "2", "9", "41", "47", "110", "nop", "dup"}
           L == Names \X Sent
<1>0. \A a \in Names : \A f \in Sent : <<a, f>> \in L OBVIOUS
<1> HIDE DEF L
<1>a. \A a, b \in L : <<a, b>> \in Seq(L) OBVIOUS
<1>b. \A a, b, c, d \in L : <<a, b, c, d>> \in Seq(L) OBVIOUS
<1>1. object_load \in Seq(L)
  <2>1. <<"yourself prim", "yourself">> \in L /\ <<"log: prim", "log_">> \in L BY <1>0 DEF Sent
  <2>2. QED BY <1>a, <2>1 DEF object_load
<1>2. smallInteger_load \in Seq(L)
  <2>1. /\ <<"7", "eqI">> \in L /\ <<"1", "addI">> \in L /\ <<"2", "subI">> \in L
        /\ <<"9", "mulI">> \in L
    BY <1>0 DEF Sent
  <2>2. QED BY <1>b, <2>1 DEF smallInteger_load
<1>3. double_load \in Seq(L)
  <2>1. <<"41", "addF">> \in L /\ <<"47", "eqF">> \in L BY <1>0 DEF Sent
  <2>2. QED BY <1>a, <2>1 DEF double_load
<1>4. stack_load \in Seq(L)
  <2>1. /\ <<"110", "eq">> \in L /\ <<"1", "add">> \in L /\ <<"nop", "nop">> \in L
        /\ <<"dup", "dup">> \in L
    BY <1>0 DEF Sent
  <2>2. QED BY <1>b, <2>1 DEF stack_load
<1>5. object_load \o smallInteger_load \in Seq(L) BY <1>1, <1>2, ConcatProperties
<1>6. (object_load \o smallInteger_load) \o double_load \in Seq(L) BY <1>3, <1>5, ConcatProperties
<1>7. loads \in Seq(L) BY <1>4, <1>6, ConcatProperties DEF loads
<1>8. \A i \in DOMAIN loads : loads[i] \in L BY <1>7
<1>9. \A i \in DOMAIN loads : loads[i][2] \in Sent BY <1>8 DEF L
<1>10. QED BY <1>9 DEF prim_lookup

LEMMA SentReach ==
  ASSUME NEW f \in Sent, NEW o, NEW n \in Nat, Taken(f, o) <= n
  PROVE  f \in Instructions /\ Fit(f, o) /\ f # "restack" /\ f # "br_true" /\ Reach(f, o) <= n + 1
<1>1. CASE f \in {"yourself", "nop"} BY <1>1 DEF Taken, Reach, Instructions, Fit
<1>2. CASE f \in {"log_", "dup"} BY <1>2 DEF Taken, Reach, Instructions, Fit
<1>3. CASE f \in {"eqI", "addI", "subI", "mulI", "addF", "eqF", "eq", "add"}
  <2>1. Taken(f, o) = 1 /\ Reach(f, o) = 2 BY <1>3 DEF Taken, Reach
  <2>2. QED BY <1>3, <2>1 DEF Instructions, Fit
<1>4. QED BY <1>1, <1>2, <1>3 DEF Sent

-----------------------------------------------------------------------------
(* What Compiled says of the program of a test. *)
LEMMA Program ==
  ASSUME Compiled(Nodes, heights), NEW t \in DOMAIN Tests
  PROVE  /\ EndOf(t) \in Nat /\ heights[t] \in [0 .. EndOf(t) -> Nat]
         /\ SelfOf(t) \in Nat /\ CodeOf(t).parameters \in Nat /\ CodeOf(t).locals \in Nat
         /\ Tests[t].stack \in Seq(Constants)
         /\ heights[t][0] <= Len(Tests[t].stack) + CodeOf(t).locals
BY DEF Compiled, Checked, EndOf, SelfOf, CodeOf

Finds(t, p, l) ==
  LET i == CodeOf(t).code[p + 1]
  IN /\ OperandOf(i)
     /\ p < EndOf(t) => heights[t][p + 1] <= l
     /\ i.function = "br_true" /\ i.operand.value.value <= EndOf(t) =>
          heights[t][i.operand.value.value] <= l

LEMMA ProgramStep ==
  ASSUME Compiled(Nodes, heights), NEW t \in DOMAIN Tests, NEW p \in 0 .. EndOf(t)
  PROVE  LET i == CodeOf(t).code[p + 1]
         IN /\ OperandOf(i)
            /\ i.function = "dispatch" =>
                 /\ Finds(t, p, heights[t][p] - i.selector.arity)
                 /\ heights[t][p] > i.selector.arity
                 /\ p < EndOf(t) => heights[t][p] > SelfOf(t) + i.selector.arity
            /\ i.function # "dispatch" => Finds(t, p, heights[t][p] - Taken(i.function, i.operand))
<1>1. Checked(CodeOf(t), Tests[t].stack, heights[t]) BY DEF Compiled, CodeOf
<1>2. QED BY <1>1 DEF Checked, EndOf, SelfOf, CodeOf, Finds

LEMMA TreeFacts ==
  ASSUME Compiled(Nodes, heights), NEW n \in Nodes
  PROVE  /\ n.parts \in Seq(Nodes) /\ n.value \in Constants /\ n.selector.arity \in Nat
         /\ n.kind = "send" => Len(n.parts) > n.selector.arity
         /\ n.kind = "return" => n.parts # <<>>
BY DEF Compiled, Trees

LEMMA ImageFacts ==
  ASSUME Compiled(Nodes, heights), NEW t \in DOMAIN Tests, NEW image \in Images[t],
         NEW class \in DOMAIN image, NEW i \in DOMAIN image[class]
  PROVE  /\ image[class][i] \in Nodes
         /\ \A f \in prim_lookup(image[class][i].primitive) :
              Taken(f, nilObject) <= image[class][i].selector.arity
<1>1. /\ image[class] \in Seq(Nodes)
      /\ \A j \in DOMAIN image[class] : \A f \in prim_lookup(image[class][j].primitive) :
           Taken(f, nilObject) <= image[class][j].selector.arity
  BY DEF Compiled, MethodsOf
<1>2. QED BY <1>1

-----------------------------------------------------------------------------
(* The calls, each with how deep it reaches in the stack, and the frames. *)
Shape(t, cs, b, fs, s) ==
  IsSequence(cs) /\ Chain(t, cs, b) /\ Order(cs, b, fs, s) /\ fs \in Seq(Nat) /\ s \in Nat

LEMMA ShapePop ==
  ASSUME NEW t, NEW cs, NEW b, NEW fs, NEW s, Shape(t, cs, b, fs, s), cs # <<>>, One(top(cs)) = 0
  PROVE  Shape(t, pop(cs), pop(b), fs, s)
<1>1. b \in Seq(Nat) /\ Len(b) = Len(cs) BY DEF Shape, Chain
<1>2. QED BY <1>1, PopAt, ChainPopped, OrderPopped DEF Shape

LEMMA ShapeEnd ==
  ASSUME NEW t, NEW cs, NEW b, NEW fs, NEW s, Shape(t, cs, b, fs, s), cs # <<>>, One(top(cs)) = 1
  PROVE  Shape(t, pop(cs), pop(b), pop(fs), top(fs)) /\ s = top(b) /\ push(pop(fs), top(fs)) = fs
<1>1. b \in Seq(Nat) /\ Len(b) = Len(cs) BY DEF Shape, Chain
<1>2. QED BY <1>1, PopAt, ChainPopped, OrderFinished DEF Shape

(* e may be called by the last of cs, and reaches no deeper than m. *)
Callable(t, cs, b, e, m) ==
  /\ m \in Nat /\ Holds(t, e, m)
  /\ cs # <<>> => e.at \notin {"code", "tail"}
  /\ \A i \in 1 .. Len(cs) : Above(t, cs[i], b[i], m)
  /\ e.at \in {"expression", "return"} => \E j \in 1 .. Len(cs) : cs[j].at = "body"

LEMMA ShapePush ==
  ASSUME NEW t, NEW cs, NEW b, NEW fs, NEW s, Shape(t, cs, b, fs, s), NEW e, NEW m,
         Callable(t, cs, b, e, m)
  PROVE  /\ One(e) = 0 => Shape(t, push(cs, e), push(b, m), fs, s)
         /\ One(e) = 1 => Shape(t, push(cs, e), push(b, m), push(fs, s), m)
         /\ top(push(cs, e)) = e /\ top(push(b, m)) = m /\ push(cs, e) # <<>>
<1>1. b \in Seq(Nat) /\ Len(b) = Len(cs) /\ m \in Nat /\ IsSequence(cs)
      /\ fs \in Seq(Nat) /\ s \in Nat /\ Order(cs, b, fs, s)
  BY DEF Shape, Chain, Callable
<1>2. Chain(t, push(cs, e), push(b, m)) /\ top(push(b, m)) = m
  <2>1. Chain(t, cs, b) /\ Holds(t, e, m) BY DEF Shape, Callable
  <2>2. cs # <<>> => e.at \notin {"code", "tail"} BY DEF Callable
  <2>3. \A i \in 1 .. Len(cs) : Above(t, cs[i], b[i], m) BY DEF Callable
  <2>4. e.at \in {"expression", "return"} => \E j \in 1 .. Len(cs) : cs[j].at = "body"
    BY DEF Callable
  <2>5. m \in Nat /\ IsSequence(cs) BY <1>1
  <2>6. QED BY <2>1, <2>2, <2>3, <2>4, <2>5, ChainPushed
<1>3. IsSequence(push(cs, e)) /\ top(push(cs, e)) = e /\ push(cs, e) # <<>> BY <1>1, PushAt
<1>4. One(e) = 0 => Order(push(cs, e), push(b, m), fs, s) BY <1>1, OrderPushed
<1>5. One(e) = 1 => Order(push(cs, e), push(b, m), push(fs, s), m) BY <1>1, OrderStarted
<1>6. push(fs, s) \in Seq(Nat) BY <1>1 DEF push
<1>7. QED BY <1>1, <1>2, <1>3, <1>4, <1>5, <1>6 DEF Shape

(* Who may go on when what it called ends, and who may be called there. *)
LEMMA AboveMonotone ==
  ASSUME Compiled(Nodes, heights), NEW t \in DOMAIN Tests, NEW e, NEW b \in Nat, Holds(t, e, b),
         NEW n \in Int, Above(t, e, b, n)
  PROVE  /\ \A m \in Int : m >= n => Above(t, e, b, m)
         /\ \A l \in Int : l >= n + 1 => Ready(t, e, b, l)
<1>1. e.next \in Nat BY DEF Holds
<1>2. e.at = "code" /\ e.next <= EndOf(t) => heights[t][e.next] \in Nat
  BY <1>1, Program
<1>3. \A m \in Int : m >= n => Above(t, e, b, m) BY <1>1, <1>2 DEF Above
<1>4. \A l \in Int : l >= n + 1 => Ready(t, e, b, l) BY <1>1, <1>2 DEF Above, Ready
<1>5. QED BY <1>3, <1>4

LEMMA ShapeTop ==
  ASSUME NEW t, NEW cs, NEW b, NEW fs, NEW s, Shape(t, cs, b, fs, s), cs # <<>>
  PROVE  /\ top(b) \in Nat /\ Len(cs) \in Nat \ {0} /\ top(cs) = cs[Len(cs)] /\ top(b) = b[Len(cs)]
         /\ Holds(t, top(cs), top(b)) /\ IsSequence(pop(cs)) /\ Len(pop(cs)) = Len(cs) - 1
         /\ \A i \in 1 .. Len(cs) - 1 : pop(cs)[i] = cs[i] /\ pop(b)[i] = b[i] /\ b[i] \in Nat
         /\ \A i \in 1 .. Len(cs) - 1 : Holds(t, cs[i], b[i])
         /\ \A i \in 1 .. Len(cs) - 1 : Above(t, cs[i], b[i], top(b))
         /\ top(cs).at \in {"code", "tail"} => pop(cs) = <<>>
         /\ top(cs).at \in {"expression", "return"} => \E j \in 1 .. Len(cs) - 1 : cs[j].at = "body"
<1>1. /\ Chain(t, cs, b) /\ IsSequence(cs) /\ b \in Seq(Nat) /\ Len(b) = Len(cs)
  BY DEF Shape, Chain
<1>2. /\ Len(cs) \in Nat \ {0} /\ top(cs) = cs[Len(cs)] /\ IsSequence(pop(cs)) /\ Len(pop(cs)) = Len(cs) - 1
      /\ \A i \in 1 .. Len(cs) - 1 : pop(cs)[i] = cs[i]
  BY <1>1, PopAt
<1>3. b # <<>> BY <1>1, <1>2, EmptySeq
<1>4. /\ \A i \in 1 .. Len(b) - 1 : pop(b)[i] = b[i]
      /\ top(b) = b[Len(b)]
  BY <1>1, <1>3, PopAt, SeqIs
<1>5. Len(cs) \in 1 .. Len(cs) BY <1>2
<1>6. \A i \in 1 .. Len(cs) - 1 : i \in 1 .. Len(cs) BY <1>2
<1>7. \A i \in 1 .. Len(cs) : b[i] \in Nat BY <1>1
<1>8. Holds(t, top(cs), top(b)) BY <1>1, <1>2, <1>4, <1>5 DEF Chain
<1>9. \A i \in 1 .. Len(cs) - 1 : Holds(t, cs[i], b[i]) /\ Above(t, cs[i], b[i], top(b))
  BY <1>1, <1>4, <1>5, <1>6 DEF Chain
<1>10. ASSUME top(cs).at \in {"code", "tail"} PROVE pop(cs) = <<>>
  <2>1. Len(cs) \notin 2 .. Len(cs) BY <1>1, <1>2, <1>10 DEF Chain
  <2>2. Len(pop(cs)) = 0 BY <1>2, <2>1
  <2>3. QED BY <1>2, <2>2, EmptySeq DEF IsSequence
<1>11. top(cs).at \in {"expression", "return"} => \E j \in 1 .. Len(cs) - 1 : cs[j].at = "body"
  BY <1>1, <1>2, <1>5 DEF Chain
<1>12. QED BY <1>1, <1>2, <1>4, <1>5, <1>6, <1>7, <1>8, <1>9, <1>10, <1>11

-----------------------------------------------------------------------------
(* The invariant: b is how deep each call reaches. *)
Typed ==
  /\ test \in DOMAIN Tests /\ classes \in Images[test]
  /\ closures \in Seq(Nodes) /\ Len(closures) <= NurseryRoom
  /\ stack \in Seq(Values(Len(closures)))
  /\ self_index \in Nat /\ frames \in Seq(Nat) /\ returned \in BOOLEAN

Based(b) ==
  /\ calls # <<>> /\ Shape(test, calls, b, frames, self_index)
  /\ Ready(test, top(calls), top(b), Len(stack))

StackInv ==
  /\ Typed
  /\ outcome = "idle" =>
       calls = <<>> /\ frames = <<>> /\ self_index = 0 /\ stack = Tests[test].stack
  /\ outcome = "running" => \E b : Based(b)

LEMMA NowFacts ==
  ASSUME Typed, NEW b, Based(b)
  PROVE  /\ current = top(calls) /\ callers = pop(calls) /\ Holds(test, current, top(b))
         /\ top(b) \in Nat /\ Len(stack) \in Nat /\ test \in DOMAIN Tests
         /\ Ready(test, current, top(b), Len(stack))
<1>1. current = top(calls) /\ callers = pop(calls) BY DEF current, top, callers
<1>2. Len(stack) \in Nat /\ test \in DOMAIN Tests BY DEF Typed
<1>3. QED BY <1>1, <1>2, ShapeTop DEF Based

LEMMA KeepsRunning ==
  ASSUME Typed', test' = test, NEW cs, cs # <<>>, Calls(cs), NEW b,
         Shape(test, cs, b, frames', self_index'), Ready(test, top(cs), top(b), Len(stack'))
  PROVE  StackInv'
<1>1. calls' = cs /\ outcome' = "running" BY DEF Calls
<1>2. Based(b)' BY <1>1 DEF Based
<1>3. QED BY <1>1, <1>2 DEF StackInv

LEMMA Stops ==
  ASSUME Typed', outcome' \notin {"idle", "running"} PROVE StackInv'
BY DEF StackInv

(* The last call ends, and leaves an object more than what it reaches to. *)
LEMMA Unwinds ==
  ASSUME Compiled(Nodes, heights), Typed, Typed', test' = test, NEW b, Based(b), Calls(callers),
         Shape(test, pop(calls), pop(b), frames', self_index'), Len(stack') >= top(b) + 1
  PROVE  StackInv'
<1>1. callers = pop(calls) /\ top(b) \in Nat /\ test \in DOMAIN Tests BY NowFacts
<1>2. CASE callers = <<>> BY <1>2, Stops DEF Calls
<1>3. CASE callers # <<>>
  <2> DEFINE n == Len(calls) - 1
  <2>1. /\ Len(calls) \in Nat \ {0} /\ Len(pop(calls)) = n /\ IsSequence(pop(calls))
        /\ \A i \in 1 .. n : pop(calls)[i] = calls[i] /\ pop(b)[i] = b[i] /\ b[i] \in Nat
        /\ \A i \in 1 .. n : Above(test, calls[i], b[i], top(b)) /\ Holds(test, calls[i], b[i])
    BY ShapeTop DEF Based
  <2>2. n \in 1 .. n
    <3>1. n # 0 BY <1>1, <1>3, <2>1, EmptySeq DEF IsSequence
    <3>2. QED BY <2>1, <3>1
  <2>3. top(pop(calls)) = calls[n] BY <2>1, <2>2 DEF top
  <2>4. top(pop(b)) = b[n]
    <3>1. Len(pop(b)) = n BY <2>1 DEF Shape, Chain
    <3>2. QED BY <2>1, <2>2, <3>1 DEF top
  <2>5. Above(test, calls[n], b[n], top(b)) /\ Holds(test, calls[n], b[n]) /\ b[n] \in Nat
    BY <2>1, <2>2
  <2>6. Len(stack') \in Int BY DEF Typed
  <2> HIDE DEF n
  <2>7. Ready(test, calls[n], b[n], Len(stack')) BY <1>1, <2>5, <2>6, AboveMonotone
  <2>8. Ready(test, top(pop(calls)), top(pop(b)), Len(stack')) BY <2>3, <2>4, <2>7
  <2>9. QED BY <1>1, <1>3, <2>8, KeepsRunning
<1>4. QED BY <1>2, <1>3

LEMMA ReturnStep ==
  ASSUME Compiled(Nodes, heights), Typed, Typed', test' = test, NEW b, Based(b), Calls(callers),
         One(current) = 0, UNCHANGED <<frames, self_index>>, Len(stack') >= top(b) + 1
  PROVE  StackInv'
<1>1. Shape(test, pop(calls), pop(b), frames, self_index)
  BY NowFacts, ShapePop DEF Based
<1>2. QED BY <1>1, Unwinds

LEMMA EndStep ==
  ASSUME Compiled(Nodes, heights), Typed, Typed', test' = test, NEW b, Based(b), Calls(callers),
         One(current) = 1, end_method, Len(stack') >= top(b) + 1
  PROVE  StackInv'
<1>1. Shape(test, pop(calls), pop(b), pop(frames), top(frames))
  BY NowFacts, ShapeEnd DEF Based
<1>2. frames' = pop(frames) /\ self_index' = top(frames) BY DEF end_method
<1>3. QED BY <1>1, <1>2, Unwinds

(* The last call goes on as e. *)
LEMMA Replaced ==
  ASSUME NEW t, NEW cs, NEW b, NEW fs, NEW s, Shape(t, cs, b, fs, s), cs # <<>>,
         NEW e, One(e) = One(top(cs)), Holds(t, e, top(b)),
         e.at \in {"code", "tail"} => top(cs).at \in {"code", "tail"},
         e.at \in {"expression", "return"} => top(cs).at \in {"expression", "return"}
  PROVE  /\ Shape(t, push(pop(cs), e), push(pop(b), top(b)), fs, s)
         /\ Callable(t, pop(cs), pop(b), e, top(b))
         /\ top(push(pop(cs), e)) = e /\ top(push(pop(b), top(b))) = top(b)
         /\ push(pop(cs), e) # <<>>
<1> DEFINE n == Len(cs) - 1
<1>1. /\ Len(pop(cs)) = n /\ top(b) \in Nat
      /\ \A i \in 1 .. n : pop(cs)[i] = cs[i] /\ pop(b)[i] = b[i] /\ Above(t, cs[i], b[i], top(b))
      /\ top(cs).at \in {"code", "tail"} => pop(cs) = <<>>
      /\ top(cs).at \in {"expression", "return"} => \E j \in 1 .. n : cs[j].at = "body"
  BY ShapeTop
<1>2. Callable(t, pop(cs), pop(b), e, top(b)) BY <1>1 DEF Callable
<1>3. CASE One(e) = 0
  <2>1. Shape(t, pop(cs), pop(b), fs, s) BY <1>3, ShapePop
  <2>2. QED BY <1>2, <1>3, <2>1, ShapePush
<1>4. CASE One(e) = 1
  <2>1. Shape(t, pop(cs), pop(b), pop(fs), top(fs)) /\ s = top(b) /\ push(pop(fs), top(fs)) = fs
    BY <1>4, ShapeEnd
  <2>2. /\ Shape(t, push(pop(cs), e), push(pop(b), top(b)), push(pop(fs), top(fs)), top(b))
        /\ top(push(pop(cs), e)) = e /\ top(push(pop(b), top(b))) = top(b) /\ push(pop(cs), e) # <<>>
    BY <1>2, <1>4, <2>1, ShapePush
  <2>3. QED BY <1>2, <2>1, <2>2
<1>5. QED BY <1>3, <1>4 DEF One

LEMMA GoOnStep ==
  ASSUME Compiled(Nodes, heights), Typed, Typed', test' = test, NEW b, Based(b),
         NEW e, Calls(push(callers, e)), One(e) = One(current), UNCHANGED <<frames, self_index>>,
         Holds(test, e, top(b)), Ready(test, e, top(b), Len(stack')),
         e.at \in {"code", "tail"} => current.at \in {"code", "tail"},
         e.at \in {"expression", "return"} => current.at \in {"expression", "return"}
  PROVE  StackInv'
<1>1. current = top(calls) /\ callers = pop(calls) BY NowFacts
<1>2. /\ Shape(test, push(pop(calls), e), push(pop(b), top(b)), frames, self_index)
      /\ top(push(pop(calls), e)) = e /\ top(push(pop(b), top(b))) = top(b)
      /\ push(pop(calls), e) # <<>>
  BY <1>1, Replaced DEF Based
<1>3. QED BY <1>1, <1>2, KeepsRunning

(* It goes on as e when f, which it calls, has ended. *)
LEMMA CallStep ==
  ASSUME Compiled(Nodes, heights), Typed, Typed', test' = test, NEW b, Based(b),
         NEW e, NEW f, Calls(push(push(callers, e), f)),
         One(e) = One(current), One(f) = 0, UNCHANGED <<frames, self_index>>,
         Holds(test, e, top(b)),
         e.at \in {"code", "tail"} => current.at \in {"code", "tail"},
         e.at \in {"expression", "return"} => current.at \in {"expression", "return"},
         NEW m \in Nat, Above(test, e, top(b), m), Holds(test, f, m),
         Ready(test, f, m, Len(stack')), f.at \notin {"code", "tail"},
         f.at \in {"expression", "return"} => current.at \in {"body", "expression", "return"},
         current.at = "body" => e.at = "body"
  PROVE  StackInv'
<1>1. current = top(calls) /\ callers = pop(calls) /\ test \in DOMAIN Tests BY NowFacts
<1> DEFINE cs == push(pop(calls), e)  d == push(pop(b), top(b))  n == Len(calls) - 1
<1>2. Shape(test, cs, d, frames, self_index) /\ cs # <<>> /\ top(cs) = e /\ top(d) = top(b)
  BY <1>1, Replaced DEF Based
<1>3. /\ Len(calls) \in Nat \ {0} /\ top(b) \in Nat /\ IsSequence(pop(calls)) /\ Len(pop(calls)) = n
      /\ \A i \in 1 .. n : pop(calls)[i] = calls[i] /\ pop(b)[i] = b[i] /\ b[i] \in Nat
      /\ \A i \in 1 .. n : Above(test, calls[i], b[i], top(b)) /\ Holds(test, calls[i], b[i])
      /\ current.at \in {"expression", "return"} => \E j \in 1 .. n : calls[j].at = "body"
  BY <1>1, ShapeTop DEF Based
<1>4. /\ Len(cs) = n + 1 /\ \A i \in 1 .. n : cs[i] = calls[i]
      /\ cs[n + 1] = e
  BY <1>3, PushAt
<1>5. /\ \A i \in 1 .. n : d[i] = b[i]
      /\ d[n + 1] = top(b)
  <2>1. /\ pop(cs) = pop(cs) /\ Len(cs) - 1 = n BY <1>3, <1>4
  <2>2. b \in Seq(Nat) /\ b # <<>> /\ Len(b) = n + 1
    <3>1. b \in Seq(Nat) /\ Len(b) = Len(calls) BY DEF Based, Shape, Chain
    <3>2. QED BY <1>3, <3>1, EmptySeq
  <2>3. pop(b) \in Seq(Nat) /\ Len(pop(b)) = n BY <1>3, <2>2, PopFacts
  <2>4. IsSequence(pop(b)) BY <2>3, SeqIs
  <2>5. /\ \A i \in 1 .. n : push(pop(b), top(b))[i] = pop(b)[i]
        /\ push(pop(b), top(b))[n + 1] = top(b)
    BY <2>3, <2>4, PushAt
  <2>6. QED BY <1>3, <2>5
<1>6. top(b) <= m BY DEF Above
<1>7. \A i \in 1 .. n + 1 : Above(test, cs[i], d[i], m)
  <2>1. \A i \in 1 .. n : Above(test, calls[i], b[i], m) BY <1>1, <1>3, <1>6, AboveMonotone
  <2>2. \A i \in 1 .. n + 1 : i \in 1 .. n \/ i = n + 1 BY <1>3
  <2>3. QED BY <1>4, <1>5, <2>1, <2>2
<1>8. ASSUME f.at \in {"expression", "return"} PROVE \E j \in 1 .. n + 1 : cs[j].at = "body"
  <2>1. n \in Nat BY <1>3
  <2>2. CASE current.at = "body" BY <1>4, <2>1, <2>2
  <2>3. CASE current.at \in {"expression", "return"}
    <3>1. PICK j \in 1 .. n : calls[j].at = "body" BY <1>3, <2>3
    <3>2. j \in 1 .. n + 1 BY <2>1
    <3>3. QED BY <1>4, <3>1, <3>2
  <2>4. QED BY <1>8, <2>2, <2>3
<1>9. Callable(test, cs, d, f, m) BY <1>4, <1>7, <1>8 DEF Callable
<1>10. callers = pop(calls) BY <1>1
<1>11. Calls(push(cs, f)) BY <1>10
<1> HIDE DEF cs, d, n
<1>12. /\ Shape(test, push(cs, f), push(d, m), frames, self_index)
       /\ top(push(cs, f)) = f /\ top(push(d, m)) = m /\ push(cs, f) # <<>>
  BY <1>2, <1>9, ShapePush
<1>13. QED BY <1>11, <1>12, KeepsRunning

-----------------------------------------------------------------------------
(* Methods that are compiled. *)
LEMMA TypedKept ==
  ASSUME Typed, UNCHANGED <<classes, test, closures>>, stack' \in Seq(Values(Len(closures))),
         self_index' \in Nat, frames' \in Seq(Nat), returned' \in BOOLEAN
  PROVE  Typed'
BY DEF Typed

LEMMA OperandFits ==
  ASSUME NEW i, OperandOf(i), i.function # "dispatch"
  PROVE  /\ i.function \in Instructions /\ Fit(i.function, i.operand)
         /\ i.function = "br_true" => i.operand.value.value \in Nat
<1>1. CASE i.function = "constant" BY <1>1 DEF OperandOf, Fit, Instructions
<1>2. CASE i.function = "br_true" BY <1>2 DEF OperandOf, Fit, Instructions
<1>3. CASE i.function = "restack" BY <1>3 DEF OperandOf, Fit, Instructions
<1>4. CASE i.function \notin {"constant", "br_true", "restack"} BY <1>4 DEF OperandOf, Fit
<1>5. QED BY <1>1, <1>2, <1>3, <1>4

LEMMA NothingYet == \A t : Shape(t, <<>>, <<>>, <<>>, 0)
<1>1. <<>> \in Seq(Nat) /\ Len(<<>>) = 0 OBVIOUS
<1>2. \A t : Chain(t, <<>>, <<>>) BY <1>1 DEF Chain
<1>3. Ordered(<<>>, <<>>, <<>>, <<>>, 0) BY <1>1, EmptyRunning DEF Ordered
<1>4. Order(<<>>, <<>>, <<>>, 0) BY <1>3 DEF Order
<1>5. QED BY <1>1, <1>2, <1>4, EmptyRunning DEF Shape

LEMMA ExecuteSafe ==
  ASSUME Compiled(Nodes, heights), StackInv, execute
  PROVE  StackInv'
<1> DEFINE e == Entry("code", CodeOf(test), 0)  objects == Tests[test].stack
           V == Values(Len(closures))  m == SelfOf(test)
           nils == [i \in 1 .. CodeOf(test).locals |-> nilObject]
<1>1. /\ Typed /\ calls = <<>> /\ frames = <<>> /\ self_index = 0 /\ stack = objects
      /\ test \in DOMAIN Tests
  BY DEF StackInv, execute, Typed
<1>2. /\ m \in Nat /\ CodeOf(test).locals \in Nat /\ objects \in Seq(Constants)
      /\ heights[test][0] <= Len(objects) + CodeOf(test).locals /\ heights[test][0] \in Nat
      /\ EndOf(test) \in Nat
  BY <1>1, Program
<1>3. /\ frames' = push(<<>>, 0) /\ self_index' = m /\ stack' = objects \o nils /\ Calls(<<e>>)
      /\ UNCHANGED <<classes, test, returned, closures>>
  BY <1>1 DEF execute, start_method, CodeOf, SelfOf
<1>4. Len(closures) \in Nat /\ Constants \subseteq V /\ nilObject \in V
  <2>1. Len(closures) \in Nat BY <1>1 DEF Typed
  <2>2. QED BY <2>1, ValuesMade
<1>5. stack' \in Seq(V) /\ Len(stack') = Len(objects) + CodeOf(test).locals
  <2>1. objects \in Seq(V)
    <3> HIDE DEF V, objects
    <3>1. QED BY <1>2, <1>4
  <2>2. nils \in Seq(V) /\ Len(nils) = CodeOf(test).locals
    <3> HIDE DEF V
    <3>1. QED BY <1>2, <1>4
  <2> HIDE DEF V, objects, nils
  <2>3. objects \o nils \in Seq(V) /\ Len(objects \o nils) = Len(objects) + Len(nils)
    BY <2>1, <2>2, ConcatProperties
  <2>4. QED BY <1>3, <2>2, <2>3
<1>6. frames' \in Seq(Nat) BY <1>3 DEF push
<1>7. Typed' BY <1>1, <1>2, <1>3, <1>5, <1>6, TypedKept DEF Typed
<1>8. Shape(test, <<>>, <<>>, <<>>, 0) BY NothingYet
<1>9. Holds(test, e, m) /\ e.at = "code" /\ e.next = 0 BY DEF Holds, Entry
<1>10. Callable(test, <<>>, <<>>, e, m) BY <1>2, <1>9 DEF Callable
<1>11. One(e) = 1 BY OneOf
<1>12. Ready(test, e, m, Len(stack')) BY <1>2, <1>5, <1>9 DEF Ready
<1>13. push(<<>>, e) = <<e>> BY DEF push
<1> HIDE DEF e, m
<1>14. /\ Shape(test, push(<<>>, e), push(<<>>, m), push(<<>>, 0), m)
       /\ top(push(<<>>, e)) = e /\ top(push(<<>>, m)) = m /\ push(<<>>, e) # <<>>
  BY <1>8, <1>10, <1>11, ShapePush
<1>15. Calls(push(<<>>, e)) BY <1>3, <1>13
<1>16. QED BY <1>3, <1>7, <1>12, <1>14, <1>15, KeepsRunning

(* The instruction that is run, of a method that is, and what it finds. *)
LEMMA AtCode ==
  ASSUME Compiled(Nodes, heights), Typed, NEW b, Based(b), current.at \in {"code", "tail"},
         NEW c, c = code(current.next), current.next <= last
  PROVE  /\ current.node = CodeOf(test) /\ top(b) = SelfOf(test) /\ last = EndOf(test)
         /\ EndOf(test) \in Nat /\ SelfOf(test) \in Nat
         /\ current.next \in 0 .. EndOf(test) /\ callers = <<>> /\ test \in DOMAIN Tests
         /\ c = CodeOf(test).code[current.next + 1]
         /\ heights[test][current.next] \in Nat /\ Len(stack) \in Nat
         /\ heights[test][current.next] <= Len(stack)
         /\ OperandOf(c)
<1>1. /\ Holds(test, current, top(b)) /\ Ready(test, current, top(b), Len(stack))
      /\ test \in DOMAIN Tests /\ Len(stack) \in Nat
  BY NowFacts
<1>2. current.node = CodeOf(test) /\ top(b) = SelfOf(test) /\ current.next \in Nat
  BY <1>1 DEF Holds
<1>3. last = EndOf(test) BY <1>2 DEF last, EndOf
<1>4. callers = <<>> BY NowFacts, ShapeTop DEF Based
<1>5. c = CodeOf(test).code[current.next + 1] BY <1>2 DEF code
<1>6. EndOf(test) \in Nat /\ heights[test] \in [0 .. EndOf(test) -> Nat] /\ SelfOf(test) \in Nat
  BY <1>1, Program
<1>7. current.next \in 0 .. EndOf(test) BY <1>2, <1>3, <1>6
<1>8. heights[test][current.next] <= Len(stack) BY <1>1, <1>7 DEF Ready
<1>9. OperandOf(c) BY <1>1, <1>5, <1>7, ProgramStep
<1>10. QED BY <1>1, <1>2, <1>3, <1>4, <1>5, <1>6, <1>7, <1>8, <1>9

(* What the function of an instruction leaves, of a method that is run. *)
LEMMA AfterFunction ==
  ASSUME Compiled(Nodes, heights), Typed, NEW b, Based(b), current.at \in {"code", "tail"},
         NEW c, c = code(current.next), current.next <= last, c.function # "dispatch",
         NEW r, r = Call(c.function, stack, c.operand)
  PROVE  /\ r.stack \in Seq(Values(Len(closures))) /\ Len(r.stack) \in Nat
         /\ r.result # "panic" /\ current.next < last =>
              heights[test][current.next + 1] <= Len(r.stack)
         /\ r.result = "JumpTo" => r.to \in Nat
         /\ r.result = "JumpTo" /\ r.to <= EndOf(test) => heights[test][r.to] <= Len(r.stack)
<1> DEFINE f == c.function  p == current.next  h == heights[test][p]  k == Taken(c.function, c.operand)
<1>1. /\ last = EndOf(test) /\ EndOf(test) \in Nat /\ p \in 0 .. EndOf(test) /\ test \in DOMAIN Tests
      /\ c = CodeOf(test).code[p + 1] /\ h \in Nat /\ h <= Len(stack) /\ Len(stack) \in Nat
      /\ OperandOf(c)
  BY AtCode
<1>2. /\ f \in Instructions /\ Fit(f, c.operand)
      /\ f = "br_true" => c.operand.value.value \in Nat
  BY <1>1, OperandFits
<1>3. Len(closures) \in Nat /\ stack \in Seq(Values(Len(closures))) BY DEF Typed
<1>4. /\ r.stack \in Seq(Values(Len(closures))) /\ k \in Int /\ Len(r.stack) \in Nat
      /\ r.result = "panic" \/ Len(r.stack) >= Len(stack) - k
      /\ r.result = "JumpTo" => f = "br_true" /\ r.to = c.operand.value.value
  BY <1>2, <1>3, CallSafe
<1>5. Finds(test, p, h - k) BY <1>1, ProgramStep
<1>6. heights[test] \in [0 .. EndOf(test) -> Nat] BY <1>1, Program
<1>7. ASSUME r.result # "panic", p < last PROVE heights[test][p + 1] <= Len(r.stack)
  <2>1. heights[test][p + 1] <= h - k BY <1>1, <1>5, <1>7 DEF Finds
  <2>2. heights[test][p + 1] \in Nat BY <1>1, <1>6, <1>7
  <2> HIDE DEF h, k
  <2>3. QED BY <1>1, <1>4, <1>7, <2>1, <2>2
<1>8. ASSUME r.result = "JumpTo" PROVE r.to \in Nat /\ (r.to <= EndOf(test) => heights[test][r.to] <= Len(r.stack))
  <2>1. r.to \in Nat BY <1>2, <1>4, <1>8
  <2>2. ASSUME r.to <= EndOf(test) PROVE heights[test][r.to] <= Len(r.stack)
    <3>1. heights[test][r.to] <= h - k BY <1>1, <1>4, <1>5, <1>8, <2>2 DEF Finds
    <3>2. r.to \in 0 .. EndOf(test) BY <1>1, <2>1, <2>2
    <3>3. heights[test][r.to] \in Nat BY <1>6, <3>2
    <3>4. Len(r.stack) >= Len(stack) - k BY <1>4, <1>8
    <3>5. /\ h \in Nat /\ h <= Len(stack) /\ Len(stack) \in Nat
          /\ k \in Int /\ Len(r.stack) \in Nat
      BY <1>1, <1>4
    <3> HIDE DEF h, k
    <3>6. QED BY <3>1, <3>3, <3>4, <3>5
  <2>3. QED BY <2>1, <2>2
<1>9. QED BY <1>4, <1>7, <1>8

LEMMA InstructionSafe ==
  ASSUME Compiled(Nodes, heights), StackInv, Instruction
  PROVE  StackInv'
<1> DEFINE c == code(current.next)  r == Call(c.function, stack, c.operand)
<1>1. /\ outcome = "running" /\ current.at = "code" /\ current.next < last /\ c.function # "dispatch"
      /\ stack' = r.stack /\ UNCHANGED <<classes, test, self_index, frames, returned, closures>>
      /\ \/ r.result = "NormalReturn" /\ Calls(push(callers, Advanced))
         \/ r.result = "ReturnIsNext"
              /\ Calls(push(callers, Entry("tail", current.node, current.next + 1)))
         \/ r.result = "JumpTo" /\ Calls(push(callers, Entry("code", current.node, r.to)))
         \/ r.result = "panic" /\ Panics("primitive failed")
  BY DEF Instruction, At
<1> HIDE DEF r, c
<1>2. Typed /\ \E b : Based(b) BY <1>1 DEF StackInv
<1>3. PICK b : Based(b) BY <1>2
<1>4. c = code(current.next) /\ r = Call(c.function, stack, c.operand) BY DEF c, r
<1>5. current.next \in Nat /\ EndOf(test) \in Nat /\ last = EndOf(test) /\ current.next <= last
  <2>1. current.next \in Nat BY <1>2, <1>3, NowFacts DEF Holds
  <2>2. EndOf(test) \in Nat /\ test \in DOMAIN Tests BY <1>2, Program DEF Typed
  <2>3. current.node = CodeOf(test) BY <1>1, <1>2, <1>3, NowFacts DEF Holds
  <2>4. last = EndOf(test) BY <2>3 DEF last, EndOf
  <2>5. current.next < last BY <1>1
  <2>6. QED BY <2>1, <2>2, <2>4, <2>5
<1>6. current.at \in {"code", "tail"} BY <1>1
<1>7. /\ current.node = CodeOf(test) /\ top(b) = SelfOf(test) /\ SelfOf(test) \in Nat
      /\ test \in DOMAIN Tests
  BY <1>2, <1>3, <1>4, <1>5, <1>6, AtCode
<1>8. /\ r.stack \in Seq(Values(Len(closures))) /\ Len(r.stack) \in Nat
      /\ r.result # "panic" => heights[test][current.next + 1] <= Len(r.stack)
      /\ r.result = "JumpTo" => r.to \in Nat
      /\ r.result = "JumpTo" /\ r.to <= EndOf(test) => heights[test][r.to] <= Len(r.stack)
  BY <1>1, <1>2, <1>3, <1>4, <1>5, <1>6, AfterFunction
<1>9. Typed' BY <1>1, <1>2, <1>8, TypedKept DEF Typed
<1>10. ASSUME NEW w \in {"code", "tail"}, NEW n \in Nat, Calls(push(callers, Entry(w, current.node, n))),
              n <= EndOf(test) => heights[test][n] <= Len(r.stack), w = "tail" => n <= EndOf(test)
       PROVE  StackInv'
  <2> DEFINE e == Entry(w, current.node, n)
  <2>1. e.at = w /\ e.node = current.node /\ e.next = n BY DEF Entry
  <2>2. One(e) = 1 /\ One(current) = 1 BY <1>1, <2>1 DEF One, Methods
  <2>3. Holds(test, e, top(b)) BY <1>7, <1>10, <2>1 DEF Holds
  <2>4. Ready(test, e, top(b), Len(stack')) BY <1>1, <1>10, <2>1 DEF Ready
  <2>5. Calls(push(callers, e)) BY <1>10
  <2> HIDE DEF e
  <2>6. QED BY <1>1, <1>2, <1>3, <1>6, <1>9, <2>1, <2>2, <2>3, <2>4, <2>5, GoOnStep
<1>11. CASE r.result = "NormalReturn" /\ Calls(push(callers, Advanced))
  <2>1. Advanced = Entry("code", current.node, current.next + 1) BY <1>1 DEF Advanced
  <2>2. current.next + 1 \in Nat BY <1>5
  <2>3. QED BY <1>8, <1>10, <1>11, <2>1, <2>2
<1>12. CASE r.result = "ReturnIsNext"
              /\ Calls(push(callers, Entry("tail", current.node, current.next + 1)))
  <2>1. current.next < last BY <1>1
  <2>2. current.next + 1 \in Nat /\ current.next + 1 <= EndOf(test) BY <1>5, <2>1
  <2>3. QED BY <1>8, <1>10, <1>12, <2>2
<1>13. CASE r.result = "JumpTo" /\ Calls(push(callers, Entry("code", current.node, r.to)))
  BY <1>8, <1>10, <1>13
<1>14. CASE Panics("primitive failed") BY <1>9, <1>14, Stops DEF Panics
<1>15. QED BY <1>1, <1>11, <1>12, <1>13, <1>14

LEMMA SentAt ==
  ASSUME NEW s, NEW t, NEW m, s.arity \in Nat
  PROVE  /\ Dispatches(s).at = "dispatch" /\ Dispatches(s).next = 1
         /\ Dispatches(s).node.selector = s
         /\ Holds(t, Dispatches(s), m) /\ One(Dispatches(s)) = 0
         /\ \A l : Ready(t, Dispatches(s), m, l) <=> m + s.arity + 1 <= l
<1>1. /\ Dispatches(s).at = "dispatch" /\ Dispatches(s).next = 1
      /\ Dispatches(s).node.selector = s
  BY DEF Dispatches, Entry, Leaf
<1>2. QED BY <1>1, OneOf DEF Holds, Ready

LEMMA InstructionSendsSafe ==
  ASSUME Compiled(Nodes, heights), StackInv, InstructionSends
  PROVE  StackInv'
<1> DEFINE c == code(current.next)  n == c.selector.arity  m == Len(stack) - n - 1
<1>1. /\ outcome = "running" /\ current.at = "code" /\ current.next < last /\ c.function = "dispatch"
      /\ Calls(push(push(callers, Advanced), Dispatches(c.selector)))
      /\ UNCHANGED <<classes, test, stack, self_index, frames, returned, closures>>
  BY DEF InstructionSends, At, threadVars
<1>2. Typed /\ \E b : Based(b) BY <1>1 DEF StackInv
<1>3. PICK b : Based(b) BY <1>2
<1>5. current.next \in Nat /\ EndOf(test) \in Nat /\ last = EndOf(test) /\ current.next <= last
  <2>1. current.next \in Nat BY <1>2, <1>3, NowFacts DEF Holds
  <2>2. EndOf(test) \in Nat /\ test \in DOMAIN Tests BY <1>2, Program DEF Typed
  <2>3. current.node = CodeOf(test) BY <1>1, <1>2, <1>3, NowFacts DEF Holds
  <2>4. last = EndOf(test) BY <2>3 DEF last, EndOf
  <2>5. QED BY <1>1, <2>1, <2>2, <2>4
<1>6. current.at \in {"code", "tail"} BY <1>1
<1>7. /\ current.node = CodeOf(test) /\ top(b) = SelfOf(test) /\ SelfOf(test) \in Nat
      /\ test \in DOMAIN Tests /\ current.next \in 0 .. EndOf(test)
      /\ c = CodeOf(test).code[current.next + 1]
      /\ heights[test][current.next] \in Nat /\ Len(stack) \in Nat
      /\ heights[test][current.next] <= Len(stack)
      /\ OperandOf(c)
  BY <1>2, <1>3, <1>5, <1>6, AtCode
<1>8. n \in Nat BY <1>1, <1>7 DEF OperandOf
<1>9. /\ heights[test][current.next] > SelfOf(test) + n
      /\ heights[test][current.next + 1] <= heights[test][current.next] - n
  <2>1. /\ Finds(test, current.next, heights[test][current.next] - n)
        /\ current.next < EndOf(test) => heights[test][current.next] > SelfOf(test) + n
    BY <1>1, <1>7, ProgramStep
  <2>2. QED BY <1>1, <1>5, <2>1 DEF Finds
<1>10. heights[test][current.next + 1] \in Nat
  <2>1. heights[test] \in [0 .. EndOf(test) -> Nat] BY <1>7, Program
  <2>2. QED BY <1>1, <1>5, <2>1
<1> HIDE DEF n
<1>11. m \in Nat /\ SelfOf(test) <= m /\ heights[test][current.next + 1] <= m + 1
       /\ m + n + 1 <= Len(stack)
  BY <1>7, <1>8, <1>9, <1>10
<1> HIDE DEF m
<1>12. Advanced.at = "code" /\ Advanced.node = current.node /\ Advanced.next = current.next + 1
  BY <1>1 DEF Advanced, Entry
<1>13. Holds(test, Advanced, top(b)) BY <1>5, <1>7, <1>12 DEF Holds
<1>14. Above(test, Advanced, top(b), m) BY <1>7, <1>11, <1>12 DEF Above
<1>15. /\ Holds(test, Dispatches(c.selector), m) /\ One(Dispatches(c.selector)) = 0
       /\ Dispatches(c.selector).at = "dispatch"
       /\ Ready(test, Dispatches(c.selector), m, Len(stack'))
  BY <1>1, <1>8, <1>11, SentAt DEF n
<1>16. One(Advanced) = One(current) BY OneOf
<1>17. Typed' BY <1>1, <1>2 DEF Typed
<1> HIDE DEF c
<1>18. QED
  BY <1>1, <1>2, <1>3, <1>11, <1>12, <1>13, <1>14, <1>15, <1>16, <1>17, CallStep

LEMMA LastSafe ==
  ASSUME Compiled(Nodes, heights), StackInv, LastInstruction
  PROVE  StackInv'
<1> DEFINE c == code(current.next)  r == Call(c.function, stack, c.operand)
           n == c.selector.arity  m == Len(stack) - n - 1
<1>1. /\ outcome = "running" /\ (current.at = "tail" \/ (current.at = "code" /\ current.next = last))
      /\ end_method /\ UNCHANGED <<classes, test, returned, closures>>
      /\ \/ /\ c.function = "dispatch"
            /\ Calls(push(callers, Dispatches(c.selector))) /\ UNCHANGED stack
         \/ /\ c.function # "dispatch" /\ stack' = r.stack
            /\ Panics("primitive failed") \/ Calls(callers)
  BY DEF LastInstruction, At
<1>2. Typed /\ \E b : Based(b) BY <1>1 DEF StackInv
<1>3. PICK b : Based(b) BY <1>2
<1>5. current.next <= last /\ current.at \in {"code", "tail"}
  <2>1. Holds(test, current, top(b)) BY <1>2, <1>3, NowFacts
  <2>2. current.at = "tail" => current.next <= last BY <2>1 DEF Holds, last, EndOf
  <2>3. current.next \in Nat BY <2>1 DEF Holds
  <2>4. current.at = "tail" \/ (current.at = "code" /\ current.next = last) BY <1>1
  <2>5. QED BY <2>2, <2>3, <2>4
<1>7. /\ last = EndOf(test) /\ test \in DOMAIN Tests /\ current.next \in 0 .. EndOf(test)
      /\ c = CodeOf(test).code[current.next + 1] /\ callers = <<>>
      /\ heights[test][current.next] \in Nat /\ Len(stack) \in Nat
      /\ heights[test][current.next] <= Len(stack)
      /\ OperandOf(c)
  BY <1>2, <1>3, <1>5, AtCode
<1>8. One(current) = 1 BY <1>5 DEF One, Methods
<1>9. /\ Shape(test, pop(calls), pop(b), frames', self_index') /\ callers = pop(calls)
      /\ frames' \in Seq(Nat) /\ self_index' \in Nat
  <2>1. Shape(test, pop(calls), pop(b), pop(frames), top(frames)) /\ callers = pop(calls)
    BY <1>2, <1>3, <1>8, NowFacts, ShapeEnd DEF Based
  <2>2. frames' = pop(frames) /\ self_index' = top(frames) BY <1>1 DEF end_method
  <2>3. QED BY <2>1, <2>2 DEF Shape
<1>10. CASE c.function = "dispatch" /\ Calls(push(callers, Dispatches(c.selector))) /\ UNCHANGED stack
  <2>1. n \in Nat BY <1>7, <1>10 DEF OperandOf
  <2>2. heights[test][current.next] > n BY <1>7, <1>10, ProgramStep
  <2>3. m \in Nat /\ m + n + 1 <= Len(stack)
    <3> HIDE DEF n
    <3>1. QED BY <1>7, <2>1, <2>2
  <2> HIDE DEF m
  <2>4. /\ Holds(test, Dispatches(c.selector), m) /\ One(Dispatches(c.selector)) = 0
        /\ Dispatches(c.selector).at = "dispatch"
        /\ Ready(test, Dispatches(c.selector), m, Len(stack'))
    BY <1>10, <2>1, <2>3, SentAt
  <2>5. Len(pop(calls)) = 0 /\ pop(calls) = <<>> BY <1>7, <1>9
  <2>6. Callable(test, pop(calls), pop(b), Dispatches(c.selector), m)
    BY <2>3, <2>4, <2>5 DEF Callable
  <2> DEFINE e == Dispatches(c.selector)
  <2> HIDE DEF e
  <2>7. /\ Shape(test, push(pop(calls), e), push(pop(b), m), frames', self_index')
        /\ top(push(pop(calls), e)) = e /\ top(push(pop(b), m)) = m /\ push(pop(calls), e) # <<>>
    BY <1>9, <2>4, <2>6, ShapePush DEF e
  <2>8. Typed' BY <1>1, <1>2, <1>9, <1>10, TypedKept DEF Typed
  <2>9. Calls(push(pop(calls), e)) /\ Ready(test, e, m, Len(stack')) BY <1>9, <1>10, <2>4 DEF e
  <2>10. QED BY <1>1, <2>7, <2>8, <2>9, KeepsRunning
<1>11. CASE /\ c.function # "dispatch" /\ stack' = r.stack
            /\ Panics("primitive failed") \/ Calls(callers)
  <2>0. c = code(current.next) /\ r = Call(c.function, stack, c.operand) OBVIOUS
  <2> HIDE DEF c, r
  <2>1. r.stack \in Seq(Values(Len(closures)))
    BY <1>2, <1>3, <1>5, <1>11, <2>0, AfterFunction
  <2>2. Typed' BY <1>1, <1>2, <1>9, <1>11, <2>1, TypedKept DEF Typed
  <2>3. outcome' \notin {"idle", "running"} BY <1>7, <1>11 DEF Panics, Calls
  <2>4. QED BY <2>2, <2>3, Stops
<1>12. QED BY <1>1, <1>10, <1>11

-----------------------------------------------------------------------------
(* Sends. *)
LEMMA SendFacts ==
  ASSUME Compiled(Nodes, heights), Typed, NEW b, Based(b), At("dispatch")
  PROVE  /\ current.node.selector.arity \in Nat /\ One(current) = 0
         /\ top(b) + current.node.selector.arity + 1 <= Len(stack)
         /\ top(b) \in Nat /\ Len(stack) \in Nat /\ Len(closures) \in Nat
         /\ receiver \in Values(Len(closures))
<1>1. /\ Holds(test, current, top(b)) /\ Ready(test, current, top(b), Len(stack))
      /\ current.at = "dispatch" /\ top(b) \in Nat /\ Len(stack) \in Nat
  BY NowFacts DEF At
<1> DEFINE n == current.node.selector.arity
<1>2. n \in Nat /\ One(current) = 0 BY <1>1 DEF Holds, One, Methods
<1>3. top(b) + n + 1 <= Len(stack) BY <1>1 DEF Ready
<1>4. Len(closures) \in Nat /\ stack \in Seq(Values(Len(closures))) BY DEF Typed
<1>5. receiver = stack[Len(stack) + 1 - (n + 1)] BY DEF receiver, atOffset
<1> HIDE DEF n
<1>6. Len(stack) + 1 - (n + 1) \in 1 .. Len(stack) BY <1>1, <1>2, <1>3
<1>7. receiver \in Values(Len(closures)) BY <1>4, <1>5, <1>6
<1>8. QED BY <1>1, <1>2, <1>3, <1>4, <1>7 DEF n

LEMMA FoundFacts ==
  ASSUME Compiled(Nodes, heights), Typed, Understood,
         NEW m \in find_method(receiver.class, current.node.selector)
  PROVE  /\ m \in Nodes /\ m.selector = current.node.selector
         /\ \A f \in prim_lookup(m.primitive) : Taken(f, nilObject) <= m.selector.arity
<1> DEFINE class == receiver.class
<1>1. class \in DOMAIN classes /\ test \in DOMAIN Tests /\ classes \in Images[test]
  BY DEF Understood, Typed
<1>2. PICK i \in DOMAIN classes[class] :
        m = classes[class][i] /\ classes[class][i].selector = current.node.selector
  BY DEF find_method
<1> HIDE DEF class
<1>3. QED BY <1>1, <1>2, ImageFacts

LEMMA SentCall ==
  ASSUME Compiled(Nodes, heights), Typed, NEW b, Based(b), At("dispatch"), Understood,
         NEW m \in find_method(receiver.class, current.node.selector),
         NEW f \in prim_lookup(m.primitive), NEW r, r = Call(f, stack, nilObject)
  PROVE  /\ r.stack \in Seq(Values(Len(closures)))
         /\ r.result # "panic" => Len(r.stack) >= top(b) + 1
         /\ \A i \in 1 .. top(b) : i \in 1 .. Len(r.stack) /\ r.stack[i] = stack[i]
<1> DEFINE n == current.node.selector.arity  o == nilObject
<1>1. /\ n \in Nat /\ top(b) + n + 1 <= Len(stack) /\ top(b) \in Nat /\ Len(stack) \in Nat
      /\ Len(closures) \in Nat
  BY SendFacts
<1>2. Taken(f, o) <= n BY FoundFacts
<1>3. f \in Sent BY SentFunctions
<1> HIDE DEF n, o
<1>4. f \in Instructions /\ Fit(f, o) /\ f # "restack" /\ f # "br_true" /\ Reach(f, o) <= n + 1
  BY <1>1, <1>2, <1>3, SentReach
<1>5. stack \in Seq(Values(Len(closures))) BY DEF Typed
<1>6. r = Call(f, stack, o) BY DEF o
<1>7. /\ r.stack \in Seq(Values(Len(closures))) /\ Taken(f, o) \in Int /\ Len(r.stack) \in Nat
      /\ r.result = "panic" \/ Len(r.stack) >= Len(stack) - Taken(f, o)
      /\ Reach(f, o) \in Nat
      /\ \A i \in 1 .. Len(stack) - Reach(f, o) : i \in 1 .. Len(r.stack) /\ r.stack[i] = stack[i]
  BY <1>1, <1>4, <1>5, <1>6, CallSafe
<1>8. r.result # "panic" => Len(r.stack) >= top(b) + 1 BY <1>1, <1>2, <1>7
<1>9. 1 .. top(b) \subseteq 1 .. Len(stack) - Reach(f, o) BY <1>1, <1>4, <1>7
<1>10. QED BY <1>7, <1>8, <1>9

LEMMA MethodStarts ==
  ASSUME Compiled(Nodes, heights), Typed, NEW b, Based(b), At("dispatch"),
         NEW k \in Nodes, interpret_method(k)
  PROVE  StackInv'
<1> DEFINE n == current.node.selector.arity  m == Len(stack) - n - 1  e == Entry("body", k, 1)
<1>1. /\ n \in Nat /\ One(current) = 0 /\ top(b) + n + 1 <= Len(stack)
      /\ top(b) \in Nat /\ Len(stack) \in Nat
  BY SendFacts
<1>2. /\ frames' = push(frames, self_index) /\ self_index' = m /\ Calls(push(callers, e))
      /\ returned' = FALSE /\ UNCHANGED <<classes, test, stack, closures>>
  BY DEF interpret_method, start_method
<1> HIDE DEF n
<1>3. m \in Nat /\ m >= top(b) /\ m + 1 <= Len(stack) BY <1>1
<1> HIDE DEF m
<1>4. current = top(calls) /\ callers = pop(calls) /\ test \in DOMAIN Tests BY NowFacts
<1>5. Shape(test, pop(calls), pop(b), frames, self_index)
  BY <1>1, <1>4, ShapePop DEF Based
<1>6. e.at = "body" /\ e.next = 1 /\ e.node = k /\ One(e) = 1 BY OneOf DEF Entry
<1>7. Holds(test, e, m) BY <1>6 DEF Holds
<1> HIDE DEF e
<1>8. \A i \in 1 .. Len(pop(calls)) : Above(test, pop(calls)[i], pop(b)[i], m)
  <2>1. /\ Len(pop(calls)) = Len(calls) - 1
        /\ \A i \in 1 .. Len(calls) - 1 : pop(calls)[i] = calls[i] /\ pop(b)[i] = b[i] /\ b[i] \in Nat
        /\ \A i \in 1 .. Len(calls) - 1 : Holds(test, calls[i], b[i])
        /\ \A i \in 1 .. Len(calls) - 1 : Above(test, calls[i], b[i], top(b))
    BY ShapeTop DEF Based
  <2>2. \A i \in 1 .. Len(calls) - 1 : Above(test, calls[i], b[i], m)
    BY <1>1, <1>3, <1>4, <2>1, AboveMonotone
  <2>3. QED BY <2>1, <2>2
<1>9. Callable(test, pop(calls), pop(b), e, m) BY <1>3, <1>6, <1>7, <1>8 DEF Callable
<1>10. /\ Shape(test, push(pop(calls), e), push(pop(b), m), push(frames, self_index), m)
       /\ top(push(pop(calls), e)) = e /\ top(push(pop(b), m)) = m /\ push(pop(calls), e) # <<>>
  BY <1>5, <1>6, <1>9, ShapePush
<1>11. Ready(test, e, m, Len(stack')) BY <1>2, <1>3, <1>6 DEF Ready
<1>12. frames' \in Seq(Nat) /\ returned' \in BOOLEAN
  <2>1. frames \in Seq(Nat) /\ self_index \in Nat BY DEF Typed
  <2>2. push(frames, self_index) \in Seq(Nat) BY <2>1 DEF push
  <2>3. QED BY <1>2, <2>2
<1>13. Typed' BY <1>2, <1>3, <1>12, TypedKept DEF Typed
<1>14. Calls(push(pop(calls), e)) BY <1>2, <1>4
<1>15. QED BY <1>2, <1>10, <1>11, <1>13, <1>14, KeepsRunning

LEMMA SendsSafe ==
  ASSUME Compiled(Nodes, heights), StackInv,
         dispatch_closure \/ dispatch_primitive \/ dispatch_method \/ dispatch_panics
  PROVE  StackInv'
<1>1. At("dispatch") /\ outcome = "running"
  BY DEF dispatch_closure, dispatch_primitive, dispatch_method, dispatch_panics, At
<1>2. Typed /\ \E b : Based(b) BY <1>1 DEF StackInv
<1>3. PICK b : Based(b) BY <1>2
<1>4. CASE dispatch_closure
  <2>1. IsBlock /\ interpret_method(closures[receiver.value]) BY <1>4 DEF dispatch_closure
  <2>2. receiver \in Values(Len(closures)) BY <1>1, <1>2, <1>3, SendFacts
  <2>3. receiver.value \in 1 .. Len(closures) BY <2>1, <2>2 DEF IsBlock, Values
  <2>4. closures[receiver.value] \in Nodes BY <1>2, <2>3 DEF Typed
  <2>5. QED BY <1>1, <1>2, <1>3, <2>1, <2>4, MethodStarts
<1>5. CASE dispatch_method
  <2>1. /\ Understood
        /\ \E m \in find_method(receiver.class, current.node.selector) : interpret_method(m)
    BY <1>5 DEF dispatch_method
  <2>2. PICK m \in find_method(receiver.class, current.node.selector) : interpret_method(m)
    BY <2>1
  <2>3. m \in Nodes BY <1>2, <2>1, FoundFacts
  <2>4. QED BY <1>1, <1>2, <1>3, <2>2, <2>3, MethodStarts
<1>6. CASE dispatch_primitive
  <2>1. /\ Understood /\ returned' = FALSE
        /\ UNCHANGED <<classes, test, self_index, frames, closures>>
    BY <1>6 DEF dispatch_primitive
  <2>2. PICK m \in find_method(receiver.class, current.node.selector) :
        \E f \in prim_lookup(m.primitive) :
          LET r == Call(f, stack, nilObject)
          IN /\ stack' = r.stack
             /\ IF r.result = "panic" THEN Panics("primitive failed") ELSE Calls(callers)
    BY <1>6 DEF dispatch_primitive
  <2>3. PICK f \in prim_lookup(m.primitive) :
          LET r == Call(f, stack, nilObject)
          IN /\ stack' = r.stack
             /\ IF r.result = "panic" THEN Panics("primitive failed") ELSE Calls(callers)
    BY <2>2
  <2> DEFINE r == Call(f, stack, nilObject)
  <2>4. /\ stack' = r.stack
        /\ IF r.result = "panic" THEN Panics("primitive failed") ELSE Calls(callers)
    BY <2>3
  <2>5. r = Call(f, stack, nilObject) OBVIOUS
  <2> HIDE DEF r
  <2>6. /\ r.stack \in Seq(Values(Len(closures)))
        /\ r.result # "panic" => Len(r.stack) >= top(b) + 1
    BY <1>1, <1>2, <1>3, <2>1, <2>5, SentCall
  <2>7. Typed' BY <1>2, <2>1, <2>4, <2>6, TypedKept DEF Typed
  <2>8. CASE r.result = "panic" BY <2>4, <2>7, <2>8, Stops DEF Panics
  <2>9. CASE r.result # "panic"
    <3>1. One(current) = 0 BY <1>1, <1>2, <1>3, SendFacts
    <3>2. QED BY <1>2, <1>3, <2>1, <2>4, <2>6, <2>7, <2>9, <3>1, ReturnStep
  <2>10. QED BY <2>8, <2>9
<1>7. CASE dispatch_panics
  <2>1. Typed' BY <1>2, <1>7 DEF dispatch_panics, Typed, threadVars
  <2>2. outcome' \notin {"idle", "running"} BY <1>7 DEF dispatch_panics, Panics
  <2>3. QED BY <2>1, <2>2, Stops
<1>8. QED BY <1>4, <1>5, <1>6, <1>7

-----------------------------------------------------------------------------
(* Where self is: in a body, what runs lies above its receiver. *)
LEMMA Rising ==
  ASSUME NEW t, NEW cs, NEW b, Chain(t, cs, b), Len(cs) \in Nat,
         NEW i \in 1 .. Len(cs), NEW j \in 1 .. Len(cs), i <= j
  PROVE  b[i] <= b[j] /\ b[i] \in Nat /\ b[j] \in Nat
<1>1. b \in Seq(Nat) /\ Len(b) = Len(cs) BY DEF Chain
<1>2. b[i] \in Nat /\ b[j] \in Nat BY <1>1
<1>3. CASE i = j BY <1>2, <1>3
<1>4. CASE i # j
  <2>1. i \in 1 .. j - 1 BY <1>4
  <2>2. Above(t, cs[i], b[i], b[j]) BY <2>1 DEF Chain
  <2>3. QED BY <1>2, <2>2 DEF Above
<1>5. QED BY <1>3, <1>4

LEMMA InBody ==
  ASSUME Typed, NEW b, Based(b), \E j \in 1 .. Len(calls) : calls[j].at = "body"
  PROVE  /\ current.at = "body" => self_index = top(b)
         /\ current.at # "body" => self_index + 1 <= top(b)
         /\ current.at \in {"body", "expression", "return", "dispatch"}
         /\ self_index < Len(stack)
         /\ \A i \in DOMAIN frames : frames[i] <= self_index
         /\ \A i, j \in DOMAIN frames : i < j => frames[i] <= frames[j]
<1>1. /\ Chain(test, calls, b) /\ Order(calls, b, frames, self_index) /\ IsSequence(calls)
      /\ frames \in Seq(Nat) /\ self_index \in Nat /\ b \in Seq(Nat) /\ Len(b) = Len(calls)
  BY DEF Based, Shape, Chain
<1>2. PICK act : Ordered(act, calls, b, frames, self_index) BY <1>1 DEF Order
<1> DEFINE n == Len(frames)  a == act[n]  N == Len(calls)
<1>3. /\ act \in Seq(Nat) /\ Len(act) = n /\ n \in Nat
      /\ \A i, j \in 1 .. n : i < j => act[i] < act[j]
      /\ {act[i] : i \in 1 .. n} = ActivationsOf(calls)
      /\ \A k \in 1 .. n : b[act[k]] = IF k = n THEN self_index ELSE frames[k + 1]
      /\ frames # <<>> => frames[1] = 0
  <2>1. act \in Seq(Nat) /\ Len(act) = n BY <1>2 DEF Ordered
  <2>2. n \in Nat BY <1>1
  <2>3. QED BY <1>2, <2>1, <2>2 DEF Ordered
<1>4. PICK j \in 1 .. N : calls[j].at = "body" OBVIOUS
<1>5. N \in Nat \ {0} /\ DOMAIN calls = 1 .. N
  <2>1. calls # <<>> BY DEF Based
  <2>2. QED BY <1>1, <2>1, PopAt
<1>6. \A i \in 1 .. n : act[i] \in 1 .. N /\ act[i] \in Nat /\ calls[act[i]].at \in Methods
  BY <1>3, <1>5 DEF ActivationsOf
<1>7. \A x \in 1 .. N : calls[x].at \in Methods => \E i \in 1 .. n : x = act[i]
  BY <1>3, <1>5 DEF ActivationsOf
<1>8. n \in 1 .. n /\ \A x \in 1 .. N : calls[x].at \in Methods => x <= a
  <2>1. PICK i \in 1 .. n : j = act[i] BY <1>4, <1>7 DEF Methods
  <2>2. n \in 1 .. n BY <1>3, <2>1
  <2>3. \A k \in 1 .. n : act[k] <= act[n]
    <3> HIDE DEF n
    <3> SUFFICES ASSUME NEW k \in 1 .. n PROVE act[k] <= act[n]
      OBVIOUS
    <3>1. k = n \/ k < n BY <1>3
    <3>2. act[k] \in Nat /\ act[n] \in Nat BY <1>6, <2>2
    <3>3. k < n => act[k] < act[n] BY <1>3, <2>2
    <3>4. QED BY <3>1, <3>2, <3>3
  <2>4. QED BY <1>7, <2>2, <2>3
<1>9. a \in 1 .. N /\ b[a] = self_index /\ calls[a].at \in Methods BY <1>3, <1>6, <1>8
<1>10. calls[a].at = "body"
  <2>1. j <= a BY <1>4, <1>8 DEF Methods
  <2> HIDE DEF a, N
  <2>2. CASE a = 1 BY <1>4, <1>5, <2>1, <2>2
  <2>3. CASE a # 1
    <3>1. a \in 2 .. N BY <1>5, <1>9, <2>3
    <3>2. calls[a].at \notin {"code", "tail"} BY <1>1, <3>1 DEF Chain, N
    <3>3. QED BY <1>9, <3>2 DEF Methods
  <2>4. QED BY <2>2, <2>3
<1>11. /\ current = top(calls) /\ Holds(test, current, top(b)) /\ top(b) \in Nat
       /\ Ready(test, current, top(b), Len(stack)) /\ Len(stack) \in Nat
  BY NowFacts
<1>12. /\ top(calls) = calls[N] /\ top(b) = b[N]
       /\ \A i \in 1 .. N - 1 : Above(test, calls[i], b[i], top(b))
  BY ShapeTop DEF Based
<1> HIDE DEF a, N, n
<1>14. /\ \A i \in DOMAIN frames : frames[i] <= self_index
       /\ \A i, k \in DOMAIN frames : i < k => frames[i] <= frames[k]
  <2>1. DOMAIN frames = 1 .. n /\ \A i \in 1 .. n : frames[i] \in Nat BY <1>1 DEF n
  <2>2. frames # <<>> BY <1>8 DEF n
  <2>3. \A i \in 1 .. n : i # 1 => i - 1 \in 1 .. n /\ frames[i] = b[act[i - 1]]
    <3> SUFFICES ASSUME NEW i \in 1 .. n, i # 1
                 PROVE  i - 1 \in 1 .. n /\ frames[i] = b[act[i - 1]]
      OBVIOUS
    <3>1. i - 1 \in 1 .. n /\ i - 1 # n /\ (i - 1) + 1 = i BY <1>3
    <3>2. QED BY <1>3, <3>1
  <2>4. \A x, y \in 1 .. n : x <= y => b[act[x]] <= b[act[y]]
    <3> SUFFICES ASSUME NEW x \in 1 .. n, NEW y \in 1 .. n, x <= y PROVE b[act[x]] <= b[act[y]]
      OBVIOUS
    <3>1. act[x] \in 1 .. N /\ act[y] \in 1 .. N /\ act[x] <= act[y]
      <4>1. x = y \/ x < y BY <1>3
      <4>2. QED BY <1>3, <1>6, <4>1
    <3>2. QED BY <1>1, <1>5, <3>1, Rising DEF N
  <2>5. \A i \in 1 .. n : frames[i] <= self_index
    <3> SUFFICES ASSUME NEW i \in 1 .. n PROVE frames[i] <= self_index
      OBVIOUS
    <3>1. CASE i = 1 BY <1>1, <1>3, <2>2, <3>1
    <3>2. CASE i # 1
      <4>1. i - 1 \in 1 .. n /\ frames[i] = b[act[i - 1]] /\ i - 1 <= n BY <1>3, <2>3, <3>2
      <4>2. b[act[i - 1]] <= b[act[n]] BY <1>8, <2>4, <4>1
      <4>3. QED BY <1>9, <4>1, <4>2 DEF a
    <3>3. QED BY <3>1, <3>2
  <2>6. \A i, k \in 1 .. n : i < k => frames[i] <= frames[k]
    <3> SUFFICES ASSUME NEW i \in 1 .. n, NEW k \in 1 .. n, i < k PROVE frames[i] <= frames[k]
      OBVIOUS
    <3>1. CASE i = 1 BY <1>3, <2>1, <2>2, <3>1
    <3>2. CASE i # 1
      <4>1. i - 1 \in 1 .. n /\ frames[i] = b[act[i - 1]] BY <2>3, <3>2
      <4>2. k - 1 \in 1 .. n /\ frames[k] = b[act[k - 1]]
        <5>1. k # 1 BY <1>3
        <5>2. QED BY <2>3, <5>1
      <4>3. i - 1 <= k - 1 BY <1>3
      <4>4. b[act[i - 1]] <= b[act[k - 1]] BY <2>4, <4>1, <4>2, <4>3
      <4>5. QED BY <4>1, <4>2, <4>4
    <3>3. QED BY <3>1, <3>2
  <2>7. QED BY <2>1, <2>5, <2>6
<1>13. CASE a = N
  <2>1. current.at = "body" /\ self_index = top(b) BY <1>9, <1>10, <1>11, <1>12, <1>13
  <2>2. self_index < Len(stack) BY <1>1, <1>11, <2>1 DEF Ready
  <2>3. QED BY <1>14, <2>1, <2>2
<1>15. CASE a # N
  <2>1. a \in 1 .. N - 1 /\ N \in 2 .. N /\ N \in 1 .. N /\ ~(N <= a) BY <1>5, <1>9, <1>15
  <2>2. current.at \notin Methods BY <1>8, <1>11, <1>12, <2>1
  <2>3. self_index + 1 <= top(b) BY <1>9, <1>10, <1>12, <2>1 DEF Above
  <2>4. current.at \in {"expression", "return", "dispatch"} BY <1>11, <2>2 DEF Holds, Methods
  <2>5. self_index < Len(stack)
    <3>1. CASE current.at = "expression" BY <1>1, <1>11, <2>3, <3>1 DEF Ready, Holds
    <3>2. CASE current.at = "return" BY <1>1, <1>11, <2>3, <3>2 DEF Ready, Holds
    <3>3. CASE current.at = "dispatch"
      <4>1. PICK x \in Nat : top(b) + x + 1 <= Len(stack) BY <1>11, <3>3 DEF Ready, Holds
      <4>2. QED BY <1>1, <1>11, <2>3, <4>1
    <3>4. QED BY <2>4, <3>1, <3>2, <3>3
  <2>6. QED BY <1>14, <2>3, <2>4, <2>5
<1>16. QED BY <1>13, <1>15

-----------------------------------------------------------------------------
(* The trees. *)
LEMMA TreeHere ==
  ASSUME Compiled(Nodes, heights), Typed, NEW b, Based(b),
         current.at \in {"body", "expression", "return"}
  PROVE  /\ current.node \in Nodes /\ current.next \in Nat \ {0} /\ current.node.parts \in Seq(Nodes)
         /\ top(b) \in Nat /\ Len(stack) \in Nat /\ test \in DOMAIN Tests
         /\ current.at = "expression" => top(b) + current.next <= Len(stack) + 1
         /\ current.at # "expression" => top(b) + 1 <= Len(stack)
         /\ current.at \in {"expression", "return"} => top(b) <= Len(stack)
<1>1. /\ Holds(test, current, top(b)) /\ Ready(test, current, top(b), Len(stack))
      /\ top(b) \in Nat /\ Len(stack) \in Nat /\ test \in DOMAIN Tests
  BY NowFacts
<1>2. current.node \in Nodes /\ current.next \in Nat \ {0} BY <1>1 DEF Holds
<1>3. current.node.parts \in Seq(Nodes) BY <1>2, TreeFacts
<1>4. /\ current.at = "expression" => top(b) + current.next <= Len(stack) + 1
      /\ current.at # "expression" => top(b) + 1 <= Len(stack)
  BY <1>1 DEF Ready
<1>5. QED BY <1>1, <1>2, <1>3, <1>4

(* A part of a tree is interpreted: above all that is there. *)
LEMMA PartStep ==
  ASSUME Compiled(Nodes, heights), Typed, NEW b, Based(b),
         current.at \in {"body", "expression"}, NEW k \in Nodes, NEW e,
         e = Advanced \/ (current.at = "expression" /\ e = Entry("return", current.node, 1)),
         Calls(push(push(callers, e), Entry("expression", k, 1))),
         UNCHANGED <<classes, test, threadVars, returned, closures>>
  PROVE  StackInv'
<1> DEFINE f == Entry("expression", k, 1)  m == Len(stack)
<1>1. /\ current.node \in Nodes /\ current.next \in Nat \ {0} /\ top(b) \in Nat /\ m \in Nat
      /\ current.at = "expression" => top(b) + current.next <= m + 1
      /\ current.at # "expression" => top(b) + 1 <= m
  BY TreeHere
<1>2. f.at = "expression" /\ f.node = k /\ f.next = 1 /\ One(f) = 0 BY OneOf DEF Entry
<1>3. /\ e.node = current.node
      /\ \/ e.at = "return" /\ e.next = 1 /\ current.at = "expression"
         \/ e.at = current.at /\ e.next = current.next + 1
  <2>1. CASE e = Advanced BY <2>1 DEF Advanced, Entry
  <2>2. CASE current.at = "expression" /\ e = Entry("return", current.node, 1)
    BY <2>2 DEF Entry
  <2>3. QED BY <2>1, <2>2
<1>4. One(e) = One(current) BY <1>3 DEF One, Methods
<1>5. Holds(test, e, top(b)) BY <1>1, <1>3 DEF Holds
<1>6. Above(test, e, top(b), m)
  <2>1. CASE e.at = "return" BY <1>1, <1>3, <2>1 DEF Above
  <2>2. CASE e.at = "body" BY <1>1, <1>3, <2>2 DEF Above
  <2>3. CASE e.at = "expression" BY <1>1, <1>3, <2>3 DEF Above
  <2>4. QED BY <1>3, <2>1, <2>2, <2>3
<1>7. Holds(test, f, m) BY <1>2 DEF Holds
<1>8. Ready(test, f, m, Len(stack')) BY <1>1, <1>2 DEF Ready, threadVars
<1>9. Typed' /\ test' = test /\ UNCHANGED <<frames, self_index>> BY DEF Typed, threadVars
<1>10. Calls(push(push(callers, e), f)) OBVIOUS
<1> HIDE DEF f, m
<1>11. QED
  BY <1>1, <1>2, <1>3, <1>4, <1>5, <1>6, <1>7, <1>8, <1>9, <1>10, CallStep

LEMMA PushStep ==
  ASSUME Compiled(Nodes, heights), Typed, NEW b, Based(b), current.at = "expression",
         NEW o \in Values(Len(closures')), Push(o), closures' \in Seq(Nodes),
         Len(closures') \in Nat, Len(closures') >= Len(closures), Len(closures') <= NurseryRoom
  PROVE  StackInv'
<1>1. Len(stack) \in Nat /\ top(b) <= Len(stack) /\ top(b) \in Nat BY TreeHere
<1>2. /\ stack' = push(stack, o) /\ Calls(callers) /\ returned' = FALSE
      /\ UNCHANGED <<classes, test, self_index, frames>>
  BY DEF Push
<1>3. stack \in Seq(Values(Len(closures'))) /\ Len(closures) \in Nat
  <2>1. stack \in Seq(Values(Len(closures))) /\ Len(closures) \in Nat BY DEF Typed
  <2>2. Values(Len(closures)) \subseteq Values(Len(closures')) BY <2>1, ValuesMade
  <2>3. QED BY <2>1, <2>2
<1>4. stack' \in Seq(Values(Len(closures'))) /\ Len(stack') = Len(stack) + 1
  <2>1. Agrees(Values(Len(closures')), stack, push(stack, o), Len(stack) + 1, Len(stack))
    BY <1>3, StackShapes
  <2>2. QED BY <1>2, <2>1 DEF Agrees
<1>5. Typed' BY <1>2, <1>4 DEF Typed
<1>6. Len(stack') >= top(b) + 1 BY <1>1, <1>4
<1>7. One(current) = 0 BY DEF One, Methods
<1>8. QED BY <1>2, <1>5, <1>6, <1>7, ReturnStep

LEMMA PushValueStep ==
  ASSUME Compiled(Nodes, heights), Typed, NEW b, Based(b), current.at = "expression",
         NEW o \in Values(Len(closures)), Push(o), UNCHANGED closures
  PROVE  StackInv'
<1>1. closures \in Seq(Nodes) /\ Len(closures) <= NurseryRoom BY DEF Typed
<1>2. Len(closures) \in Nat BY <1>1
<1>3. QED BY <1>1, <1>2, PushStep

(* return_with and end_method of the method that ends. *)
LEMMA FinishFacts ==
  ASSUME Compiled(Nodes, heights), Typed, NEW b, Based(b), FinishMethod
  PROVE  /\ self_index = top(b) /\ self_index \in Nat /\ One(current) = 1
         /\ stack' \in Seq(Values(Len(closures))) /\ Len(stack') = self_index + 1
         /\ \A i \in 1 .. self_index : stack'[i] = stack[i]
<1>1. current.at = "body" /\ return_with(top(stack)) BY DEF FinishMethod, At
<1>2. One(current) = 1 BY <1>1 DEF One, Methods
<1>3. self_index = top(b) /\ self_index \in Nat
  <2>1. current = top(calls) BY NowFacts
  <2>2. QED BY <1>2, <2>1, ShapeEnd DEF Based, Shape
<1>4. Len(stack) \in Nat /\ self_index + 1 <= Len(stack) BY <1>1, <1>3, TreeHere
<1> DEFINE V == Values(Len(closures))  kept == SubSeq(stack, 1, self_index)
<1>5. stack \in Seq(V) BY DEF Typed
<1> HIDE DEF V
<1>6. /\ kept \in Seq(V) /\ Len(kept) = self_index
      /\ \A i \in 1 .. self_index : kept[i] = stack[i]
  <2>1. \A i \in 1 .. self_index : i \in 1 .. Len(stack) /\ stack[i] \in V BY <1>3, <1>4, <1>5
  <2>2. QED BY <1>3, <1>5, <2>1, SubSeqProperties
<1>7. top(stack) \in V BY <1>3, <1>4, <1>5 DEF top
<1>8. stack' = push(kept, top(stack)) BY <1>1 DEF return_with
<1> HIDE DEF kept
<1>9. /\ push(kept, top(stack)) \in Seq(V) /\ Len(push(kept, top(stack))) = Len(kept) + 1
      /\ \A i \in 1 .. Len(kept) : push(kept, top(stack))[i] = kept[i]
  <2>1. Agrees(V, kept, push(kept, top(stack)), Len(kept) + 1, Len(kept)) BY <1>6, <1>7, StackShapes
  <2>2. QED BY <2>1 DEF Agrees
<1>10. QED BY <1>2, <1>3, <1>6, <1>8, <1>9 DEF V

LEMMA TreesSafe ==
  ASSUME Compiled(Nodes, heights), StackInv,
         Statement \/ FinishMethod \/ Return \/ Returned \/ Part \/ Send
           \/ Value \/ push_self \/ MakeClosure \/ expression_panics
  PROVE  StackInv'
<1>1. outcome = "running" /\ current.at \in {"body", "expression", "return"}
  BY DEF Statement, FinishMethod, Return, Returned, Part, Send, Value, push_self, MakeClosure,
         expression_panics, IsA, At
<1>2. Typed /\ \E b : Based(b) BY <1>1 DEF StackInv
<1>3. PICK b : Based(b) BY <1>2
<1>4. /\ current.node \in Nodes /\ current.next \in Nat \ {0} /\ current.node.parts \in Seq(Nodes)
      /\ top(b) \in Nat /\ Len(stack) \in Nat /\ test \in DOMAIN Tests
      /\ current.at = "expression" => top(b) + current.next <= Len(stack) + 1
      /\ current.at # "expression" => top(b) + 1 <= Len(stack)
  BY <1>1, <1>2, <1>3, TreeHere
<1>5. /\ current.node.value \in Constants /\ current.node.selector.arity \in Nat
      /\ current.node.kind = "send" => Len(current.node.parts) > current.node.selector.arity
      /\ current.node.kind = "return" => current.node.parts # <<>>
  BY <1>4, TreeFacts
<1>6. CASE Statement \/ Part
  <2>1. /\ current.at \in {"body", "expression"} /\ current.next <= Len(current.node.parts)
        /\ Calls(push(push(callers, Advanced), Entry("expression", current.node.parts[current.next], 1)))
        /\ UNCHANGED <<classes, test, threadVars, returned, closures>>
    BY <1>6 DEF Statement, Part, IsA, At
  <2>2. current.node.parts[current.next] \in Nodes BY <1>4, <2>1
  <2>3. QED BY <1>2, <1>3, <2>1, <2>2, PartStep
<1>7. CASE Return
  <2>1. /\ current.at = "expression" /\ current.node.kind = "return"
        /\ Calls(push(push(callers, Entry("return", current.node, 1)),
                      Entry("expression", current.node.parts[1], 1)))
        /\ UNCHANGED <<classes, test, threadVars, returned, closures>>
    BY <1>7 DEF Return, IsA, At
  <2>2. current.node.parts[1] \in Nodes BY <1>4, <1>5, <2>1
  <2>3. QED BY <1>2, <1>3, <2>1, <2>2, PartStep
<1>8. CASE FinishMethod
  <2>1. /\ end_method /\ Calls(callers) /\ returned' = FALSE /\ UNCHANGED <<classes, test, closures>>
    BY <1>8 DEF FinishMethod
  <2>2. /\ One(current) = 1 /\ self_index = top(b) /\ Len(stack') = self_index + 1
        /\ stack' \in Seq(Values(Len(closures)))
    BY <1>2, <1>3, <1>8, FinishFacts
  <2>3. frames' \in Seq(Nat) /\ self_index' \in Nat
    <3>1. current = top(calls) BY <1>2, <1>3, NowFacts
    <3>2. Shape(test, pop(calls), pop(b), pop(frames), top(frames))
      BY <1>3, <2>2, <3>1, ShapeEnd DEF Based
    <3>3. QED BY <2>1, <3>2 DEF Shape, end_method
  <2>4. Typed' BY <1>2, <2>1, <2>2, <2>3, TypedKept DEF Typed
  <2>5. Len(stack') >= top(b) + 1 BY <1>4, <2>2
  <2>6. QED BY <1>2, <1>3, <2>1, <2>2, <2>4, <2>5, EndStep
<1>9. CASE Returned
  <2>1. /\ current.at = "return" /\ Calls(callers) /\ returned' = TRUE
        /\ UNCHANGED <<classes, test, stack, self_index, frames, closures>>
    BY <1>9 DEF Returned, At, threadVars
  <2>2. Typed' BY <1>2, <2>1 DEF Typed
  <2>3. One(current) = 0 /\ Len(stack') >= top(b) + 1 BY <1>4, <2>1 DEF One, Methods
  <2>4. QED BY <1>2, <1>3, <2>1, <2>2, <2>3, ReturnStep
<1>10. CASE Send
  <2> DEFINE s == current.node.selector  e == Dispatches(current.node.selector)
  <2>1. /\ current.at = "expression" /\ current.node.kind = "send"
        /\ current.next > Len(current.node.parts) /\ Calls(push(callers, e))
        /\ UNCHANGED <<classes, test, stack, self_index, frames, returned, closures>>
    BY <1>10 DEF Send, IsA, At, threadVars
  <2>2. Typed' BY <1>2, <2>1 DEF Typed
  <2>3. top(b) + s.arity + 1 <= Len(stack)
    <3>1. Len(current.node.parts) \in Nat /\ Len(current.node.parts) > s.arity BY <1>4, <1>5, <2>1
    <3>2. current.next >= s.arity + 2 BY <1>4, <1>5, <2>1, <3>1
    <3>3. QED BY <1>4, <1>5, <2>1, <3>2
  <2>4. /\ Holds(test, e, top(b)) /\ Ready(test, e, top(b), Len(stack')) /\ e.at = "dispatch"
        /\ One(e) = 0
    BY <1>5, <2>1, <2>3, SentAt
  <2>5. One(current) = 0 BY <2>1 DEF One, Methods
  <2> HIDE DEF e
  <2>6. QED BY <1>2, <1>3, <2>1, <2>2, <2>4, <2>5, GoOnStep
<1>11. CASE Value
  <2>1. current.at = "expression" /\ Push(current.node.value) /\ UNCHANGED closures
    BY <1>11 DEF Value, IsA, At
  <2>2. current.node.value \in Values(Len(closures))
    <3>1. Len(closures) \in Nat BY <1>2 DEF Typed
    <3>2. QED BY <1>5, <3>1, ValuesMade
  <2>3. QED BY <1>2, <1>3, <2>1, <2>2, PushValueStep
<1>12. CASE push_self
  <2>1. current.at = "expression" /\ Push(stack[self_index + 1]) /\ UNCHANGED closures
    BY <1>12 DEF push_self, IsA, At
  <2>2. \E j \in 1 .. Len(calls) : calls[j].at = "body"
    <3>1. current = top(calls) BY <1>2, <1>3, NowFacts
    <3>2. Len(calls) \in Nat \ {0} /\ \E j \in 1 .. Len(calls) - 1 : calls[j].at = "body"
      BY <1>3, <2>1, <3>1, ShapeTop DEF Based
    <3>3. QED BY <3>2
  <2>3. self_index < Len(stack) /\ self_index \in Nat BY <1>2, <1>3, <2>2, InBody DEF Typed
  <2>4. stack[self_index + 1] \in Values(Len(closures)) BY <1>2, <1>4, <2>3 DEF Typed
  <2>5. QED BY <1>2, <1>3, <2>1, <2>4, PushValueStep
<1>13. CASE MakeClosure
  <2> DEFINE o == Object(classBlockClosure, Len(closures) + 1)
  <2>1. /\ current.at = "expression" /\ Push(o) /\ Len(closures) < NurseryRoom
        /\ closures' = push(closures, current.node)
    BY <1>13 DEF MakeClosure, IsA, At
  <2>2. closures \in Seq(Nodes) /\ Len(closures) \in Nat BY <1>2 DEF Typed
  <2>3. closures' \in Seq(Nodes) /\ Len(closures') = Len(closures) + 1
    BY <1>4, <2>1, <2>2 DEF push
  <2>4. o \in Values(Len(closures'))
    BY <2>2, <2>3 DEF Object, Values, Objects, is_integer, classSmallInteger, classBlockClosure
  <2>5. Len(closures') <= NurseryRoom BY <2>1, <2>2, <2>3, NurseryAssumption
  <2>6. Len(closures') \in Nat /\ Len(closures') >= Len(closures) BY <2>2, <2>3
  <2> HIDE DEF o
  <2>7. QED BY <1>2, <1>3, <2>1, <2>3, <2>4, <2>5, <2>6, PushStep
<1>14. CASE expression_panics
  <2>1. Typed' BY <1>2, <1>14 DEF expression_panics, Typed, threadVars
  <2>2. outcome' \notin {"idle", "running"} BY <1>14 DEF expression_panics, Panics
  <2>3. QED BY <2>1, <2>2, Stops
<1>15. QED BY <1>6, <1>7, <1>8, <1>9, <1>10, <1>11, <1>12, <1>13, <1>14

LEMMA StackStep ==
  ASSUME Compiled(Nodes, heights), StackInv, [Next]_vars
  PROVE  StackInv'
<1>1. CASE UNCHANGED vars
  <2>1. Typed' BY <1>1 DEF StackInv, Typed, vars, threadVars
  <2>2. \A b : Based(b) => Based(b)' BY <1>1 DEF Based, vars, threadVars
  <2>3. QED BY <1>1, <2>1, <2>2 DEF StackInv, vars, threadVars
<1>2. CASE JumpedOut
  <2>1. Typed' BY <1>2 DEF StackInv, Typed, JumpedOut, threadVars
  <2>2. outcome' \notin {"idle", "running"} BY <1>2 DEF JumpedOut, Panics
  <2>3. QED BY <2>1, <2>2, Stops
<1>3. CASE execute \/ Instruction \/ InstructionSends \/ LastInstruction
  BY <1>3, ExecuteSafe, InstructionSafe, InstructionSendsSafe, LastSafe
<1>4. CASE dispatch_closure \/ dispatch_primitive \/ dispatch_method \/ dispatch_panics
  BY <1>4, SendsSafe
<1>5. CASE Statement \/ FinishMethod \/ Return \/ Returned \/ Part \/ Send
             \/ Value \/ push_self \/ MakeClosure \/ expression_panics
  BY <1>5, TreesSafe
<1>6. QED BY <1>1, <1>2, <1>3, <1>4, <1>5 DEF Next, Step

LEMMA StackInit ==
  ASSUME Compiled(Nodes, heights), Init
  PROVE  StackInv
<1>1. test \in DOMAIN Tests /\ stack = Tests[test].stack /\ closures = <<>> BY DEF Init
<1>2. Tests[test].stack \in Seq(Constants) BY <1>1, Program
<1>3. Len(closures) = 0 BY <1>1
<1>4. Constants \subseteq Values(Len(closures)) BY <1>3, ValuesMade
<1>5. stack \in Seq(Values(Len(closures))) BY <1>1, <1>2, <1>4
<1>6. <<>> \in Seq(Nodes) /\ <<>> \in Seq(Nat) OBVIOUS
<1>7. Typed
  <2>1. classes \in Images[test] /\ self_index = 0 /\ frames = <<>> /\ returned = FALSE BY DEF Init
  <2>2. Len(closures) <= NurseryRoom BY <1>3, NurseryAssumption
  <2>3. returned \in BOOLEAN BY <2>1
  <2>4. closures \in Seq(Nodes) /\ frames \in Seq(Nat) /\ self_index \in Nat BY <1>1, <1>6, <2>1
  <2>5. QED BY <1>1, <1>5, <2>1, <2>2, <2>3, <2>4 DEF Typed
<1>8. QED BY <1>1, <1>7 DEF Init, StackInv

LEMMA StackInvImplies ==
  ASSUME StackInv
  PROVE  WellFormed
<1>1. Typed BY DEF StackInv
<1>2. TypeOK
  <2>1. \A i \in DOMAIN stack : stack[i] \in Values(Len(closures)) BY <1>1 DEF Typed
  <2>2. DOMAIN closures = 1 .. Len(closures) BY <1>1 DEF Typed
  <2>3. \A i \in DOMAIN frames : frames[i] \in Nat BY <1>1 DEF Typed
  <2>4. QED BY <1>1, <2>1, <2>2, <2>3 DEF TypeOK, Typed, Values
<1>3. SelfInRange
  <2> SUFFICES ASSUME Interpreting
               PROVE  /\ self_index < Len(stack)
                      /\ \A i \in DOMAIN frames : frames[i] <= self_index
                      /\ \A i, j \in DOMAIN frames : i < j => frames[i] <= frames[j]
    BY DEF SelfInRange
  <2>1. PICK b : Based(b) BY DEF StackInv, Interpreting
  <2>2. DOMAIN calls = 1 .. Len(calls)
    <3>1. IsSequence(calls) BY <2>1 DEF Based, Shape
    <3>2. QED BY <3>1, PushAt
  <2>3. \E j \in 1 .. Len(calls) : calls[j].at = "body" BY <2>2 DEF Interpreting, Activations
  <2>4. QED BY <1>1, <2>1, <2>3, InBody
<1>4. QED BY <1>2, <1>3 DEF WellFormed

(* Whatever is compiled and sent, objects are of their types, and each       *)
(* method that is interpreted finds its receiver in the stack.               *)
THEOREM SelfAlwaysInRange ==
  ASSUME Compiled(Nodes, heights)
  PROVE  Spec => []WellFormed
<1>1. Init => StackInv BY StackInit
<1>2. StackInv /\ [Next]_vars => StackInv' BY StackStep
<1>3. StackInv => WellFormed BY StackInvImplies
<1>4. QED BY <1>1, <1>2, <1>3, PTL DEF Spec

-----------------------------------------------------------------------------
(* What a step leaves as it is, in a body. *)
Kept ==
  Interpreting =>
    /\ \A i \in 1 .. self_index : i \in DOMAIN stack' /\ stack'[i] = stack[i]
    /\ current.at # "body" =>
         self_index + 1 \in DOMAIN stack' /\ stack'[self_index + 1] = stack[self_index + 1]

LEMMA KeptIf ==
  ASSUME self_index \in Nat,
         NEW n \in Nat, \A i \in 1 .. n : i \in DOMAIN stack' /\ stack'[i] = stack[i],
         self_index <= n, current.at # "body" => self_index + 1 <= n
  PROVE  Kept
<1>1. \A i \in 1 .. self_index : i \in 1 .. n OBVIOUS
<1>2. current.at # "body" => self_index + 1 \in 1 .. n OBVIOUS
<1>3. QED BY <1>1, <1>2 DEF Kept

LEMMA StepKeeps ==
  ASSUME Compiled(Nodes, heights), StackInv, Next
  PROVE  Kept
<1> SUFFICES ASSUME Interpreting PROVE Kept
  BY DEF Kept
<1>1. outcome = "running" /\ Typed /\ \E b : Based(b) BY DEF Interpreting, StackInv
<1>2. PICK b : Based(b) BY <1>1
<1>3. \E j \in 1 .. Len(calls) : calls[j].at = "body"
  <2>1. IsSequence(calls) BY <1>2 DEF Based, Shape
  <2>2. DOMAIN calls = 1 .. Len(calls) BY <2>1, PushAt
  <2>3. QED BY <2>2 DEF Interpreting, Activations
<1>4. /\ current.at = "body" => self_index = top(b)
      /\ current.at # "body" => self_index + 1 <= top(b)
      /\ current.at \in {"body", "expression", "return", "dispatch"}
      /\ self_index < Len(stack)
  BY <1>1, <1>2, <1>3, InBody
<1>5. self_index \in Nat /\ Len(stack) \in Nat /\ DOMAIN stack = 1 .. Len(stack)
  BY <1>1 DEF Typed
<1>6. ASSUME stack' = stack PROVE Kept
  <2>1. \A i \in 1 .. Len(stack) : i \in DOMAIN stack' /\ stack'[i] = stack[i] BY <1>5, <1>6
  <2>2. self_index <= Len(stack) /\ self_index + 1 <= Len(stack) BY <1>4, <1>5
  <2>3. QED BY <1>5, <2>1, <2>2, KeptIf
<1>7. CASE execute \/ Instruction \/ LastInstruction
  BY <1>1, <1>4, <1>7 DEF execute, Instruction, LastInstruction, At
<1>8. CASE InstructionSends \/ JumpedOut \/ Statement \/ Return \/ Returned \/ Part \/ Send
             \/ dispatch_panics \/ expression_panics
  BY <1>6, <1>8
    DEF InstructionSends, JumpedOut, Statement, Return, Returned, Part, Send, dispatch_panics,
        expression_panics, threadVars
<1>9. CASE dispatch_closure \/ dispatch_method
  BY <1>6, <1>9 DEF dispatch_closure, dispatch_method, interpret_method
<1>10. CASE dispatch_primitive
  <2>1. At("dispatch") /\ Understood BY <1>10 DEF dispatch_primitive
  <2>2. PICK m \in find_method(receiver.class, current.node.selector) :
        \E f \in prim_lookup(m.primitive) : stack' = Call(f, stack, nilObject).stack
    BY <1>10 DEF dispatch_primitive
  <2>3. PICK f \in prim_lookup(m.primitive) : stack' = Call(f, stack, nilObject).stack BY <2>2
  <2>4. /\ stack' \in Seq(Values(Len(closures)))
        /\ \A i \in 1 .. top(b) : i \in 1 .. Len(stack') /\ stack'[i] = stack[i]
    BY <1>1, <1>2, <2>1, <2>3, SentCall
  <2>5. \A i \in 1 .. top(b) : i \in DOMAIN stack' /\ stack'[i] = stack[i] BY <2>4
  <2>6. top(b) \in Nat /\ current.at # "body" BY <1>1, <1>2, <2>1, NowFacts DEF At
  <2>7. self_index + 1 <= top(b) /\ self_index <= top(b) BY <1>4, <1>5, <2>6
  <2>8. QED BY <1>5, <2>5, <2>6, <2>7, KeptIf
<1>11. CASE FinishMethod
  <2>1. /\ stack' \in Seq(Values(Len(closures))) /\ Len(stack') = self_index + 1
        /\ \A i \in 1 .. self_index : stack'[i] = stack[i]
    BY <1>1, <1>2, <1>11, FinishFacts
  <2>2. DOMAIN stack' = 1 .. self_index + 1 BY <2>1
  <2>3. \A i \in 1 .. self_index : i \in DOMAIN stack' BY <1>5, <2>2
  <2>4. current.at = "body" BY <1>11 DEF FinishMethod, At
  <2>5. QED BY <1>5, <2>1, <2>3, <2>4, KeptIf
<1>12. CASE Value \/ push_self \/ MakeClosure
  <2>1. PICK o : stack' = push(stack, o) BY <1>12 DEF Value, push_self, MakeClosure, Push
  <2>2. IsSequence(stack) BY <1>1, SeqIs DEF Typed
  <2>3. /\ IsSequence(stack') /\ Len(stack') = Len(stack) + 1
        /\ \A i \in 1 .. Len(stack) : stack'[i] = stack[i]
    BY <2>1, <2>2, PushAt
  <2>4. DOMAIN stack' = 1 .. Len(stack) + 1 BY <2>3, PushAt
  <2>5. \A i \in 1 .. Len(stack) : i \in DOMAIN stack' /\ stack'[i] = stack[i]
    BY <1>5, <2>3, <2>4
  <2>6. self_index <= Len(stack) /\ self_index + 1 <= Len(stack) BY <1>4, <1>5
  <2>7. QED BY <1>5, <2>5, <2>6, KeptIf
<1>13. QED
  BY <1>7, <1>8, <1>9, <1>10, <1>11, <1>12 DEF Next, Step

(* Whatever is compiled and sent, interpreting a method leaves what lies     *)
(* below its receiver as it was, and the receiver until it ends.             *)
THEOREM CallersUntouched ==
  ASSUME Compiled(Nodes, heights)
  PROVE  Spec => BelowUntouched
<1>1. Init => StackInv BY StackInit
<1>2. StackInv /\ [Next]_vars => StackInv' BY StackStep
<1>3. StackInv /\ [Next]_vars => [Kept]_vars BY StepKeeps
<1>4. QED BY <1>1, <1>2, <1>3, PTL DEF Spec, BelowUntouched, Kept

-----------------------------------------------------------------------------
(* The table the methods look up their primitives in, for any number of      *)
(* threads and any list of insertions.  The invariant says of each insertion *)
(* that it is behind or still to be done by somebody.                        *)

Ahead(i) == \E th \in Threads : pc[th] = "load" /\ position[th] <= i

(* Every insertion a thread has behind it left an entry. *)
BehindIsThere ==
  \A th \in Threads, j \in DOMAIN Loads :
    j < position[th] => primitives[Loads[j][1]] # None

ThereOrAhead ==
  is_empty \/ \A i \in DOMAIN Loads : primitives[Loads[i][1]] # None \/ Ahead(i)

LastOrAhead ==
  is_empty \/ \A i \in DOMAIN Loads :
                LastEntry(i) => primitives[Loads[i][1]] = Loads[i][2] \/ Ahead(i)

TableInv == TableTypeOK /\ BehindIsThere /\ ThereOrAhead /\ LastOrAhead

LEMMA LoadsFacts ==
  /\ Len(Loads) \in Nat \ {0}
  /\ DOMAIN Loads = 1 .. Len(Loads)
  /\ \A i \in DOMAIN Loads : Loads[i][1] \in Keys /\ Loads[i][2] \in Functions
  /\ \A i \in DOMAIN Loads : Loads[i][2] # None
<1>1. Loads \in Seq(Keys \X Functions) /\ Loads # <<>> /\ None \notin Functions
  BY LoadsAssumption
<1>2. Len(Loads) \in Nat \ {0} /\ DOMAIN Loads = 1 .. Len(Loads)
  BY <1>1
<1>3. \A i \in DOMAIN Loads : Loads[i] \in Keys \X Functions
  BY <1>1, <1>2
<1>4. QED BY <1>1, <1>2, <1>3

LEMMA AnswerDomain == NoAnswer \notin Functions \cup {None}
BY LoadsAssumption

LEMMA InitTableInv == TableInit => TableInv
<1> SUFFICES ASSUME TableInit PROVE TableInv
  OBVIOUS
<1>1. TableTypeOK BY LoadsFacts DEF TableInit, TableTypeOK
<1>2. BehindIsThere BY LoadsFacts DEF TableInit, BehindIsThere
<1>3. is_empty BY DEF TableInit, is_empty
<1>4. QED BY <1>1, <1>2, <1>3 DEF TableInv, ThereOrAhead, LastOrAhead

(* What an insertion does, in the terms of the invariant. *)
LEMMA AddStep ==
  ASSUME TableTypeOK, NEW th \in Threads, prim_add(th)
  PROVE  /\ position[th] \in DOMAIN Loads
         /\ primitives'[Loads[position[th]][1]] = Loads[position[th]][2]
         /\ \A k \in Keys : k # Loads[position[th]][1] => primitives'[k] = primitives[k]
         /\ position'[th] = position[th] + 1
         /\ \A u \in Threads \ {th} : position'[u] = position[u]
         /\ pc[th] = "load" /\ pc' = pc
         /\ ~is_empty'
<1>1. position[th] \in DOMAIN Loads BY LoadsFacts DEF TableTypeOK, prim_add
<1>2. Loads[position[th]][1] \in Keys /\ Loads[position[th]][2] # None
  BY <1>1, LoadsFacts
<1>3. QED BY <1>1, <1>2 DEF TableTypeOK, prim_add, is_empty

LEMMA TypeStep == TableTypeOK /\ [TableNext]_tableVars => TableTypeOK'
<1> SUFFICES ASSUME TableTypeOK, [TableNext]_tableVars PROVE TableTypeOK'
  OBVIOUS
<1> USE LoadsFacts DEF TableTypeOK, Goto
<1>1. CASE UNCHANGED tableVars BY <1>1 DEF tableVars
<1>2. ASSUME NEW th \in Threads, LookUp(th) PROVE TableTypeOK' BY <1>2 DEF LookUp
<1>3. ASSUME NEW th \in Threads, Answer(th) PROVE TableTypeOK' BY <1>3 DEF Answer
<1>4. ASSUME NEW th \in Threads, FindEmpty(th) PROVE TableTypeOK' BY <1>4 DEF FindEmpty
<1>5. ASSUME NEW th \in Threads, prim_add(th) PROVE TableTypeOK'
  <2>1. position[th] \in DOMAIN Loads BY <1>5 DEF prim_add
  <2>2. QED BY <1>5, <2>1 DEF prim_add
<1>6. ASSUME NEW th \in Threads, LookAgain(th) PROVE TableTypeOK' BY <1>6 DEF LookAgain
<1>7. QED BY <1>1, <1>2, <1>3, <1>4, <1>5, <1>6 DEF TableNext

LEMMA BehindStep == TableInv /\ [TableNext]_tableVars => BehindIsThere'
<1> SUFFICES ASSUME TableInv, [TableNext]_tableVars, NEW u \in Threads, NEW j \in DOMAIN Loads,
                    (j < position[u])'
             PROVE  primitives'[Loads[j][1]] # None
  BY DEF BehindIsThere
<1> USE LoadsFacts DEF TableInv, Goto
<1>1. CASE UNCHANGED tableVars BY <1>1 DEF tableVars, BehindIsThere
<1>2. ASSUME NEW th \in Threads, LookUp(th) PROVE primitives'[Loads[j][1]] # None
  <2>1. CASE u = th BY <1>2, <2>1 DEF LookUp, TableTypeOK
  <2>2. CASE u # th BY <1>2, <2>2 DEF LookUp, TableTypeOK, BehindIsThere
  <2>3. QED BY <2>1, <2>2
<1>3. ASSUME NEW th \in Threads, Answer(th) \/ FindEmpty(th) \/ LookAgain(th)
      PROVE primitives'[Loads[j][1]] # None
  BY <1>3 DEF Answer, FindEmpty, LookAgain, BehindIsThere
<1>4. ASSUME NEW th \in Threads, prim_add(th) PROVE primitives'[Loads[j][1]] # None
  <2>1. CASE Loads[j][1] = Loads[position[th]][1] BY <1>4, <2>1, AddStep
  <2>2. CASE Loads[j][1] # Loads[position[th]][1]
    <3>1. primitives'[Loads[j][1]] = primitives[Loads[j][1]] BY <1>4, <2>2, AddStep
    <3>2. u = th => j # position[th] BY <2>2
    <3>3. j < position[u] BY <1>4, <3>2, AddStep DEF TableTypeOK
    <3>4. QED BY <3>1, <3>3 DEF BehindIsThere
  <2>3. QED BY <2>1, <2>2
<1>5. QED BY <1>1, <1>2, <1>3, <1>4 DEF TableNext

(* Only an insertion changes the table and who is ahead of what. *)
LEMMA QuietStep ==
  ASSUME TableTypeOK, [TableNext]_tableVars, ~ \E th \in Threads : prim_add(th), NEW i \in DOMAIN Loads
  PROVE  /\ primitives' = primitives
         /\ Ahead(i) => Ahead(i)'
<1> USE LoadsFacts DEF TableTypeOK, Ahead, Goto
<1>1. CASE UNCHANGED tableVars BY <1>1 DEF tableVars
<1>2. ASSUME NEW th \in Threads, LookUp(th) \/ Answer(th) \/ FindEmpty(th)
      PROVE primitives' = primitives /\ (Ahead(i) => Ahead(i)')
  BY <1>2 DEF LookUp, Answer, FindEmpty
<1>3. ASSUME NEW th \in Threads, LookAgain(th)
      PROVE primitives' = primitives /\ (Ahead(i) => Ahead(i)')
  BY <1>3 DEF LookAgain
<1>4. QED BY <1>1, <1>2, <1>3 DEF TableNext

(* After an insertion, every insertion but that one has somebody ahead of it *)
(* if it had before, or if the table was empty.                              *)
LEMMA AheadStep ==
  ASSUME TableInv, NEW th \in Threads, prim_add(th), NEW i \in DOMAIN Loads,
         i # position[th], Ahead(i) \/ is_empty \/ position[th] < i
  PROVE  Ahead(i)'
<1> DEFINE p == position[th]
<1>1. p \in DOMAIN Loads /\ p \in Int /\ i \in Int
  BY AddStep, LoadsFacts DEF TableInv
<1>2. ASSUME p < i PROVE Ahead(i)'
  <2>1. pc'[th] = "load" /\ position'[th] <= i BY <1>1, <1>2, AddStep DEF TableInv
  <2>2. QED BY <2>1 DEF Ahead
<1>3. ASSUME is_empty PROVE p < i
  <2>1. primitives[Loads[1][1]] = None BY <1>3, LoadsFacts DEF is_empty
  <2>2. ~(1 < p) BY <2>1, LoadsFacts DEF TableInv, BehindIsThere
  <2>3. QED BY <1>1, <2>2, LoadsFacts
<1>4. ASSUME Ahead(i) PROVE Ahead(i)'
  <2>1. PICK u \in Threads : pc[u] = "load" /\ position[u] <= i BY <1>4 DEF Ahead
  <2>2. CASE u = th BY <1>1, <1>2, <2>1, <2>2
  <2>3. CASE u # th
    <3>1. pc'[u] = "load" /\ position'[u] <= i BY <2>1, <2>3, AddStep DEF TableInv
    <3>2. QED BY <3>1 DEF Ahead
  <2>4. QED BY <2>2, <2>3
<1>5. QED BY <1>2, <1>3, <1>4

LEMMA ThereStep == TableInv /\ [TableNext]_tableVars => ThereOrAhead'
<1> SUFFICES ASSUME TableInv, [TableNext]_tableVars PROVE ThereOrAhead'
  OBVIOUS
<1>1. ASSUME NEW th \in Threads, prim_add(th) PROVE ThereOrAhead'
  <2> SUFFICES ASSUME NEW i \in DOMAIN Loads PROVE primitives'[Loads[i][1]] # None \/ Ahead(i)'
    BY DEF ThereOrAhead
  <2>1. CASE Loads[i][1] = Loads[position[th]][1]
    BY <1>1, <2>1, AddStep, LoadsFacts DEF TableInv
  <2>2. CASE Loads[i][1] # Loads[position[th]][1]
    <3>1. primitives'[Loads[i][1]] = primitives[Loads[i][1]] /\ i # position[th]
      BY <1>1, <2>2, AddStep, LoadsFacts DEF TableInv
    <3>2. CASE primitives[Loads[i][1]] # None BY <3>1, <3>2
    <3>3. CASE primitives[Loads[i][1]] = None
      <4>1. Ahead(i) \/ is_empty BY <3>3 DEF TableInv, ThereOrAhead
      <4>2. QED BY <1>1, <3>1, <4>1, AheadStep
    <3>4. QED BY <3>2, <3>3
  <2>3. QED BY <2>1, <2>2
<1>2. CASE ~ \E th \in Threads : prim_add(th)
  <2>1. primitives' = primitives BY <1>2, QuietStep, LoadsFacts DEF TableInv
  <2>2. \A i \in DOMAIN Loads : Ahead(i) => Ahead(i)' BY <1>2, QuietStep DEF TableInv
  <2>3. QED BY <2>1, <2>2 DEF TableInv, ThereOrAhead, is_empty
<1>3. QED BY <1>1, <1>2

LEMMA LastStep == TableInv /\ [TableNext]_tableVars => LastOrAhead'
<1> SUFFICES ASSUME TableInv, [TableNext]_tableVars PROVE LastOrAhead'
  OBVIOUS
<1>1. ASSUME NEW th \in Threads, prim_add(th) PROVE LastOrAhead'
  <2> SUFFICES ASSUME NEW i \in DOMAIN Loads, LastEntry(i)
               PROVE  primitives'[Loads[i][1]] = Loads[i][2] \/ Ahead(i)'
    BY DEF LastOrAhead, LastEntry
  <2> DEFINE p == position[th]
  <2>0. p \in DOMAIN Loads /\ p \in Int /\ i \in Int
    BY <1>1, AddStep, LoadsFacts DEF TableInv
  <2>1. CASE i = p BY <1>1, <2>1, AddStep DEF TableInv
  <2>2. CASE i # p /\ Loads[i][1] = Loads[p][1]
    <3>1. p < i BY <2>0, <2>2 DEF LastEntry
    <3>2. QED BY <1>1, <2>2, <3>1, AheadStep
  <2>3. CASE i # p /\ Loads[i][1] # Loads[p][1]
    <3>1. primitives'[Loads[i][1]] = primitives[Loads[i][1]]
      BY <1>1, <2>3, AddStep, LoadsFacts DEF TableInv
    <3>2. CASE primitives[Loads[i][1]] = Loads[i][2] BY <3>1, <3>2
    <3>3. CASE primitives[Loads[i][1]] # Loads[i][2]
      <4>1. Ahead(i) \/ is_empty BY <3>3 DEF TableInv, LastOrAhead
      <4>2. QED BY <1>1, <2>3, <4>1, AheadStep
    <3>4. QED BY <3>2, <3>3
  <2>4. QED BY <2>1, <2>2, <2>3
<1>2. CASE ~ \E th \in Threads : prim_add(th)
  <2>1. primitives' = primitives BY <1>2, QuietStep, LoadsFacts DEF TableInv
  <2>2. \A i \in DOMAIN Loads : Ahead(i) => Ahead(i)' BY <1>2, QuietStep DEF TableInv
  <2>3. QED BY <2>1, <2>2 DEF TableInv, LastOrAhead, LastEntry, is_empty
<1>3. QED BY <1>1, <1>2

LEMMA TableInvAlways == TableSpec => []TableInv
<1>1. TableInv /\ [TableNext]_tableVars => TableInv'
  BY TypeStep, BehindStep, ThereStep, LastStep DEF TableInv
<1>2. QED BY InitTableInv, <1>1, PTL DEF TableSpec

(* Type correctness. *)
THEOREM TableTypeCorrect == TableSpec => []TableTypeOK
<1>1. TableInv => TableTypeOK BY DEF TableInv
<1>2. QED BY TableInvAlways, <1>1, PTL

(* However loads interleave, the table at rest is that of a single load. *)
THEOREM SingleLoad == TableSpec => []CompleteAtRest
<1>1. TableInv => CompleteAtRest BY DEF TableInv, LastOrAhead, Ahead, CompleteAtRest, Loading
<1>2. QED BY TableInvAlways, <1>1, PTL

(* Who loaded the table finds everything in it. *)
THEOREM LoaderFinds == TableSpec => []OwnLoadComplete
<1>1. TableInv => OwnLoadComplete
  <2> SUFFICES ASSUME TableInv, NEW th \in Threads, position[th] > Len(Loads), NEW k \in Provided
               PROVE  primitives[k] # None
    BY DEF OwnLoadComplete
  <2>1. PICK i \in DOMAIN Loads : k = Loads[i][1] BY DEF Provided
  <2>2. i < position[th] BY <2>1, LoadsFacts DEF TableInv, TableTypeOK
  <2>3. QED BY <2>1, <2>2 DEF TableInv, BehindIsThere
<1>2. QED BY TableInvAlways, <1>1, PTL

(* A primitive that is provided is missed only during the load of another. *)
THEOREM MissesOnlyWhileLoading == TableSpec => AbsentOnlyWhileLoading
<1> DEFINE Explained ==
      \A th \in Threads :
        answer[th] = NoAnswer /\ answer'[th] = None /\ key[th] \in Provided
          => \E other \in Threads \ {th} : pc[other] = "load"
<1>1. TableInv /\ [TableNext]_tableVars => Explained
  <2> SUFFICES ASSUME TableInv, [TableNext]_tableVars, NEW th \in Threads, answer[th] = NoAnswer,
                      answer'[th] = None, key[th] \in Provided
               PROVE  \E other \in Threads \ {th} : pc[other] = "load"
    OBVIOUS
  <2>1. answer'[th] # answer[th] BY AnswerDomain
  <2>2. Answer(th)
    <3>1. ~UNCHANGED tableVars BY <2>1 DEF tableVars
    <3>2. ASSUME NEW u \in Threads, LookUp(u) PROVE FALSE
      BY <2>1, <3>2, AnswerDomain DEF LookUp, TableInv, TableTypeOK
    <3>3. ASSUME NEW u \in Threads, FindEmpty(u) \/ prim_add(u) \/ LookAgain(u) PROVE FALSE
      BY <2>1, <3>3 DEF FindEmpty, prim_add, LookAgain
    <3>4. ASSUME NEW u \in Threads, Answer(u) PROVE u = th
      BY <2>1, <3>4 DEF Answer, TableInv, TableTypeOK
    <3>5. QED BY <3>1, <3>2, <3>3, <3>4 DEF TableNext
  <2>3. primitives[key[th]] = None /\ ~is_empty /\ pc[th] = "look"
    BY <2>2 DEF Answer, TableInv, TableTypeOK
  <2>4. PICK i \in DOMAIN Loads : key[th] = Loads[i][1] BY DEF Provided
  <2>5. Ahead(i) BY <2>3, <2>4 DEF TableInv, ThereOrAhead
  <2>6. QED BY <2>3, <2>5 DEF Ahead
<1>2. TableInv /\ [TableNext]_tableVars => [Explained]_tableVars BY <1>1
<1>3. QED BY TableInvAlways, <1>2, PTL DEF TableSpec, AbsentOnlyWhileLoading

(* The loader's second look cannot miss, for any number of threads that load *)
(* at once (primitives.rs:33-38).                                            *)
THEOREM LoadWellFormed == TableSpec => []TableWellFormed
  BY TableTypeCorrect, LoaderFinds, PTL DEF TableWellFormed

=============================================================================

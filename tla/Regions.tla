------------------------------ MODULE Regions ------------------------------
(***************************************************************************)
(* The memory of the Rust VM (memory.rs): each thread has a nursery of its *)
(* own, and all share the primary region, which is mapped when it is first *)
(* used, under the mutex which_region.                                     *)
(*                                                                         *)
(* Objects are allocated one after another; nothing is ever freed.  Who    *)
(* finds its nursery full asks for a collection, which is not implemented: *)
(* it panics inside the closure it passed to primary_do and so poisons the *)
(* mutex, as does who finds the primary region full.                       *)
(*                                                                         *)
(* primary_do matches on `Unitialized`, which is a variable and matches    *)
(* everything: each call maps the regions (again, to no effect) and uses   *)
(* the primary one.  The secondary region is therefore left out.           *)
(*                                                                         *)
(* An operator named after another one with a suffix is that one with a    *)
(* slip in it, for the runs that show a property to notice it.             *)
(***************************************************************************)
EXTENDS ObjectFormat

CONSTANTS
  Threads,
  Primary,
  NurserySize, gc_size,   (* in words                                       *)
  Requests,               (* of each thread, what it may ask for: see Request*)
  Free                    (* nobody has the mutex                           *)

Regions == Threads \cup {Primary}

(* op: "alloc" (fields nil or zero), "string", or "init", which stores what  *)
(* is given (init and array, used by the tests); place: "nursery", "primary".*)
Request(op, place, s) == [op |-> op, place |-> place, shape |-> s]

(* The width of the widest character; one of 3 bytes takes 4. *)
str_shape(s) == [s EXCEPT !.width = IF @ = 3 THEN 4 ELSE @]
Shape(r) == IF r.op = "string" THEN str_shape(r.shape) ELSE r.shape
total_size(r) == formatAndSize(Shape(r)).total_size

ASSUME RegionsAssumption ==
  /\ Primary \notin Threads /\ Free \notin Threads
  /\ NurserySize \in Nat \ {0} /\ gc_size \in Nat \ {0}
  /\ DOMAIN Requests = Threads /\ \A th \in Threads : Requests[th] # {}
  /\ \A th \in Threads : \A r \in Requests[th] :
       /\ r.op \in {"alloc", "string", "init"} /\ r.place \in {"nursery", "primary"}
       /\ r.shape \in [n_instVars : Nat, n_indexed : Nat \cup {-1}, width : -1 .. 8, weak : BOOLEAN]
       /\ r.op = "string" => (Bytes(r.shape) /\ r.shape.n_indexed > 0) \/ r.shape.width = 0
       /\ r.op = "init" =>
            /\ ~r.shape.weak /\ r.shape.width = -1
            /\ r.shape.n_indexed = -1 \/ (r.shape.n_instVars = 0 /\ r.shape.n_indexed < Large)
       /\ (r.op = "string" /\ r.shape.width = 0) \/ Covered(Shape(r))

VARIABLES
  memory, current, end,   (* of each region; addresses from its base        *)
  lock, poisoned,         (* which_region                                   *)
  pc, request,            (* the call a thread is in                        *)
  objects                 (* what was handed out, by region                 *)

regions == <<memory, current, end, objects>>
mutex == <<lock, poisoned>>
vars == <<regions, mutex, pc, request>>

Capacity(g) == IF g = Primary THEN gc_size ELSE NurserySize

Init ==
  /\ memory = [g \in Regions |-> [a \in 0 .. Capacity(g) - 1 |-> Unused]]
  /\ current = [g \in Regions |-> 0]
  /\ end = [g \in Regions |-> IF g = Primary THEN 0 ELSE NurserySize - 1]
  /\ objects = [g \in Regions |-> {}]
  /\ lock = Free /\ poisoned = FALSE
  /\ pc = [th \in Threads |-> "idle"]
  /\ request = [th \in Threads |-> CHOOSE r \in Requests[th] : TRUE]

Goto(th, l) == pc' = [pc EXCEPT ![th] = l]

-----------------------------------------------------------------------------
(* A region: allocObject and init. *)

(* at_put_u8 and at_put_u32 refuse the format of 2 bytes; of the empty       *)
(* string the width is 0, by which formatAndSize divides.                    *)
Empty(r) == r.op = "string" /\ r.shape.width = 0
TwoBytes(r) == r.op = "string" /\ r.shape.width = 2

(* init looks at the end only. *)
HasRoom(g, r) == current[g] < end[g] \/ r.op = "init"
Fits(g, r) == HasRoom(g, r) /\ current[g] + total_size(r) <= end[g]

Contents(m, at, r) ==
  CASE r.op = "alloc" -> initialize(m, at)
    [] r.op = "string" -> at_put_all(m, at, r.shape.n_indexed, Shape(r).width)
    [] r.op = "init" -> store(m, at, total_size(r) - 1)

Allocated(g, r) ==
  /\ ~Empty(r) /\ ~TwoBytes(r) /\ Fits(g, r)
  /\ memory' = [memory EXCEPT ![g] = Contents(alloc(@, current[g], Shape(r)), current[g], r)]
  /\ current' = [current EXCEPT ![g] = @ + total_size(r)]
  /\ objects' = [objects EXCEPT ![g] = @ \cup {[at |-> current[g], op |-> r.op, shape |-> Shape(r)]}]
  /\ UNCHANGED end

(* Header and count are written before it turns out that there is no room;   *)
(* by init the fields too.                                                   *)
Full(g, r) ==
  /\ Empty(r) => ~HasRoom(g, r)
  /\ ~Empty(r) => ~Fits(g, r)
  /\ memory' = IF ~HasRoom(g, r) THEN memory
               ELSE [memory EXCEPT ![g] =
                       LET m == alloc(@, current[g], Shape(r))
                       IN IF r.op = "init" THEN store(m, current[g], total_size(r) - 1) ELSE m]
  /\ UNCHANGED <<current, end, objects>>

(* The panic comes before anything is allocated, or with an object that is   *)
(* allocated and not handed out, its last word zeroed.                       *)
Unencodable(g, r) ==
  \/ /\ Empty(r) /\ HasRoom(g, r)
     /\ UNCHANGED regions
  \/ /\ TwoBytes(r) /\ Fits(g, r)
     /\ memory' = [memory EXCEPT ![g] = alloc(@, current[g], Shape(r))]
     /\ current' = [current EXCEPT ![g] = @ + total_size(r)]
     /\ UNCHANGED <<end, objects>>

-----------------------------------------------------------------------------
(* allocObject, init_str and init: in the nursery of the thread. *)
Nursery(th, r) ==
  /\ pc[th] = "idle" /\ r.place = "nursery"
  /\ \/ Allocated(th, r) /\ UNCHANGED pc
     \/ Full(th, r) /\ Goto(th, IF r.op = "init" THEN "panicked" ELSE "collect")
     \/ Unencodable(th, r) /\ Goto(th, "panicked")
  /\ UNCHANGED <<mutex, request>>

(* primary_allocObject, primary_init_str, primary_init and primary_array. *)
primary_call(th, r) ==
  /\ pc[th] = "idle" /\ r.place = "primary"
  /\ request' = [request EXCEPT ![th] = r]
  /\ Goto(th, "primary")
  /\ UNCHANGED <<regions, mutex>>

mapMemory ==
  end' = [end EXCEPT ![Primary] = IF @ < gc_size - 1 THEN gc_size - 1 ELSE @]

lock_unchecked(th) == pc[th] \in {"primary", "collect"} /\ lock = Free

(* primary_do: a poisoned mutex makes unwrap panic. *)
lock_unwrap(th) == pc[th] \in {"primary", "collect"} /\ lock = Free /\ ~poisoned

Enter(th) ==
  /\ lock_unwrap(th)
  /\ lock' = th
  /\ mapMemory
  /\ Goto(th, IF pc[th] = "primary" THEN "in primary" ELSE "in collect")
  /\ UNCHANGED <<memory, current, objects, poisoned, request>>

EnterPoisoned(th) ==
  /\ pc[th] \in {"primary", "collect"} /\ lock = Free /\ poisoned
  /\ Goto(th, "panicked")
  /\ UNCHANGED <<regions, mutex, request>>

Primarily(th) ==
  /\ pc[th] = "in primary"
  /\ Allocated(Primary, request[th])
  /\ lock' = Free
  /\ Goto(th, "idle")
  /\ UNCHANGED <<poisoned, request>>

panic_locked(th) ==
  /\ poisoned' = TRUE /\ UNCHANGED lock
  /\ Goto(th, "panicked")

(* A panic drops the guard and poisons the mutex. *)
panic(th) ==
  /\ poisoned' = TRUE /\ lock' = Free
  /\ Goto(th, "panicked")

PrimaryPanics(th) ==
  /\ pc[th] = "in primary"
  /\ Full(Primary, request[th]) \/ Unencodable(Primary, request[th])
  /\ panic(th)
  /\ UNCHANGED request

collect_from(th) ==
  /\ pc[th] = "in collect"
  /\ panic(th)
  /\ UNCHANGED <<regions, request>>

Step(th) ==
  Enter(th) \/ EnterPoisoned(th) \/ Primarily(th) \/ PrimaryPanics(th) \/ collect_from(th)

Next ==
  \E th \in Threads :
    Step(th) \/ \E r \in Requests[th] : Nursery(th, r) \/ primary_call(th, r)

Spec == Init /\ [][Next]_vars /\ \A th \in Threads : WF_vars(Step(th))

-----------------------------------------------------------------------------
Inside == {"in primary", "in collect"}

(* Types; current stays at or before the last word of a region, which is     *)
(* never given to an object, and only who has the mutex is inside.           *)
TypeOK ==
  /\ DOMAIN memory = Regions
  /\ \A g \in Regions : DOMAIN memory[g] = 0 .. Capacity(g) - 1
  /\ end \in [Regions -> Nat] /\ \A g \in Regions : end[g] < Capacity(g)
  /\ current \in [Regions -> Nat] /\ \A g \in Regions : current[g] <= end[g]
  /\ poisoned \in BOOLEAN
  /\ pc \in [Threads -> {"idle", "primary", "collect", "panicked"} \cup Inside]
  /\ DOMAIN request = Threads /\ \A th \in Threads : request[th] \in Requests[th]
  /\ \A th \in Threads : pc[th] \in Inside => lock = th

Length(o) == formatAndSize(o.shape).total_size
After(o) == o.at + Length(o)

(* Objects lie one behind the other, up to current, none over another, and   *)
(* words() reads from each the size it was allocated with, also after later  *)
(* calls wrote what did not fit: the region can be walked.  Between them may *)
(* only lie objects their callers never got (strings of 2-byte characters).  *)
Tiled ==
  \A g \in Regions :
    /\ \A o \in objects[g] :
         After(o) <= current[g] /\ words(memory[g], o.at) = Length(o)
    /\ \A o, p \in objects[g] : o = p \/ After(o) <= p.at \/ After(p) <= o.at

(* Types, and objects one behind the other within their region.              *)
WellFormed == TypeOK /\ Tiled

(* What was asked for is read back from the header: the number of fields and *)
(* of indexed fields, and their width (object.rs:499-523 against 575-659).   *)
AsAsked ==
  \A g \in Regions : \A o \in objects[g] :
    LET h == memory[g][o.at]
    IN /\ size(memory[g], o.at) = Max0(o.shape.n_indexed)
       /\ n_instVars(h) = o.shape.n_instVars
       /\ Bytes(o.shape) => width(h) = o.shape.width
       /\ ~Bytes(o.shape) => width(h) = -1

(* No object shows what was in its memory before: every word of it is        *)
(* written, whatever unsuccessful calls left there.                          *)
Initialised ==
  \A g \in Regions : \A o \in objects[g] : \A a \in o.at + 1 .. After(o) - 1 :
    memory[g][a].holds \in
      IF o.op # "alloc" THEN {"data"}
      ELSE IF Bytes(o.shape) THEN {"zero"}
      ELSE IF a = o.at + firstIndex(memory[g][o.at]) /\ a > o.at + o.shape.n_instVars
           THEN {"count"} ELSE {"nil"}

(* A panic with the mutex ends the use of the primary region for every       *)
(* thread: no object is allocated in it again.                               *)
PoisonedForGood == [][poisoned => poisoned' /\ objects'[Primary] = objects[Primary]]_vars

(* A call ends, with an object or with a panic: nobody waits for a mutex     *)
(* whose owner is gone, or for a collection.                                 *)
CallEnds == \A th \in Threads : pc[th] # "idle" ~> pc[th] \in {"idle", "panicked"}
=============================================================================

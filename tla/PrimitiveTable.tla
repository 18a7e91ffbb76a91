--------------------------- MODULE PrimitiveTable ---------------------------
(***************************************************************************)
(* The table of primitives of the Rust VM (interpreter/primitives.rs): a   *)
(* map behind a read-write lock that the first lookup fills.               *)
(*                                                                         *)
(* prim_lookup drops its read guard before it loads, and each prim_add     *)
(* takes the write lock for one insertion only.  No thread does anything   *)
(* else while it has a guard, so a step stands for what one guard covers.  *)
(*                                                                         *)
(* An operator named after another one with a suffix is that one with a    *)
(* slip in it, for the runs that show a property to notice it.             *)
(***************************************************************************)
EXTENDS Integers, Sequences

CONSTANTS
  Threads,
  Keys,       (* what a method may name as its primitive                    *)
  Loads,      (* the calls of add_str and add_i32, in order: <<key, function>>*)
  None,       (* Option::None                                               *)
  NoAnswer

Functions == {Loads[i][2] : i \in DOMAIN Loads}
Provided == {Loads[i][1] : i \in DOMAIN Loads}

ASSUME LoadsAssumption ==
  /\ Loads \in Seq(Keys \X Functions) /\ Loads # <<>>
  /\ None \notin Functions /\ NoAnswer \notin Functions \cup {None}

VARIABLES
  primitives,  (* the map; None where it has no entry                       *)
  pc,
  key,         (* the argument of the call a thread is in                   *)
  position,    (* the insertion a loading thread does next                  *)
  answer

tableVars == <<primitives, pc, key, position, answer>>

TableInit ==
  /\ primitives = [k \in Keys |-> None]
  /\ pc = [th \in Threads |-> "idle"]
  /\ key \in [Threads -> Keys]
  /\ position = [th \in Threads |-> 1]
  /\ answer = [th \in Threads |-> None]

is_empty == \A k \in Keys : primitives[k] = None

Goto(th, l) == pc' = [pc EXCEPT ![th] = l]

LookUp(th) ==
  /\ pc[th] = "idle"
  /\ \E k \in Keys : key' = [key EXCEPT ![th] = k]
  /\ answer' = [answer EXCEPT ![th] = NoAnswer]
  /\ position' = [position EXCEPT ![th] = 1]
  /\ Goto(th, "look")
  /\ UNCHANGED primitives

AnswerEmpty(th) ==
  /\ pc[th] = "look"
  /\ answer' = [answer EXCEPT ![th] = primitives[key[th]]]
  /\ Goto(th, "idle")
  /\ UNCHANGED <<primitives, key, position>>

Answer(th) ==
  /\ pc[th] = "look"
  /\ ~is_empty
  /\ answer' = [answer EXCEPT ![th] = primitives[key[th]]]
  /\ Goto(th, "idle")
  /\ UNCHANGED <<primitives, key, position>>

FindEmpty(th) ==
  /\ pc[th] = "look"
  /\ is_empty
  /\ Goto(th, "load")
  /\ UNCHANGED <<primitives, key, position, answer>>

prim_add_unless_there(th) ==
  /\ pc[th] = "load"
  /\ position[th] <= Len(Loads)
  /\ primitives' = [primitives EXCEPT ![Loads[position[th]][1]] =
                      IF @ = None THEN Loads[position[th]][2] ELSE @]
  /\ position' = [position EXCEPT ![th] = @ + 1]
  /\ UNCHANGED <<pc, key, answer>>

prim_add_if_empty(th) ==
  /\ pc[th] = "load"
  /\ position[th] <= Len(Loads)
  /\ primitives' = IF is_empty
                   THEN [primitives EXCEPT ![Loads[position[th]][1]] = Loads[position[th]][2]]
                   ELSE primitives
  /\ position' = [position EXCEPT ![th] = @ + 1]
  /\ UNCHANGED <<pc, key, answer>>

(* A later entry for the same key replaces an earlier one. *)
prim_add(th) ==
  /\ pc[th] = "load"
  /\ position[th] <= Len(Loads)
  /\ primitives' = [primitives EXCEPT ![Loads[position[th]][1]] = Loads[position[th]][2]]
  /\ position' = [position EXCEPT ![th] = @ + 1]
  /\ UNCHANGED <<pc, key, answer>>

(* prim_lookup calls itself when everything is loaded. *)
LookAgain(th) ==
  /\ pc[th] = "load"
  /\ position[th] > Len(Loads)
  /\ Goto(th, "look")
  /\ UNCHANGED <<primitives, key, position, answer>>

TableNext ==
  \E th \in Threads :
    LookUp(th) \/ Answer(th) \/ FindEmpty(th) \/ prim_add(th) \/ LookAgain(th)

TableSpec == TableInit /\ [][TableNext]_tableVars

-----------------------------------------------------------------------------
TableTypeOK ==
  /\ primitives \in [Keys -> Functions \cup {None}]
  /\ pc \in [Threads -> {"idle", "look", "load"}]
  /\ key \in [Threads -> Keys]
  /\ position \in [Threads -> 1 .. Len(Loads) + 1]
  /\ answer \in [Threads -> Functions \cup {None, NoAnswer}]

Loading == {th \in Threads : pc[th] = "load"}

(* The last entry of a key is what a load leaves there. *)
LastEntry(i) == \A j \in DOMAIN Loads : j > i => Loads[j][1] # Loads[i][1]

(* However the insertions of several loading threads are interleaved, when   *)
(* nobody loads the table is empty or as a single load leaves it: key 1,     *)
(* loaded as smallInteger::addI and then as stack::add, ends as the latter   *)
(* (primitives.rs:34-37).                                                    *)
CompleteAtRest ==
  Loading = {} =>
    \/ is_empty
    \/ \A i \in DOMAIN Loads : LastEntry(i) => primitives[Loads[i][1]] = Loads[i][2]

(* A lookup of a primitive that is provided fails only while another thread  *)
(* is in the middle of its load; that window is what "if !prims.is_empty()"  *)
(* (primitives.rs:26) leaves open, and the caller panics on it.              *)
AbsentOnlyWhileLoading ==
  [][\A th \in Threads :
       answer[th] = NoAnswer /\ answer'[th] = None /\ key[th] \in Provided
         => \E other \in Threads \ {th} : pc[other] = "load"]_tableVars

(* A thread that loaded the table itself finds every primitive provided,     *)
(* whatever other threads insert at the same time.                           *)
OwnLoadComplete ==
  \A th \in Threads :
    pc[th] = "look" /\ position[th] > Len(Loads)
      => \A k \in Provided : primitives[k] # None

(* Types, and the loader's promise: the recursion of prim_lookup ends at the *)
(* second call (primitives.rs:38), the table being complete by then.         *)
TableWellFormed == TableTypeOK /\ OwnLoadComplete
=============================================================================

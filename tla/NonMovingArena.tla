--------------------------- MODULE NonMovingArena ---------------------------
(***************************************************************************)
(* What the global arena promises: every allocation returns words that no  *)
(* object has, inside the heap, and objects never move.                    *)
(***************************************************************************)
EXTENDS Integers

CONSTANTS HeaderSize, Size, Requests

VARIABLE objects   (* records of where an object is and how many words it has *)

WordsOf(o) == o.at .. o.at + o.words - 1

Init == objects = {}

Allocate(o) ==
  /\ WordsOf(o) \subseteq HeaderSize .. Size - 1
  /\ \A other \in objects : WordsOf(o) \cap WordsOf(other) = {}
  /\ objects' = objects \cup {o}

Next ==
  \E at \in HeaderSize .. Size - 1, r \in Requests :
    Allocate([at |-> at, words |-> r.words])

Spec == Init /\ [][Next]_objects
=============================================================================

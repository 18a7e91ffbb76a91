------------------------------ MODULE MCRegions ------------------------------
(* Two threads, regions of a few objects, and one request of each kind. *)
EXTENDS Regions, TLC

Asked(instVars, indexed, wide, isWeak) == ShapeOf(instVars, indexed, wide, isWeak)
Strings == {<<9, 1>>, <<2, 2>>, <<3, 3>>, <<0, 0>>}
Texts == {Asked(0, text[1], text[2], FALSE) : text \in Strings}

CONSTANTS t1, t2

(* One thread asks for all there is in its nursery, the other mostly in the  *)
(* primary region.                                                           *)
MCRequests ==
  t1 :> ({Request("alloc", "nursery", s) :
           s \in {Asked(2, -1, -1, FALSE), Asked(0, 2, -1, FALSE), Asked(1, 2, -1, FALSE),
                  Asked(1, 0, -1, TRUE), Asked(0, 3, -1, FALSE), Asked(0, 5, 2, FALSE)}}
          \cup {Request("string", "nursery", s) : s \in Texts}
          \cup {Request("init", "nursery", Asked(2, -1, -1, FALSE)),
                Request("alloc", "primary", Asked(0, 1, 8, FALSE))})
  @@ t2 :> ({Request("string", "primary", s) : s \in Texts \ {Asked(0, 3, 3, FALSE)}}
          \cup {Request("alloc", "primary", Asked(0, 3, -1, FALSE)),
                Request("alloc", "nursery", Asked(0, 3, -1, FALSE))})
=============================================================================

----------------------------- MODULE MCClasses -----------------------------
(* A class that is there from the start, the name of a symbol that is no     *)
(* class yet, and a new name; the last class is the last there may be.       *)
EXTENDS Classes, TLC

MCArity == ("Symbol" :> 0) @@ ("yourself" :> 0) @@ ("at:put:" :> 2)
=============================================================================

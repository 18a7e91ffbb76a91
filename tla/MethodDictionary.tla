-------------------------- MODULE MethodDictionary --------------------------
(***************************************************************************)
(* What the dispatch tables promise the compiler: a dictionary from        *)
(* signatures to compiled methods.  addMethod takes effect at one instant  *)
(* between its call and its return, exactly once, and nothing but a later  *)
(* addMethod for the same signature takes a method out again.              *)
(***************************************************************************)
CONSTANTS Methods, Sigs, SigOf, None

VARIABLES
  dict,   (* the method a send of the signature reaches, None when unknown *)
  phase   (* how far addMethod is with a method                            *)

dictVars == <<dict, phase>>

Init ==
  /\ dict = [s \in Sigs |-> None]
  /\ phase = [m \in Methods |-> "new"]

Call(m) ==
  /\ phase[m] = "new"
  /\ phase' = [phase EXCEPT ![m] = "called"]
  /\ UNCHANGED dict

Install(m) ==
  /\ phase[m] = "called"
  /\ phase' = [phase EXCEPT ![m] = "installed"]
  /\ dict' = [dict EXCEPT ![SigOf[m]] = m]

Return(m) ==
  /\ phase[m] = "installed"
  /\ phase' = [phase EXCEPT ![m] = "returned"]
  /\ UNCHANGED dict

Next == \E m \in Methods : Call(m) \/ Install(m) \/ Return(m)

Spec == Init /\ [][Next]_dictVars
=============================================================================

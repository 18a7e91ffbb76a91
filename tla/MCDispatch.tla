----------------------------- MODULE MCDispatch -----------------------------
(* Small instances of Dispatch: four methods, added by two processes. *)
EXTENDS Dispatch, TLC

CONSTANTS p1, p2, m1, m2, m3, m4, s1, s2, s3, s4

(* The fourth method is a recompilation of the first. *)
Recompiled == (m1 :> s1) @@ (m2 :> s2) @@ (m3 :> s3) @@ (m4 :> s1)
Distinct == (m1 :> s1) @@ (m2 :> s2) @@ (m3 :> s3) @@ (m4 :> s4)

(* Selectors whose probes share the last element of a table of prime 5 and   *)
(* are apart in larger ones.                                                 *)
SpreadHash == (s1 :> 80) @@ (s2 :> 85) @@ (s3 :> 88) @@ (s4 :> 99)

(* One selector implemented by four classes: the hash leaves the class out,  *)
(* so all four start at the same element of any table, the last of them.     *)
OneSelector == (s1 :> 99) @@ (s2 :> 99) @@ (s3 :> 99) @@ (s4 :> 99)
=============================================================================

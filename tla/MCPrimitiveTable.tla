-------------------------- MODULE MCPrimitiveTable --------------------------
(* Two threads and the primitives the code provides; "12" is none of them. *)
EXTENDS PrimitiveTable

P == INSTANCE Primitives WITH IntLimit <- 1, IsizeLimit <- 2

MCLoads == P!loads
MCKeys == {P!loads[i][1] : i \in DOMAIN P!loads} \cup {"12"}
=============================================================================

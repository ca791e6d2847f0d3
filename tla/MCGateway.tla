------------------------------ MODULE MCGateway ------------------------------
(* Model-checking instances of the gateway. *)
EXTENDS Gateway
==============================================================================

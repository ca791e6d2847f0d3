--------------------------- MODULE MCEngineServer ---------------------------
(* Model-checking instances of the engine server. *)
EXTENDS EngineServer, TLC
==============================================================================

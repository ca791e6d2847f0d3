-------------------------- MODULE MCWriteAheadLog --------------------------
(* Model-checking instances of the write-ahead log: the bounds are in the    *)
(* configurations.                                                           *)
EXTENDS WriteAheadLog
==============================================================================

-------------------------- MODULE MCSPSCRingBuffer --------------------------
(* Four slots (three usable) and two values: every full, empty and wrapped    *)
(* position of the four indices is reached.                                   *)
EXTENDS SPSCRingBuffer

ASSUME PowerOfTwoAssumption == \E k \in 1 .. 10 : N = 2 ^ k
==============================================================================

----------------------------- MODULE BoundedFifo -----------------------------
(***************************************************************************)
(* What a single-producer single-consumer queue promises to the two        *)
(* threads that share it: values come out once each, in the order they     *)
(* went in, and never more than Capacity of them are inside.  A rejected   *)
(* push and an empty pop change nothing, so they are stuttering steps.     *)
(*                                                                         *)
(* SPSCRingBuffer implements this specification.                           *)
(***************************************************************************)
EXTENDS Naturals, Sequences

CONSTANTS
  Values,    \* the values the producer may push
  Capacity,  \* how many of them the queue can hold
  Junk       \* what the consumer's output variable holds before the first pop

VARIABLES
  items,     \* the queued values, oldest first
  out        \* the value the consumer's last successful pop returned

vars == <<items, out>>

TypeOK ==
  /\ items \in Seq(Values)
  /\ out \in Values \cup {Junk}

Init ==
  /\ items = <<>>
  /\ out = Junk

Enqueue(v) ==
  /\ Len(items) < Capacity
  /\ items' = Append(items, v)
  /\ UNCHANGED out

Dequeue ==
  /\ items # <<>>
  /\ out' = Head(items)
  /\ items' = Tail(items)

Next == Dequeue \/ \E v \in Values : Enqueue(v)

Spec == Init /\ [][Next]_vars
==============================================================================

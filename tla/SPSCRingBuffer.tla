--------------------------- MODULE SPSCRingBuffer ---------------------------
(***************************************************************************)
(* The lock-free single-producer single-consumer ring buffer of            *)
(* engine/include/ring_buffer.hpp, at the grain of its memory accesses.    *)
(*                                                                         *)
(* A push is: load head_ and compare (PushBegin), write the slot           *)
(* (WriteSlot), store tail_ (PublishTail).  A pop is the mirror image.     *)
(* Each thread owns one index and sees the other one late: pHead is the    *)
(* value of head_ the producer can load, cTail the value of tail_ the      *)
(* consumer can load.  An acquire load that reads a newer index            *)
(* (AcquireHead, AcquireTail) also makes visible every slot access that    *)
(* the release store of that index followed, and no other: `unseen' holds  *)
(* the slots whose latest write the consumer cannot yet rely on, and       *)
(* `moved' those whose move-out the producer cannot yet rely on.           *)
(*                                                                         *)
(* A push that finds the buffer full and a pop that finds it empty return  *)
(* false and change nothing: they are stuttering steps.                    *)
(***************************************************************************)
EXTENDS Integers, Sequences

CONSTANTS
  N,       \* the template parameter: the number of slots, a power of two
  Values,  \* what may be pushed
  Junk     \* an unspecified object: a default-constructed or moved-from slot

ASSUME SizeAssumption == N \in Nat /\ N >= 2
ASSUME JunkAssumption == Junk \notin Values

VARIABLES
  head,    \* head_, as its owner the consumer knows it
  tail,    \* tail_, as its owner the producer knows it
  pHead,   \* what the producer's next load of head_ returns
  cTail,   \* what the consumer's next load of tail_ returns
  buf,     \* buf_
  unseen,  \* slots written, the write not yet visible to the consumer
  moved,   \* slots moved out, the move not yet visible to the producer
  ppc,     \* where the producer is inside push
  pval,    \* the argument of the push in progress
  cpc,     \* where the consumer is inside pop
  out      \* the consumer's out parameter

indices == <<head, tail, pHead, cTail>>
producer == <<ppc, pval>>
consumer == <<cpc, out>>
vars == <<indices, buf, unseen, moved, producer, consumer>>

Slots == 0 .. N - 1

\* Mutant: the index is not masked.
UnmaskedSucc(i) == i + 1

\* N is a power of two, so masking with MASK = N - 1 is the remainder mod N.
Succ(i) == (i + 1) % N

\* Mutant: the indices are subtracted the wrong way round.
SizeReversed(h, t) == (h - t + N) % N

\* The value size_approx computes from one load of each index.
size_approx(h, t) == (t - h + N) % N

capacity == N - 1

-----------------------------------------------------------------------------
Init ==
  /\ head = 0 /\ tail = 0 /\ pHead = 0 /\ cTail = 0
  /\ buf = [i \in Slots |-> Junk]
  /\ unseen = {} /\ moved = {}
  /\ ppc = "idle" /\ pval = Junk
  /\ cpc = "idle" /\ out = Junk

\* Mutant: no slot is kept free, so a full buffer looks empty.
PushWhenFull(v) ==
  /\ ppc = "idle"
  /\ ppc' = "write"
  /\ pval' = v
  /\ UNCHANGED <<indices, buf, unseen, moved, consumer>>

\* push(val): loads both indices; goes on only if the buffer is not full.
PushBegin(v) ==
  /\ ppc = "idle"
  /\ Succ(tail) # pHead
  /\ ppc' = "write"
  /\ pval' = v
  /\ UNCHANGED <<indices, buf, unseen, moved, consumer>>

\* push(val): buf_[t] = val
WriteSlot ==
  /\ ppc = "write"
  /\ buf' = [buf EXCEPT ![tail] = pval]
  /\ unseen' = unseen \cup {tail}
  /\ ppc' = "publish"
  /\ UNCHANGED <<indices, moved, pval, consumer>>

\* push(val): tail_.store(next, release); return true
PublishTail ==
  /\ ppc = "publish"
  /\ tail' = Succ(tail)
  /\ ppc' = "idle"
  /\ pval' = Junk
  /\ UNCHANGED <<head, pHead, cTail, buf, unseen, moved, consumer>>

\* Mutant: the last value is left in the buffer.
PopAllButOne ==
  /\ cpc = "idle"
  /\ head # cTail /\ Succ(head) # cTail
  /\ cpc' = "read"
  /\ UNCHANGED <<indices, buf, unseen, moved, producer, out>>

\* pop(out): loads both indices; goes on only if the buffer is not empty.
PopBegin ==
  /\ cpc = "idle"
  /\ head # cTail
  /\ cpc' = "read"
  /\ UNCHANGED <<indices, buf, unseen, moved, producer, out>>

\* pop(out): out = std::move(buf_[h]).  Reading a slot whose write is not
\* visible is a data race: any object may come out.
ReadSlot ==
  /\ cpc = "read"
  /\ out' \in IF head \in unseen THEN Values \cup {Junk} ELSE {buf[head]}
  /\ buf' = [buf EXCEPT ![head] = Junk]
  /\ moved' = moved \cup {head}
  /\ cpc' = "advance"
  /\ UNCHANGED <<indices, unseen, producer>>

\* pop(out): head_.store((h + 1) & MASK, release); return true
AdvanceHead ==
  /\ cpc = "advance"
  /\ head' = Succ(head)
  /\ cpc' = "idle"
  /\ UNCHANGED <<tail, pHead, cTail, buf, unseen, moved, producer, out>>

-----------------------------------------------------------------------------
\* Slot accesses that no release store has followed yet.
UnreleasedWrites == IF ppc = "publish" THEN {tail} ELSE {}
UnreleasedMoves == IF cpc = "advance" THEN {head} ELSE {}

\* Mutant: tail_ is loaded relaxed: the index arrives without the slots.
RelaxedTail ==
  /\ cTail # tail
  /\ cTail' = tail
  /\ UNCHANGED <<head, tail, pHead, buf, unseen, moved, producer, consumer>>

\* The consumer's acquire load of tail_ reads the producer's latest store.
AcquireTail ==
  /\ cTail # tail
  /\ cTail' = tail
  /\ unseen' = unseen \cap UnreleasedWrites
  /\ UNCHANGED <<head, tail, pHead, buf, moved, producer, consumer>>

\* The producer's acquire load of head_ reads the consumer's latest store.
AcquireHead ==
  /\ pHead # head
  /\ pHead' = head
  /\ moved' = moved \cap UnreleasedMoves
  /\ UNCHANGED <<head, tail, cTail, buf, unseen, producer, consumer>>

Push == \/ \E v \in Values : PushBegin(v)
        \/ WriteSlot
        \/ PublishTail

Pop == PopBegin \/ ReadSlot \/ AdvanceHead

Next == Push \/ Pop \/ AcquireTail \/ AcquireHead

Spec == Init /\ [][Next]_vars

\* The consumer polls for ever (LedgerEngine::run spins on pop, io_loop drains
\* after every poll), a push that has begun is finished, and a store becomes
\* visible to the other core after finitely many loads.
FairSpec ==
  /\ Spec
  /\ WF_vars(Pop)
  /\ WF_vars(WriteSlot \/ PublishTail)
  /\ WF_vars(AcquireTail)
  /\ WF_vars(AcquireHead)

-----------------------------------------------------------------------------
(* Properties *)

Objects == Values \cup {Junk}

\* Every variable keeps its type (the indices stay inside buf_).
TypeOK ==
  /\ {head, tail, pHead, cTail} \subseteq Slots
  /\ buf \in [Slots -> Objects]
  /\ unseen \subseteq Slots /\ moved \subseteq Slots
  /\ ppc \in {"idle", "write", "publish"}
  /\ pval \in Objects
  /\ cpc \in {"idle", "read", "advance"}
  /\ out \in Objects

\* No data race on a slot (ring_buffer.hpp:59-62 and 90-93): the producer
\* never writes a slot whose move-out it does not know to be finished, and the
\* consumer never moves out of a slot whose write it does not know of.
NoDataRace ==
  /\ ppc = "write" => tail \notin moved /\ ~(cpc = "read" /\ head = tail)
  /\ cpc = "read" => head \notin unseen

\* size_approx is safe on each side (ring_buffer.hpp:111-115): evaluated by the
\* producer it never underestimates what is in the buffer, evaluated by the
\* consumer it never overestimates it, and neither exceeds capacity().
SizeApproxIsSafe ==
  /\ size_approx(pHead, tail) >= size_approx(head, tail)
  /\ size_approx(head, cTail) <= size_approx(head, tail)
  /\ size_approx(pHead, tail) <= capacity

\* The queue the two threads share: from the oldest value not yet moved out to
\* the newest one published.
First == IF cpc = "advance" THEN Succ(head) ELSE head
Queued == [k \in 1 .. size_approx(First, tail) |-> buf[(First + k - 1) % N]]

\* The ring buffer is a bounded FIFO queue (ring_buffer.hpp:54-102, the FIFO
\* test of tests/test_ring_buffer.cpp:79-114): a value is enqueued by the store
\* of tail_ and dequeued by the move out of its slot.
Fifo == INSTANCE BoundedFifo
          WITH items <- Queued, out <- out, Capacity <- capacity

RefinesFifo == Fifo!Spec

\* Whatever is published is consumed: an occupied slot is emptied again.
Occupied(i) == size_approx(head, i) < size_approx(head, tail)
EveryValueIsConsumed == \A i \in Slots : Occupied(i) ~> ~Occupied(i)
==============================================================================

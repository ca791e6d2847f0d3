------------------------ MODULE SPSCRingBuffer_proofs ------------------------
(***************************************************************************)
(* For every number of slots N >= 2 and every set of values: the ring      *)
(* buffer is type correct, neither thread ever races with the other on a   *)
(* slot, and size_approx is safe on both sides.                            *)
(*                                                                         *)
(* All three follow from one inductive invariant: walking the ring from    *)
(* pHead one meets head, then cTail, then tail, at most N - 1 slots away;  *)
(* the moves still hidden from the producer lie between pHead and head,    *)
(* the writes still hidden from the consumer between cTail and tail.       *)
(***************************************************************************)
EXTENDS SPSCRingBuffer, SequenceTheorems, TLAPS

\* How far i is ahead of pHead on the ring.
Ahead(i) == IF i >= pHead THEN i - pHead ELSE i - pHead + N

Order ==
  /\ Ahead(head) <= Ahead(cTail)
  /\ Ahead(cTail) <= Ahead(tail)

\* A push in progress has room, a pop in progress has something to take.
Room == ppc # "idle" => Ahead(tail) < N - 1
Stock == cpc # "idle" => head # cTail

HiddenWrites ==
  \A i \in unseen : \/ Ahead(cTail) <= Ahead(i) /\ Ahead(i) < Ahead(tail)
                    \/ ppc = "publish" /\ i = tail

HiddenMoves ==
  \A i \in moved : \/ Ahead(i) < Ahead(head)
                   \/ cpc = "advance" /\ i = head

IInv == TypeOK /\ Order /\ Room /\ Stock /\ HiddenWrites /\ HiddenMoves

-----------------------------------------------------------------------------
\* Masking with N - 1 wraps exactly at the last slot.
LEMMA SuccWraps ==
  ASSUME NEW i \in Slots
  PROVE  /\ Succ(i) = IF i = N - 1 THEN 0 ELSE i + 1
         /\ Succ(i) \in Slots
<1>1. CASE i = N - 1
  <2>1. (i + 1) % N = 0
    BY <1>1, SizeAssumption DEF Slots
  <2>2. QED
    BY <1>1, <2>1, SizeAssumption DEF Succ, Slots
<1>2. CASE i # N - 1
  <2>1. i + 1 \in 0 .. N - 1
    BY <1>2, SizeAssumption DEF Slots
  <2>2. (i + 1) % N = i + 1
    BY <2>1, SizeAssumption
  <2>3. QED
    BY <1>2, <2>1, <2>2, SizeAssumption DEF Succ, Slots
<1>3. QED
  BY <1>1, <1>2

\* What size_approx computes is the distance from h to t on the ring.
LEMMA SizeApproxIsDistance ==
  ASSUME NEW h \in Slots, NEW t \in Slots
  PROVE  size_approx(h, t) = IF t >= h THEN t - h ELSE t - h + N
<1>1. CASE t >= h
  <2>1. t - h \in 0 .. N - 1
    BY <1>1, SizeAssumption DEF Slots
  <2>2. (t - h + N) % N = t - h
    BY <2>1, SizeAssumption
  <2>3. QED
    BY <1>1, <2>2 DEF size_approx
<1>2. CASE ~(t >= h)
  <2>1. t - h + N \in 0 .. N - 1
    BY <1>2, SizeAssumption DEF Slots
  <2>2. (t - h + N) % N = t - h + N
    BY <2>1, SizeAssumption
  <2>3. QED
    BY <1>2, <2>2 DEF size_approx
<1>3. QED
  BY <1>1, <1>2

-----------------------------------------------------------------------------
LEMMA InitEstablishesIInv == Init => IInv
BY SizeAssumption
   DEF Init, IInv, TypeOK, Order, Room, Stock, HiddenWrites, HiddenMoves,
       Ahead, Slots, Objects

\* Types are preserved whatever the order of the indices.
LEMMA TypeStep == TypeOK /\ [Next]_vars => TypeOK'
<1> SUFFICES ASSUME TypeOK, [Next]_vars
             PROVE  TypeOK'
  OBVIOUS
<1> USE DEF TypeOK, Objects, indices, producer, consumer
<1>1. ASSUME NEW v \in Values, PushBegin(v)
      PROVE  TypeOK'
  BY <1>1 DEF PushBegin
<1>2. CASE WriteSlot
  BY <1>2 DEF WriteSlot
<1>3. CASE PublishTail
  BY <1>3, SuccWraps DEF PublishTail
<1>4. CASE PopBegin
  BY <1>4 DEF PopBegin
<1>5. CASE ReadSlot
  BY <1>5 DEF ReadSlot
<1>6. CASE AdvanceHead
  BY <1>6, SuccWraps DEF AdvanceHead
<1>7. CASE AcquireTail
  BY <1>7 DEF AcquireTail
<1>8. CASE AcquireHead
  BY <1>8 DEF AcquireHead
<1>9. CASE UNCHANGED vars
  BY <1>9 DEF vars
<1>10. QED
  BY <1>1, <1>2, <1>3, <1>4, <1>5, <1>6, <1>7, <1>8, <1>9
     DEF Next, Push, Pop

\* The order on the ring is preserved: one step per action.
LEMMA IInvStep == IInv /\ [Next]_vars => IInv'
<1> SUFFICES ASSUME IInv, [Next]_vars
             PROVE  IInv'
  OBVIOUS
<1>0. TypeOK /\ TypeOK'
  BY TypeStep DEF IInv
<1> DEFINE Ring == Order /\ Room /\ Stock /\ HiddenWrites /\ HiddenMoves
<1> SUFFICES Ring'
  BY <1>0 DEF IInv
<1>r. Ring
  BY DEF IInv
<1>t. /\ head \in Slots /\ tail \in Slots /\ pHead \in Slots /\ cTail \in Slots
      /\ unseen \subseteq Slots /\ moved \subseteq Slots
      /\ ppc \in {"idle", "write", "publish"}
      /\ cpc \in {"idle", "read", "advance"}
  BY <1>0 DEF TypeOK
<1>n. N \in Nat /\ N >= 2
  BY SizeAssumption
<1> HIDE DEF Ring
<1> USE DEF Ring, Order, Room, Stock, HiddenWrites, HiddenMoves, Ahead, Slots,
            indices, producer, consumer
<1>1. ASSUME NEW v \in Values, PushBegin(v)
      PROVE  Ring'
  <2>1. Succ(tail) = IF tail = N - 1 THEN 0 ELSE tail + 1
    BY <1>t, SuccWraps
  <2>2. QED
    BY <1>1, <1>r, <1>t, <1>n, <2>1 DEF PushBegin
<1>2. CASE WriteSlot
  BY <1>2, <1>r, <1>t, <1>n DEF WriteSlot
<1>3. CASE PublishTail
  <2>1. Succ(tail) = IF tail = N - 1 THEN 0 ELSE tail + 1
    BY <1>t, SuccWraps
  <2>2. QED
    BY <1>3, <1>r, <1>t, <1>n, <2>1 DEF PublishTail
<1>4. CASE PopBegin
  BY <1>4, <1>r, <1>t, <1>n DEF PopBegin
<1>5. CASE ReadSlot
  BY <1>5, <1>r, <1>t, <1>n DEF ReadSlot
<1>6. CASE AdvanceHead
  <2>1. Succ(head) = IF head = N - 1 THEN 0 ELSE head + 1
    BY <1>t, SuccWraps
  <2>2. QED
    BY <1>6, <1>r, <1>t, <1>n, <2>1 DEF AdvanceHead
<1>7. CASE AcquireTail
  BY <1>7, <1>r, <1>t, <1>n DEF AcquireTail, UnreleasedWrites
<1>8. CASE AcquireHead
  BY <1>8, <1>r, <1>t, <1>n DEF AcquireHead, UnreleasedMoves
<1>9. CASE UNCHANGED vars
  BY <1>9, <1>r DEF vars
<1>10. QED
  BY <1>1, <1>2, <1>3, <1>4, <1>5, <1>6, <1>7, <1>8, <1>9
     DEF Next, Push, Pop

THEOREM Invariance == Spec => []IInv
BY InitEstablishesIInv, IInvStep, PTL DEF Spec

\* Every variable keeps its type.
THEOREM TypeCorrect == Spec => []TypeOK
<1>1. IInv => TypeOK
  BY DEF IInv
<1>2. QED
  BY <1>1, Invariance, PTL

\* The producer never writes a slot the consumer may still be moving out of,
\* the consumer never moves out of a slot whose write it may not see.
THEOREM NoDataRaceHolds == Spec => []NoDataRace
<1>1. IInv => NoDataRace
  <2> SUFFICES ASSUME IInv PROVE NoDataRace
    OBVIOUS
  <2> USE SizeAssumption
      DEF IInv, TypeOK, Order, Room, Stock, HiddenWrites, HiddenMoves, Ahead, Slots
  <2>1. ASSUME ppc = "write"
        PROVE  tail \notin moved /\ ~(cpc = "read" /\ head = tail)
    BY <2>1
  <2>2. ASSUME cpc = "read"
        PROVE  head \notin unseen
    BY <2>2
  <2>3. QED
    BY <2>1, <2>2 DEF NoDataRace
<1>2. QED
  BY <1>1, Invariance, PTL

\* size_approx errs on the safe side for the thread that asks.
THEOREM SizeApproxIsSafeHolds == Spec => []SizeApproxIsSafe
<1>1. IInv => SizeApproxIsSafe
  <2> SUFFICES ASSUME IInv PROVE SizeApproxIsSafe
    OBVIOUS
  <2>1. /\ head \in Slots /\ tail \in Slots /\ pHead \in Slots /\ cTail \in Slots
    BY DEF IInv, TypeOK
  <2>2. /\ size_approx(pHead, tail) = IF tail >= pHead THEN tail - pHead ELSE tail - pHead + N
        /\ size_approx(head, tail) = IF tail >= head THEN tail - head ELSE tail - head + N
        /\ size_approx(head, cTail) = IF cTail >= head THEN cTail - head ELSE cTail - head + N
    BY <2>1, SizeApproxIsDistance
  <2>3. Ahead(head) <= Ahead(cTail) /\ Ahead(cTail) <= Ahead(tail)
    BY DEF IInv, Order
  <2>4. QED
    BY <2>1, <2>2, <2>3, SizeAssumption DEF SizeApproxIsSafe, capacity, Ahead, Slots
<1>2. QED
  BY <1>1, Invariance, PTL

-----------------------------------------------------------------------------
(* The implementation of BoundedFifo. *)

\* The slot k - 1 places after f.
Slot(f, k) == (f + k - 1) % N

LEMMA SlotWraps ==
  ASSUME NEW f \in Slots, NEW k \in 1 .. N
  PROVE  /\ Slot(f, k) = IF f + k - 1 < N THEN f + k - 1 ELSE f + k - 1 - N
         /\ Slot(f, k) \in Slots
<1>1. CASE f + k - 1 < N
  <2>1. f + k - 1 \in 0 .. N - 1
    BY <1>1, SizeAssumption DEF Slots
  <2>2. (f + k - 1) % N = f + k - 1
    BY <2>1, SizeAssumption
  <2>3. QED
    BY <1>1, <2>1, <2>2 DEF Slot, Slots
<1>2. CASE ~(f + k - 1 < N)
  <2>1. f + k - 1 - N \in 0 .. N - 1
    BY <1>2, SizeAssumption DEF Slots
  <2>2. (f + k - 1) % N = f + k - 1 - N
    BY <2>1, <1>2, SizeAssumption DEF Slots
  <2>3. QED
    BY <1>2, <2>1, <2>2 DEF Slot, Slots
<1>3. QED
  BY <1>1, <1>2

\* The pushed value waits in the slot at tail until it is published.
PushedValue ==
  /\ ppc # "idle" => pval \in Values
  /\ ppc = "publish" => buf[tail] = pval

RInv == IInv /\ PushedValue

LEMMA RInvInvariant == Spec => []RInv
<1>1. Init => RInv
  BY InitEstablishesIInv DEF Init, RInv, PushedValue
<1>2. RInv /\ [Next]_vars => RInv'
  <2> SUFFICES ASSUME RInv, [Next]_vars PROVE PushedValue'
    BY IInvStep DEF RInv
  <2>0. /\ IInv /\ TypeOK /\ PushedValue
        /\ tail \in Slots /\ head \in Slots /\ buf \in [Slots -> Objects]
        /\ ppc \in {"idle", "write", "publish"}
    BY DEF RInv, IInv, TypeOK
  <2> USE DEF PushedValue, indices, producer, consumer
  <2>1. ASSUME NEW v \in Values, PushBegin(v) PROVE PushedValue'
    BY <2>1 DEF PushBegin
  <2>2. CASE WriteSlot
    BY <2>0, <2>2 DEF WriteSlot
  <2>3. CASE PublishTail
    BY <2>3 DEF PublishTail
  <2>4. CASE PopBegin
    BY <2>0, <2>4 DEF PopBegin
  <2>5. CASE ReadSlot
    <3>1. head # tail
      BY <2>0, <2>5, SizeAssumption DEF IInv, TypeOK, Order, Stock, Ahead, Slots, ReadSlot
    <3>2. QED
      BY <2>0, <2>5, <3>1 DEF ReadSlot
  <2>6. CASE AdvanceHead
    BY <2>0, <2>6 DEF AdvanceHead
  <2>7. CASE AcquireTail
    BY <2>0, <2>7 DEF AcquireTail
  <2>8. CASE AcquireHead
    BY <2>0, <2>8 DEF AcquireHead
  <2>9. CASE UNCHANGED vars
    BY <2>0, <2>9 DEF vars
  <2>10. QED
    BY <2>1, <2>2, <2>3, <2>4, <2>5, <2>6, <2>7, <2>8, <2>9 DEF Next, Push, Pop
<1>3. QED
  BY <1>1, <1>2, PTL DEF Spec

\* The number of values in the queue.
Count == size_approx(First, tail)

\* Where the queue lies: it has no more than N - 1 values, none of them in the
\* slot at tail, and the first of them is in the slot at head.
LEMMA QueueShape ==
  ASSUME IInv
  PROVE  /\ First \in Slots /\ Count \in 0 .. N - 1
         /\ First = IF cpc = "advance" THEN IF head = N - 1 THEN 0 ELSE head + 1 ELSE head
         /\ Count = IF tail >= First THEN tail - First ELSE tail - First + N
         /\ \A k \in 1 .. Count : Slot(First, k) \in Slots /\ Slot(First, k) # tail
         /\ Slot(First, Count + 1) = tail
         /\ cpc = "read" => Count >= 1
<1>1. /\ head \in Slots /\ tail \in Slots /\ pHead \in Slots /\ cTail \in Slots
      /\ N \in Nat /\ N >= 2
  BY SizeAssumption DEF IInv, TypeOK
<1>2. /\ First = IF cpc = "advance" THEN IF head = N - 1 THEN 0 ELSE head + 1 ELSE head
      /\ First \in Slots
  BY <1>1, SuccWraps DEF First
<1>3. Count = IF tail >= First THEN tail - First ELSE tail - First + N
  BY <1>1, <1>2, SizeApproxIsDistance DEF Count
<1>4. Count \in 0 .. N - 1
  BY <1>1, <1>2, <1>3 DEF Slots
<1>5. ASSUME NEW k \in 1 .. Count
      PROVE  Slot(First, k) \in Slots /\ Slot(First, k) # tail
  <2>1. k \in 1 .. N
    BY <1>1, <1>4
  <2>2. /\ Slot(First, k) = IF First + k - 1 < N THEN First + k - 1 ELSE First + k - 1 - N
        /\ Slot(First, k) \in Slots
    BY <1>2, <2>1, SlotWraps
  <2>3. QED
    BY <1>1, <1>2, <1>3, <1>4, <2>2 DEF Slots
<1>6. Slot(First, Count + 1) = tail
  <2>1. Count + 1 \in 1 .. N
    BY <1>1, <1>4
  <2>2. Slot(First, Count + 1) = IF First + Count < N THEN First + Count ELSE First + Count - N
    BY <1>1, <1>2, <1>4, <2>1, SlotWraps
  <2>3. QED
    BY <1>1, <1>2, <1>3, <1>4, <2>2 DEF Slots
<1>7. cpc = "read" => Count >= 1
  BY <1>1, <1>2, <1>3 DEF IInv, TypeOK, Order, Stock, Ahead, Slots
<1>8. QED
  BY <1>2, <1>3, <1>4, <1>5, <1>6, <1>7

LEMMA QueuedIs == Queued = [k \in 1 .. Count |-> buf[Slot(First, k)]]
BY DEF Queued, Count, Slot

\* A step that moves neither end of the queue and writes no slot but the one
\* at tail leaves the queue as it is.
LEMMA QueueUntouched ==
  ASSUME IInv, First' = First, tail' = tail,
         \A i \in Slots : i # tail => buf'[i] = buf[i]
  PROVE  Queued' = Queued
<1>1. Count' = Count
  BY DEF Count, size_approx
<1>2. \A k \in 1 .. Count : buf'[Slot(First, k)] = buf[Slot(First, k)]
  BY QueueShape
<1>3. Queued' = [k \in 1 .. Count' |-> buf'[Slot(First', k)]]
  BY DEF Queued, Count, Slot
<1>4. QED
  BY <1>1, <1>2, <1>3, QueuedIs

\* Publishing a value appends it to the queue, which had room for it.
LEMMA PublishEnqueues ==
  ASSUME RInv, PublishTail
  PROVE  Fifo!Enqueue(pval)
<1>1. /\ tail \in Slots /\ First \in Slots /\ First' = First /\ out' = out
      /\ tail' = (IF tail = N - 1 THEN 0 ELSE tail + 1) /\ tail' \in Slots
      /\ pval \in Values /\ buf[tail] = pval /\ buf' = buf
  BY QueueShape, SuccWraps
     DEF RInv, PushedValue, IInv, TypeOK, PublishTail, First, consumer
<1>2. /\ Count \in 0 .. N - 1
      /\ Count = IF tail >= First THEN tail - First ELSE tail - First + N
      /\ Slot(First, Count + 1) = tail
  BY QueueShape DEF RInv
<1>3. Count' = IF tail' >= First THEN tail' - First ELSE tail' - First + N
  BY <1>1, SizeApproxIsDistance DEF Count
<1>4. Count < N - 1
  <2>1. /\ head \in Slots /\ pHead \in Slots /\ cTail \in Slots
        /\ Ahead(tail) < N - 1 /\ Ahead(head) <= Ahead(tail)
        /\ cpc = "advance" => head # tail
    BY SizeAssumption
       DEF RInv, IInv, TypeOK, Order, Room, Stock, PublishTail, Ahead, Slots
  <2>2. First = IF cpc = "advance" THEN IF head = N - 1 THEN 0 ELSE head + 1 ELSE head
    BY QueueShape DEF RInv
  <2>3. QED
    BY <1>1, <1>2, <2>1, <2>2, SizeAssumption DEF Ahead, Slots
<1>5. Count' = Count + 1
  BY <1>1, <1>2, <1>3, <1>4, SizeAssumption DEF Slots
<1>6. Queued' = [k \in 1 .. Count + 1 |-> buf[Slot(First, k)]]
  <2>1. Queued' = [k \in 1 .. Count' |-> buf'[Slot(First', k)]]
    BY DEF Queued, Count, Slot
  <2>2. QED
    BY <1>1, <1>5, <2>1
<1>7. Queued \in Seq(Objects) /\ Len(Queued) = Count
  <2>1. \A k \in 1 .. Count : buf[Slot(First, k)] \in Objects
    BY QueueShape DEF RInv, IInv, TypeOK
  <2>2. QED
    BY <1>2, <2>1, QueuedIs, SizeAssumption
<1>8. Queued' = Append(Queued, pval)
  <2>1. \A k \in 1 .. Count : Queued[k] = buf[Slot(First, k)]
    BY QueuedIs
  <2>2. /\ Queued' \in Seq(Objects) /\ Len(Queued') = Count + 1
        /\ \A k \in 1 .. Count + 1 : Queued'[k] = buf[Slot(First, k)]
    <3>1. \A k \in 1 .. Count + 1 : buf[Slot(First, k)] \in Objects
      <4>1. \A k \in 1 .. Count + 1 : Slot(First, k) \in Slots
        <5> TAKE k \in 1 .. Count + 1
        <5>1. k \in 1 .. Count \/ k = Count + 1
          BY <1>2, SizeAssumption
        <5>2. QED
          BY <1>1, <1>2, <5>1, QueueShape DEF RInv
      <4>2. QED
        BY <4>1 DEF RInv, IInv, TypeOK
    <3>2. QED
      BY <1>2, <1>6, <3>1, SizeAssumption
  <2>3. /\ Append(Queued, pval) \in Seq(Objects)
        /\ Len(Append(Queued, pval)) = Count + 1
        /\ \A k \in 1 .. Count : Append(Queued, pval)[k] = Queued[k]
        /\ Append(Queued, pval)[Count + 1] = pval
    BY <1>1, <1>7, AppendProperties DEF Objects
  <2>4. \A k \in 1 .. Count + 1 : Queued'[k] = Append(Queued, pval)[k]
    <3> TAKE k \in 1 .. Count + 1
    <3>1. k \in 1 .. Count \/ k = Count + 1
      BY <1>2, SizeAssumption
    <3>2. QED
      BY <1>1, <1>2, <2>1, <2>2, <2>3, <3>1
  <2>5. QED
    BY <2>2, <2>3, <2>4, SeqEqual
<1>9. QED
  BY <1>1, <1>4, <1>7, <1>8 DEF Fifo!Enqueue, capacity

\* Moving out of the slot at head takes the first value of the queue.
LEMMA ReadDequeues ==
  ASSUME RInv, ReadSlot
  PROVE  Fifo!Dequeue
<1>1. /\ head \in Slots /\ tail \in Slots /\ cpc = "read" /\ cpc' = "advance"
      /\ head' = head /\ tail' = tail /\ buf \in [Slots -> Objects]
      /\ buf' = [buf EXCEPT ![head] = Junk]
      /\ N \in Nat /\ N >= 2
  BY SizeAssumption DEF RInv, IInv, TypeOK, ReadSlot, indices
<1>2. /\ First = head /\ First' = IF head = N - 1 THEN 0 ELSE head + 1
      /\ First' \in Slots
  BY <1>1, SuccWraps DEF First
<1>3. /\ Count \in 1 .. N - 1
      /\ Count = IF tail >= head THEN tail - head ELSE tail - head + N
  BY <1>1, <1>2, QueueShape DEF RInv
<1>4. Count' = Count - 1
  <2>1. Count' = IF tail >= First' THEN tail - First' ELSE tail - First' + N
    BY <1>1, <1>2, SizeApproxIsDistance DEF Count
  <2>2. QED
    BY <1>1, <1>2, <1>3, <2>1 DEF Slots
<1>5. \A k \in 1 .. Count - 1 : /\ Slot(First', k) = Slot(First, k + 1)
                               /\ Slot(First', k) # head
                               /\ Slot(First', k) \in Slots
  <2> TAKE k \in 1 .. Count - 1
  <2>1. k \in 1 .. N /\ k + 1 \in 1 .. N
    BY <1>1, <1>3
  <2>2. /\ Slot(First', k) = IF First' + k - 1 < N THEN First' + k - 1 ELSE First' + k - 1 - N
        /\ Slot(First', k) \in Slots
    BY <1>2, <2>1, SlotWraps
  <2>3. Slot(First, k + 1) = IF head + k < N THEN head + k ELSE head + k - N
    BY <1>1, <1>2, <2>1, SlotWraps
  <2>4. QED
    BY <1>1, <1>2, <1>3, <2>1, <2>2, <2>3 DEF Slots
<1>6. Queued' = [k \in 1 .. Count - 1 |-> buf[Slot(First, k + 1)]]
  <2>1. Queued' = [k \in 1 .. Count' |-> buf'[Slot(First', k)]]
    BY DEF Queued, Count, Slot
  <2>2. \A k \in 1 .. Count - 1 : buf'[Slot(First', k)] = buf[Slot(First, k + 1)]
    BY <1>1, <1>5
  <2>3. QED
    BY <1>4, <2>1, <2>2
<1>7. Queued \in Seq(Objects) /\ Len(Queued) = Count
  <2>1. \A k \in 1 .. Count : buf[Slot(First, k)] \in Objects
    BY <1>1, QueueShape DEF RInv
  <2>2. QED
    BY <1>3, <2>1, QueuedIs, SizeAssumption
<1>8. \A k \in 1 .. Count : Queued[k] = buf[Slot(First, k)]
  BY QueuedIs
<1>9. out' = Head(Queued)
  <2>1. head \notin unseen
    BY <1>1, SizeAssumption
       DEF RInv, IInv, TypeOK, Order, Stock, HiddenWrites, Ahead, Slots
  <2>2. out' = buf[head]
    BY <2>1 DEF ReadSlot
  <2>3. Slot(First, 1) = head
    BY <1>1, <1>2, SlotWraps DEF Slots
  <2>4. QED
    BY <1>3, <1>7, <1>8, <2>2, <2>3
<1>10. Queued # <<>>
  BY <1>3, <1>7
<1>11. Queued' = Tail(Queued)
  <2>1. /\ Tail(Queued) \in Seq(Objects) /\ Len(Tail(Queued)) = Count - 1
        /\ \A k \in 1 .. Count - 1 : Tail(Queued)[k] = Queued[k + 1]
    BY <1>7, <1>10, HeadTailProperties
  <2>2. /\ Queued' \in Seq(Objects) /\ Len(Queued') = Count - 1
        /\ \A k \in 1 .. Count - 1 : Queued'[k] = buf[Slot(First, k + 1)]
    <3>1. \A k \in 1 .. Count - 1 : buf[Slot(First, k + 1)] \in Objects
      BY <1>1, <1>3, QueueShape DEF RInv
    <3>2. QED
      BY <1>3, <1>6, <3>1, SizeAssumption
  <2>3. \A k \in 1 .. Count - 1 : Queued'[k] = Tail(Queued)[k]
    BY <1>3, <1>8, <2>1, <2>2
  <2>4. QED
    BY <2>1, <2>2, <2>3, SeqEqual
<1>12. QED
  BY <1>9, <1>10, <1>11 DEF Fifo!Dequeue

\* Every step of the buffer is a step of the queue or leaves it alone.
LEMMA StepRefines == RInv /\ [Next]_vars => [Fifo!Next]_(Fifo!vars)
<1> SUFFICES ASSUME RInv, [Next]_vars
             PROVE  Fifo!Next \/ UNCHANGED <<Queued, out>>
  BY DEF Fifo!vars
<1>0. IInv /\ head \in Slots /\ tail \in Slots /\ buf \in [Slots -> Objects]
  BY DEF RInv, IInv, TypeOK
<1> USE DEF indices, producer, consumer
<1>1. ASSUME NEW v \in Values, PushBegin(v)
      PROVE  UNCHANGED <<Queued, out>>
  BY <1>0, <1>1, QueueUntouched DEF PushBegin, First
<1>2. CASE WriteSlot
  BY <1>0, <1>2, QueueUntouched DEF WriteSlot, First
<1>3. CASE PublishTail
  <2>1. pval \in Values
    BY <1>3 DEF PublishTail, RInv, PushedValue
  <2>2. QED
    BY <1>3, <2>1, PublishEnqueues DEF Fifo!Next
<1>4. CASE PopBegin
  BY <1>0, <1>4, QueueUntouched DEF PopBegin, First
<1>5. CASE ReadSlot
  BY <1>5, ReadDequeues DEF Fifo!Next
<1>6. CASE AdvanceHead
  BY <1>0, <1>6, QueueUntouched DEF AdvanceHead, First
<1>7. CASE AcquireTail
  BY <1>0, <1>7, QueueUntouched DEF AcquireTail, First
<1>8. CASE AcquireHead
  BY <1>0, <1>8, QueueUntouched DEF AcquireHead, First
<1>9. CASE UNCHANGED vars
  BY <1>0, <1>9, QueueUntouched DEF vars, First
<1>10. QED
  BY <1>1, <1>2, <1>3, <1>4, <1>5, <1>6, <1>7, <1>8, <1>9 DEF Next, Push, Pop

\* The lock-free ring buffer implements a bounded FIFO queue of N - 1 values.
THEOREM ImplementsFifo == Spec => RefinesFifo
<1>1. Init => Fifo!Init
  <2> SUFFICES ASSUME Init PROVE Queued = <<>>
    BY DEF Init, Fifo!Init
  <2>1. Count = 0
    BY InitEstablishesIInv, QueueShape DEF Init
  <2>2. QED
    BY <2>1, QueuedIs
<1>2. QED
  BY <1>1, StepRefines, RInvInvariant, PTL DEF Spec, RefinesFifo, Fifo!Spec
==============================================================================

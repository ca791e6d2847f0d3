------------------------ MODULE LedgerRefinement_proofs ------------------------
(***************************************************************************)
(* What LedgerEngine promises to those outside it, for every value of the  *)
(* constants.                                                              *)
(*                                                                         *)
(* Replies.  KeyCommitsOnce and RepliesAreTruthful are not inductive: that *)
(* a key commits once rests on the cache holding every key of the log but  *)
(* the one being committed, and a cached reply is only worth repeating     *)
(* because a frame stands behind it.                                       *)
(*                                                                         *)
(* Balances.  A snapshot taken under the mutex never shows half of a       *)
(* transfer, and the ledger engine, with its threads and queues,           *)
(* implements the atomic ledger: a transfer takes effect when its frame is *)
(* appended; from then until the credit the mapping counts in what the     *)
(* consumer thread has yet to do.                                          *)
(***************************************************************************)
EXTENDS LedgerEngine_proofs, DataInduction

-----------------------------------------------------------------------------
(* Replies *)

\* The request in flight has a frame, or certainly has none.
Committing == epc \in {"debit", "credit"} \/ (epc = "reply" /\ status = "OK")
Uncommitted ==
  epc \in {"replay", "validate", "log"} \/ (epc = "reply" /\ status # "OK")

\* A frame holds a request that was popped, as it was sent.
FramesWereSent ==
  \A i \in LiveFrames : /\ wal[i].req.corr \in 1 .. req.corr
                        /\ wal[i].req = sent[wal[i].req.corr]

\* The frame of the request in flight.
FrameInFlight ==
  /\ Uncommitted => \A i \in LiveFrames : wal[i].req.corr # req.corr
  /\ Committing => /\ Len(wal) \in LiveFrames
                   /\ wal[Len(wal)].tx = tx_id /\ wal[Len(wal)].req = req
  /\ epc \in {"log", "debit", "credit"} => status = "OK"

\* Every key of the log is cached, but for the one being committed.
KeysAreCached ==
  \A i \in LiveFrames :
    \/ wal[i].req.key \in DOMAIN cache \cup {NoKey}
    \/ Committing /\ i = Len(wal)

\* A cached success has its frame.
CacheIsTruthful ==
  \A k \in DOMAIN cache :
    cache[k].status = "OK" =>
      \E i \in LiveFrames : wal[i].tx = cache[k].tx /\ wal[i].req.key = k

DInv == /\ FramesWereSent /\ FrameInFlight /\ KeysAreCached /\ CacheIsTruthful
        /\ KeyCommitsOnce /\ RepliesAreTruthful

LEMMA InitDelivery == Init => DInv
<1> SUFFICES ASSUME Init
             PROVE  DInv
  OBVIOUS
<1>1. LiveFrames = {} /\ DOMAIN cache = {} /\ 1 .. Len(replies) = {} /\ epc = "top"
  BY DEF Init, LiveFrames
<1>2. QED
  BY <1>1
     DEF DInv, FramesWereSent, FrameInFlight, KeysAreCached, CacheIsTruthful,
         KeyCommitsOnce, RepliesAreTruthful, Committing, Uncommitted

\* A step that leaves the log, the cache, the requests and the replies alone
\* preserves the invariant if the request in flight keeps its frame.
LEMMA QuietStep ==
  ASSUME DInv, UNCHANGED <<wal, replayed, cache, sent, replies, req>>,
         Committing' = Committing, Uncommitted' => Uncommitted,
         Committing => tx_id' = tx_id,
         epc' \in {"log", "debit", "credit"} => status' = "OK"
  PROVE  DInv'
<1>1. LiveFrames' = LiveFrames
  BY DEF LiveFrames
<1>2. FramesWereSent'
  BY <1>1 DEF DInv, FramesWereSent
<1>3. FrameInFlight'
  BY <1>1 DEF DInv, FrameInFlight
<1>4. KeysAreCached'
  BY <1>1 DEF DInv, KeysAreCached
<1>5. CacheIsTruthful'
  BY <1>1 DEF DInv, CacheIsTruthful
<1>6. KeyCommitsOnce'
  BY <1>1 DEF DInv, KeyCommitsOnce
<1>7. RepliesAreTruthful'
  BY <1>1 DEF DInv, RepliesAreTruthful, Truthful, CommittedBy
<1>8. QED
  BY <1>2, <1>3, <1>4, <1>5, <1>6, <1>7 DEF DInv

\* The correlation ids the steps below compare.
LEMMA ReplyIds ==
  ASSUME TInv, QInv
  PROVE  \A k \in 1 .. Len(replies) :
           /\ replies[k] \in Response
           /\ replies[k].corr \in 1 .. Popped
           /\ replies[k].corr \in 1 .. Len(sent)
<1> SUFFICES ASSUME NEW k \in 1 .. Len(replies)
             PROVE  /\ replies[k] \in Response
                    /\ replies[k].corr \in 1 .. Popped
                    /\ replies[k].corr \in 1 .. Len(sent)
  OBVIOUS
<1>1. replies[k].corr \in 1 .. Popped
  BY DEF QInv, Once, Answered
<1>2. Popped \in Int /\ Popped <= Len(sent) /\ Len(sent) \in Nat
  BY QueueTypes DEF Popped
<1>3. QED
  BY <1>1, <1>2, QueueTypes

\* Appending the frame of the request in flight.
LEMMA LogStep ==
  ASSUME TInv, QInv, DInv, Log
  PROVE  DInv'
<1> DEFINE f == [tx |-> uuid_counter, req |-> req]
           n == Len(wal) + 1
<1>1. /\ f \in Frame /\ wal' = Append(wal, f) /\ replayed' = replayed
      /\ Len(wal) \in Nat /\ wal \in Seq(Frame)
  BY LenProperties DEF Log, TInv, TypeOK, Control, InFlight, Frame
<1>2. /\ LiveFrames' = LiveFrames \cup {n}
      /\ \A i \in LiveFrames : wal'[i] = wal[i]
      /\ wal'[n] = f
  BY <1>1, AppendFrame
<1>3. f.tx = uuid_counter /\ f.req = req
  OBVIOUS
<1>4. Len(wal') = n
  BY <1>1, AppendProperties
<1> HIDE DEF f
<1>5. /\ tx_id' = uuid_counter /\ epc = "log" /\ epc' = "debit"
      /\ UNCHANGED <<cache, sent, replies, req, status>>
  BY DEF Log, history
<1>6. /\ req.corr \in 1 .. Len(sent) /\ req = sent[req.corr]
      /\ req.key \notin DOMAIN cache
  <2>1. InFlight
    BY <1>5 DEF InFlight
  <2>2. QED
    BY <1>5, <2>1, QueueTypes DEF QInv, Queue, TInv, Control
<1>7. status = "OK" /\ ~Committing /\ Committing' /\ Uncommitted /\ ~Uncommitted'
  BY <1>5 DEF DInv, FrameInFlight, Committing, Uncommitted
<1>8. FramesWereSent'
  <2>1. \A i \in LiveFrames : /\ wal'[i].req.corr \in 1 .. req'.corr
                              /\ wal'[i].req = sent'[wal'[i].req.corr]
    BY <1>2, <1>5 DEF DInv, FramesWereSent
  <2>2. wal'[n].req.corr \in 1 .. req'.corr /\ wal'[n].req = sent'[wal'[n].req.corr]
    BY <1>2, <1>3, <1>5, <1>6
  <2>3. QED
    BY <1>2, <2>1, <2>2 DEF FramesWereSent
<1>9. FrameInFlight'
  <2>1. n \in LiveFrames'
    BY <1>2
  <2>2. wal'[Len(wal')].tx = tx_id' /\ wal'[Len(wal')].req = req'
    BY <1>2, <1>3, <1>4, <1>5
  <2>3. QED
    BY <1>4, <1>5, <1>7, <2>1, <2>2 DEF FrameInFlight
<1>10. KeysAreCached'
  BY <1>2, <1>4, <1>5, <1>7 DEF DInv, KeysAreCached
<1>11. CacheIsTruthful'
  BY <1>2, <1>5 DEF DInv, CacheIsTruthful
<1>12. KeyCommitsOnce'
  <2>1. \A i \in LiveFrames : wal[i].req.key \in DOMAIN cache \cup {NoKey}
    BY <1>7 DEF DInv, KeysAreCached
  <2>2. \A i \in LiveFrames : wal'[i].req.key # NoKey => wal'[i].req.key # wal'[n].req.key
    BY <1>2, <1>3, <1>6, <2>1
  <2>3. \A i, j \in LiveFrames :
          wal'[i].req.key = wal'[j].req.key /\ wal'[i].req.key # NoKey => i = j
    BY <1>2 DEF DInv, KeyCommitsOnce
  <2>4. QED
    BY <1>2, <2>2, <2>3 DEF KeyCommitsOnce
<1>13. RepliesAreTruthful'
  <2> SUFFICES ASSUME NEW k \in 1 .. Len(replies)
               PROVE  Truthful(replies[k])'
    BY <1>5 DEF RepliesAreTruthful
  <2>1. Truthful(replies[k])
    BY DEF DInv, RepliesAreTruthful
  <2>2. CASE replies[k].status = "OK"
    BY <1>2, <1>5, <2>1, <2>2 DEF Truthful, CommittedBy
  <2>3. CASE replies[k].status # "OK"
    <3>1. replies[k].corr # req.corr
      <4>1. Popped = req.corr - 1 /\ req.corr \in Nat
        BY <1>5, QueueTypes DEF Popped, InFlight
      <4>2. QED
        BY <4>1, ReplyIds
    <3>2. \A i \in LiveFrames' : wal'[i].req.corr # replies[k].corr
      BY <1>2, <1>3, <2>1, <2>3, <3>1 DEF Truthful
    <3>3. QED
      BY <1>5, <2>3, <3>2 DEF Truthful
  <2>4. QED
    BY <2>2, <2>3
<1>14. QED
  BY <1>8, <1>9, <1>10, <1>11, <1>12, <1>13 DEF DInv

\* Pushing a truthful reply to the request in flight.
LEMMA PushTruthful ==
  ASSUME TInv, DInv, NEW reply \in Response, PushReply(reply), Truthful(reply),
         UNCHANGED <<wal, replayed, sent>>
  PROVE  RepliesAreTruthful'
<1>1. LiveFrames' = LiveFrames
  BY DEF LiveFrames
<1>2. \A k \in 1 .. Len(replies) : Truthful(replies[k])
  BY DEF DInv, RepliesAreTruthful
<1>3. replies \in Seq(Response) /\ Len(replies) \in Nat
  BY LenProperties DEF TInv, TypeOK
<1>4. CASE replies' = replies
  BY <1>1, <1>2, <1>4 DEF RepliesAreTruthful, Truthful, CommittedBy
<1>5. CASE replies' = Append(replies, reply)
  <2>1. /\ Len(replies') = Len(replies) + 1
        /\ \A k \in 1 .. Len(replies) : replies'[k] = replies[k]
        /\ replies'[Len(replies) + 1] = reply
    BY <1>3, <1>5, AppendProperties
  <2>2. \A k \in 1 .. Len(replies') : k \in 1 .. Len(replies) \/ k = Len(replies) + 1
    BY <1>3, <2>1
  <2>3. QED
    BY <1>1, <1>2, <2>1, <2>2 DEF RepliesAreTruthful, Truthful, CommittedBy
<1>6. QED
  BY <1>4, <1>5 DEF PushReply

\* Answering from the cache.
LEMMA ReplayStep ==
  ASSUME TInv, QInv, DInv, ReplyFromCache
  PROVE  DInv'
<1> DEFINE reply == [cache[req.key] EXCEPT !.corr = req.corr]
<1>1. /\ epc = "replay" /\ epc' = "top" /\ InFlight
      /\ UNCHANGED <<wal, replayed, cache, sent, req>>
  BY DEF ReplyFromCache, InFlight, ledger
<1>2. /\ req \in TransactionRequest /\ req.key \in DOMAIN cache
      /\ cache[req.key] \in Response /\ NoKey \notin DOMAIN cache
  BY <1>1, KeyAssumption DEF TInv, TypeOK, Control
<1>3. /\ reply \in Response /\ reply.corr = req.corr
      /\ reply.tx = cache[req.key].tx /\ reply.status = cache[req.key].status
  BY <1>2 DEF Response, TransactionRequest
<1>4. req = sent[req.corr]
  BY <1>1, QueueTypes DEF QInv, Queue
<1> HIDE DEF reply
<1>5. Truthful(reply)
  <2>1. CASE reply.status = "OK"
    <3>1. PICK i \in LiveFrames : wal[i].tx = reply.tx /\ wal[i].req.key = req.key
      BY <1>2, <1>3, <2>1 DEF DInv, CacheIsTruthful
    <3>2. CommittedBy(i, reply)
      BY <1>2, <1>3, <1>4, <3>1 DEF CommittedBy
    <3>3. QED
      BY <2>1, <3>2 DEF Truthful
  <2>2. CASE reply.status # "OK"
    BY <1>1, <1>3, <2>2 DEF DInv, FrameInFlight, Uncommitted, Truthful
  <2>3. QED
    BY <2>1, <2>2
<1>6. RepliesAreTruthful'
  BY <1>1, <1>3, <1>5, PushTruthful DEF ReplyFromCache, reply
<1>7. LiveFrames' = LiveFrames /\ ~Committing /\ ~Committing' /\ ~Uncommitted'
  BY <1>1 DEF LiveFrames, Committing, Uncommitted
<1>8. FramesWereSent' /\ FrameInFlight'
  BY <1>1, <1>7 DEF DInv, FramesWereSent, FrameInFlight
<1>9. KeysAreCached' /\ CacheIsTruthful' /\ KeyCommitsOnce'
  BY <1>1, <1>7 DEF DInv, KeysAreCached, CacheIsTruthful, KeyCommitsOnce
<1>10. QED
  BY <1>6, <1>8, <1>9 DEF DInv

\* Answering the request in flight and caching the answer.
LEMMA ReplyStep ==
  ASSUME TInv, QInv, DInv, Reply
  PROVE  DInv'
<1> DEFINE resp == [corr |-> req.corr, tx |-> tx_id, status |-> status]
<1>1. /\ epc = "reply" /\ epc' = "count" /\ InFlight
      /\ UNCHANGED <<wal, replayed, sent, req, status, tx_id>>
  BY DEF Reply, InFlight
<1>2. /\ req \in TransactionRequest /\ req.key \notin DOMAIN cache
      /\ NoKey \notin DOMAIN cache
  BY <1>1, KeyAssumption DEF TInv, TypeOK, Control
<1>3. /\ resp \in Response /\ resp.corr = req.corr
      /\ resp.tx = tx_id /\ resp.status = status
  BY <1>2 DEF Response, TransactionRequest, TInv, TypeOK
<1>4. req = sent[req.corr]
  BY <1>1, QueueTypes DEF QInv, Queue
<1>5. /\ req.key = NoKey => cache' = cache
      /\ req.key # NoKey => /\ DOMAIN cache' = DOMAIN cache \cup {req.key}
                            /\ cache'[req.key] = resp
                            /\ \A k \in DOMAIN cache : cache'[k] = cache[k]
  BY <1>2 DEF Reply
<1>6. PushReply(resp)
  BY DEF Reply
<1> HIDE DEF resp
<1>7. /\ LiveFrames' = LiveFrames /\ ~Committing' /\ ~Uncommitted'
      /\ \A i \in LiveFrames : wal'[i] = wal[i]
  BY <1>1 DEF LiveFrames, Committing, Uncommitted
<1>8. status = "OK" => /\ Committing /\ Len(wal) \in LiveFrames
                       /\ wal[Len(wal)].tx = tx_id /\ wal[Len(wal)].req = req
  BY <1>1 DEF DInv, FrameInFlight, Committing
<1>9. status # "OK" => ~Committing /\ \A i \in LiveFrames : wal[i].req.corr # req.corr
  BY <1>1 DEF DInv, FrameInFlight, Committing, Uncommitted
<1>10. Truthful(resp)
  BY <1>3, <1>4, <1>8, <1>9 DEF Truthful, CommittedBy
<1>11. RepliesAreTruthful'
  BY <1>1, <1>3, <1>6, <1>10, PushTruthful
<1>12. FramesWereSent' /\ FrameInFlight'
  BY <1>1, <1>7 DEF DInv, FramesWereSent, FrameInFlight
<1>13. KeyCommitsOnce'
  BY <1>1, <1>7 DEF DInv, KeyCommitsOnce
<1>14. KeysAreCached'
  <2> SUFFICES ASSUME NEW i \in LiveFrames
               PROVE  wal[i].req.key \in DOMAIN cache' \cup {NoKey}
    BY <1>7 DEF KeysAreCached
  <2>1. CASE wal[i].req.key \in DOMAIN cache \cup {NoKey}
    BY <1>5, <2>1
  <2>2. CASE Committing /\ i = Len(wal)
    <3>1. wal[i].req.key = req.key
      BY <1>8, <1>9, <2>2
    <3>2. QED
      BY <1>5, <3>1
  <2>3. QED
    BY <2>1, <2>2 DEF DInv, KeysAreCached
<1>15. CacheIsTruthful'
  <2> SUFFICES ASSUME NEW k \in DOMAIN cache', cache'[k].status = "OK"
               PROVE  \E i \in LiveFrames : wal[i].tx = cache'[k].tx /\ wal[i].req.key = k
    BY <1>7 DEF CacheIsTruthful
  <2>1. CASE k \in DOMAIN cache
    BY <1>5, <2>1 DEF DInv, CacheIsTruthful
  <2>2. CASE k \notin DOMAIN cache
    BY <1>3, <1>5, <1>8, <2>2
  <2>3. QED
    BY <2>1, <2>2
<1>16. QED
  BY <1>11, <1>12, <1>13, <1>14, <1>15 DEF DInv

\* Popping a request: no frame has its correlation id yet.
LEMMA PopRequestStep ==
  ASSUME TInv, QInv, DInv, PopRequest, requests # <<>>
  PROVE  DInv'
<1>1. /\ epc = "pop" /\ epc' \in {"replay", "validate"}
      /\ UNCHANGED <<wal, replayed, cache, sent, replies>>
  BY DEF PopRequest, ledger, history
<1>2. req'.corr = req.corr + 1 /\ req.corr \in Nat
  <2>1. QInv'
    BY PopStep
  <2>2. Len(requests') = Len(requests) - 1 /\ Len(requests) \in Nat
    <3>1. requests \in Seq(TransactionRequest) /\ requests' = Tail(requests)
      BY DEF TInv, TypeOK, PopRequest
    <3>2. QED
      BY <3>1, HeadTailProperties, LenProperties
  <2>3. Len(sent) = req'.corr + Len(requests') /\ Len(sent) = req.corr + Len(requests)
    BY <1>1, <2>1 DEF QInv, Queue
  <2>4. req.corr \in Nat /\ req' \in TransactionRequest
    <3>1. requests \in Seq(TransactionRequest) /\ req' = Head(requests)
      BY DEF TInv, TypeOK, PopRequest
    <3>2. QED
      BY <3>1, HeadTailProperties, QueueTypes
  <2>5. req'.corr \in Nat
    BY <2>4, BoundAssumption DEF TransactionRequest
  <2>6. QED
    BY <2>2, <2>3, <2>4, <2>5
<1>3. LiveFrames' = LiveFrames /\ ~Committing /\ ~Committing'
  BY <1>1 DEF LiveFrames, Committing
<1>4. \A i \in LiveFrames : wal[i].req.corr \in 1 .. req.corr
  BY DEF DInv, FramesWereSent
<1>5. FramesWereSent'
  <2>1. \A i \in LiveFrames : wal[i].req = sent[wal[i].req.corr]
    BY DEF DInv, FramesWereSent
  <2>2. \A c \in 1 .. req.corr : c \in 1 .. req'.corr
    BY <1>2
  <2>3. QED
    BY <1>1, <1>3, <1>4, <2>1, <2>2 DEF FramesWereSent
<1>6. FrameInFlight'
  <2>1. req'.corr \notin 1 .. req.corr
    BY <1>2
  <2>2. QED
    BY <1>1, <1>3, <1>4, <2>1 DEF FrameInFlight
<1>7. KeysAreCached' /\ CacheIsTruthful' /\ KeyCommitsOnce'
  BY <1>1, <1>3 DEF DInv, KeysAreCached, CacheIsTruthful, KeyCommitsOnce
<1>8. RepliesAreTruthful'
  BY <1>1, <1>3 DEF DInv, RepliesAreTruthful, Truthful, CommittedBy
<1>9. QED
  BY <1>5, <1>6, <1>7, <1>8 DEF DInv

\* Accepting a request: those sent before keep their places.
LEMMA SendStep ==
  ASSUME TInv, QInv, DInv, NEW r \in TransactionRequest, PushRequest(r)
  PROVE  DInv'
<1>1. UNCHANGED <<wal, replayed, cache, replies, req, epc, status, tx_id>>
  BY DEF PushRequest, ledger, engine
<1>2. \A k \in 1 .. Len(sent) : sent'[k] = sent[k]
  <2>1. sent \in Seq(TransactionRequest) /\ sent' = Append(sent, r)
    BY DEF TInv, TypeOK, PushRequest
  <2>2. QED
    BY <2>1, AppendProperties
<1>3. LiveFrames' = LiveFrames /\ Committing' = Committing /\ Uncommitted' = Uncommitted
  BY <1>1 DEF LiveFrames, Committing, Uncommitted
<1>4. FramesWereSent'
  <2>1. \A c \in 1 .. req.corr : c \in 1 .. Len(sent)
    BY QueueTypes
  <2>2. QED
    BY <1>1, <1>2, <1>3, <2>1 DEF DInv, FramesWereSent
<1>5. FrameInFlight' /\ KeysAreCached' /\ CacheIsTruthful' /\ KeyCommitsOnce'
  BY <1>1, <1>3 DEF DInv, FrameInFlight, KeysAreCached, CacheIsTruthful, KeyCommitsOnce
<1>6. RepliesAreTruthful'
  <2>1. \A k \in 1 .. Len(replies) : sent'[replies[k].corr] = sent[replies[k].corr]
    BY <1>2, ReplyIds
  <2>2. QED
    BY <1>1, <1>3, <2>1 DEF DInv, RepliesAreTruthful, Truthful, CommittedBy
<1>7. QED
  BY <1>4, <1>5, <1>6 DEF DInv

\* Taking a reply from the queue.
LEMMA TakeStep ==
  ASSUME TInv, DInv, PopReply
  PROVE  DInv'
<1>1. UNCHANGED <<wal, replayed, cache, sent, req, epc, status, tx_id>>
  BY DEF PopReply, ledger, engine
<1>2. LiveFrames' = LiveFrames /\ Committing' = Committing /\ Uncommitted' = Uncommitted
  BY <1>1 DEF LiveFrames, Committing, Uncommitted
<1>3. \A k \in 1 .. Len(replies') : k + 1 \in 1 .. Len(replies) /\ replies'[k] = replies[k + 1]
  <2>1. replies \in Seq(Response) /\ replies # <<>> /\ replies' = Tail(replies)
    BY DEF TInv, TypeOK, PopReply
  <2>2. /\ Len(replies') = Len(replies) - 1 /\ Len(replies) \in Nat
        /\ \A k \in 1 .. Len(replies) - 1 : replies'[k] = replies[k + 1]
    BY <2>1, HeadTailProperties, LenProperties
  <2>3. QED
    BY <2>2
<1>4. FramesWereSent' /\ FrameInFlight' /\ KeysAreCached' /\ CacheIsTruthful'
  BY <1>1, <1>2 DEF DInv, FramesWereSent, FrameInFlight, KeysAreCached, CacheIsTruthful
<1>5. KeyCommitsOnce'
  BY <1>1, <1>2 DEF DInv, KeyCommitsOnce
<1>6. RepliesAreTruthful'
  <2>1. ASSUME NEW k \in 1 .. Len(replies')
        PROVE  Truthful(replies[k])'
    <3>1. Truthful(replies[k + 1])
      BY <1>3 DEF DInv, RepliesAreTruthful
    <3>2. replies'[k] = replies[k + 1]
      BY <1>3
    <3>3. QED
      BY <1>1, <1>2, <3>1, <3>2 DEF Truthful, CommittedBy
  <2>2. QED
    BY <1>3, <2>1 DEF RepliesAreTruthful
<1>7. QED
  BY <1>4, <1>5, <1>6 DEF DInv

LEMMA DeliveryStep == TInv /\ QInv /\ DInv /\ [Next]_vars => DInv'
<1> SUFFICES ASSUME TInv, QInv, DInv, [Next]_vars
             PROVE  DInv'
  OBVIOUS
<1>1. CASE PopRequest
  <2>1. CASE requests = <<>>
    <3>1. /\ UNCHANGED <<wal, replayed, cache, sent, replies, req, tx_id>>
          /\ epc = "pop" /\ epc' = "top"
      BY <1>1, <2>1 DEF PopRequest, ledger, history
    <3>2. QED
      BY <3>1, QuietStep DEF Committing, Uncommitted
  <2>2. QED
    BY <1>1, <2>1, PopRequestStep
<1>2. CASE TestRunning \/ CountTotal \/ CountWindow \/ CountLatency
  <2>1. /\ UNCHANGED <<wal, replayed, cache, sent, replies, req, tx_id>>
        /\ epc \in {"top", "count"}
        /\ epc' \in {"top", "pop", "stopped", "count"}
    BY <1>2 DEF TestRunning, CountTotal, CountWindow, CountLatency, Count, ledger, history
  <2>2. QED
    BY <2>1, QuietStep DEF Committing, Uncommitted
<1>3. CASE Validate
  <2>1. /\ UNCHANGED <<wal, replayed, cache, sent, replies, req>>
        /\ epc = "validate"
    BY <1>3 DEF Validate, ledger, history
  <2>2. epc' = IF status' = "OK" THEN "log" ELSE "reply"
    BY <1>3 DEF Validate
  <2>3. Committing' = Committing /\ Uncommitted' = Uncommitted /\ ~Committing
    BY <2>1, <2>2 DEF Committing, Uncommitted
  <2>4. epc' \in {"log", "debit", "credit"} => status' = "OK"
    BY <2>2
  <2>5. QED
    BY <2>1, <2>3, <2>4, QuietStep
<1>4. CASE Debit \/ Credit
  <2>1. /\ UNCHANGED <<wal, replayed, cache, sent, replies, req, status, tx_id>>
        /\ epc \in {"debit", "credit"} /\ epc' \in {"credit", "reply"}
    BY <1>4 DEF Debit, Credit, history
  <2>2. status = "OK"
    BY <2>1 DEF DInv, FrameInFlight
  <2>3. QED
    BY <2>1, <2>2, QuietStep DEF Committing, Uncommitted
<1>5. CASE create_account \/ poll_metrics \/ shutdown \/ UNCHANGED vars
  <2>1. UNCHANGED <<wal, replayed, cache, sent, replies, req, epc, status, tx_id>>
    BY <1>5
       DEF create_account, ReserveAccountId, InsertAccount, poll_metrics, BeginSample, SampleCount,
         SampleLatency, Load,
           CheckInvariant, ResetCount, ResetLatency, Clear, shutdown, vars, ledger, engine,
           history
  <2>2. Committing' = Committing /\ Uncommitted' = Uncommitted
    BY <2>1 DEF Committing, Uncommitted
  <2>3. epc' \in {"log", "debit", "credit"} => status' = "OK"
    BY <2>1 DEF DInv, FrameInFlight
  <2>4. QED
    BY <2>1, <2>2, <2>3, QuietStep
<1>6. CASE Restart
  <2>1. /\ DOMAIN cache' = {} /\ 1 .. Len(replies') = {} /\ epc' = "top"
        /\ wal' = wal /\ replayed' = Len(wal) /\ Len(wal) \in Nat
    BY <1>6, LenProperties DEF Restart, TInv, TypeOK
  <2>2. LiveFrames' = {}
    BY <2>1 DEF LiveFrames
  <2>3. QED
    BY <2>1, <2>2
       DEF DInv, FramesWereSent, FrameInFlight, KeysAreCached, CacheIsTruthful,
           KeyCommitsOnce, RepliesAreTruthful, Committing, Uncommitted
<1>7. QED
  BY <1>1, <1>2, <1>3, <1>4, <1>5, <1>6, LogStep, ReplayStep, ReplyStep, SendStep, TakeStep
     DEF Next, run

LEMMA DInvInvariant == Spec => []DInv
BY InitDelivery, DeliveryStep, TInvInvariant, QInvInvariant, PTL DEF Spec

\* An idempotency key commits at most one transaction in one life of the process.
THEOREM KeyCommitsOnceHolds == Spec => []KeyCommitsOnce
<1>1. DInv => KeyCommitsOnce
  BY DEF DInv
<1>2. QED
  BY <1>1, DInvInvariant, PTL

\* A reply of success has a frame behind it, and a reply of failure has none.
THEOREM RepliesAreTruthfulHolds == Spec => []RepliesAreTruthful
<1>1. DInv => RepliesAreTruthful
  BY DEF DInv
<1>2. QED
  BY <1>1, DInvInvariant, PTL

-----------------------------------------------------------------------------
(* Snapshots *)

\* Two integers an int64_t does not tell apart.
Width == 2 * MaxBalance + 2
Same(x, y) == \E k \in Int : x = y + k * Width

LEMMA WidthIsPositive == Width \in Nat /\ Width > MaxBalance + 1 /\ MaxBalance \in Nat
BY BalanceAssumption DEF Width

LEMMA Int64Same ==
  ASSUME NEW x \in Int
  PROVE  Int64(x) \in Int /\ Same(Int64(x), x)
<1> DEFINE a == x + MaxBalance + 1
<1>1. Int64(x) = (a % Width) - (MaxBalance + 1)
  BY DEF Int64, Width
<1>2. a \in Int
  BY WidthIsPositive
<1>3. /\ a \div Width \in Int /\ a % Width \in Int
      /\ a = Width * (a \div Width) + (a % Width)
  <2> HIDE DEF a
  <2> QED
    BY <1>2, WidthIsPositive
<1>4. a % Width = a + (-(a \div Width)) * Width
  <2> HIDE DEF a
  <2> QED
    BY <1>2, <1>3, WidthIsPositive
<1>5. Int64(x) \in Int
  BY <1>1, <1>3, WidthIsPositive
<1>6. Int64(x) = x + (-(a \div Width)) * Width
  <2>1. (-(a \div Width)) * Width \in Int
    BY <1>3, WidthIsPositive
  <2> QED
    BY <1>1, <1>4, <2>1, WidthIsPositive
<1>7. -(a \div Width) \in Int
  BY <1>3
<1> HIDE DEF a
<1> QED
  BY <1>5, <1>6, <1>7 DEF Same

LEMMA SameAdds ==
  ASSUME NEW x \in Int, NEW y \in Int, NEW u \in Int, NEW v \in Int,
         Same(x, y), Same(u, v)
  PROVE  Same(x + u, y + v)
<1>1. PICK k \in Int : x = y + k * Width
  BY DEF Same
<1>2. PICK m \in Int : u = v + m * Width
  BY DEF Same
<1>3. x + u = (y + v) + (k + m) * Width
  BY <1>1, <1>2, WidthIsPositive
<1> QED
  BY <1>3 DEF Same

LEMMA SameReflexive == \A x \in Int : Same(x, x)
<1>1. \A x \in Int : x = x + 0 * Width
  BY WidthIsPositive
<1> QED
  BY <1>1 DEF Same

LEMMA SameTransitive ==
  ASSUME NEW x \in Int, NEW y \in Int, NEW z \in Int, Same(x, y), Same(y, z)
  PROVE  Same(x, z)
<1>1. PICK k \in Int : x = y + k * Width
  BY DEF Same
<1>2. PICK m \in Int : y = z + m * Width
  BY DEF Same
<1>3. x = z + (k + m) * Width
  BY <1>1, <1>2, WidthIsPositive
<1> QED
  BY <1>3 DEF Same

LEMMA SameAsZero ==
  ASSUME NEW x \in Int, Same(x, 0)
  PROVE  Int64(x) = 0
<1>1. Same(Int64(x), 0) /\ Int64(x) \in Int
  BY Int64Same, SameTransitive
<1>2. PICK k \in Int : Int64(x) = 0 + k * Width
  BY <1>1 DEF Same
<1>3. Int64(x) \in -MaxBalance - 1 .. MaxBalance
  BY Int64Range
<1>4. -Width < k * Width /\ k * Width < Width
  BY <1>2, <1>3, WidthIsPositive DEF Width
<1>5. k = 0
  BY <1>4, WidthIsPositive
<1> QED
  BY <1>2, <1>5, WidthIsPositive

\* The sum of all balances.
Balances(accts) == [id \in DOMAIN accts |-> accts[id].balance]
Books(accts) == SumFunctionOnSet(Balances(accts), DOMAIN accts)

LEMMA AccountsAreFinite ==
  ASSUME TypeOK
  PROVE  /\ IsFiniteSet(DOMAIN accounts)
         /\ \A id \in DOMAIN accounts : accounts[id].balance \in Int
         /\ Books(accounts) \in Int
<1>1. IsFiniteSet(Numbers)
  BY FS_Interval, BoundAssumption DEF Numbers
<1>2. IsFiniteSet(DOMAIN accounts)
  BY <1>1, FS_Subset DEF TypeOK
<1>3. \A id \in DOMAIN accounts : accounts[id].balance \in Int
  BY BalanceAssumption DEF TypeOK, Account
<1>4. \A id \in DOMAIN accounts : Balances(accounts)[id] \in Int
  BY <1>3 DEF Balances
<1> QED
  BY <1>2, <1>3, <1>4, SumInteger DEF Books

\* A debit or a credit changes the sum by its amount.
LEMMA CreditedBooks ==
  ASSUME TypeOK, NEW id \in DOMAIN accounts, NEW amount \in Int
  PROVE  /\ Books(Credited(id, amount)) \in Int
         /\ Same(Books(Credited(id, amount)), Books(accounts) + amount)
<1> DEFINE New == Credited(id, amount)
           old == accounts[id].balance
<1>1. /\ DOMAIN New = DOMAIN accounts
      /\ \A a \in DOMAIN accounts :
           New[a].balance = IF a = id THEN Int64(accounts[a].balance + amount)
                                      ELSE accounts[a].balance
  BY CreditedAccounts DEF TypeOK
<1> HIDE DEF New
<1>2. /\ Balances(accounts)[id] = old
      /\ Balances(New)[id] = Int64(old + amount)
      /\ \A a \in DOMAIN accounts : a # id => Balances(New)[a] = Balances(accounts)[a]
  BY <1>1 DEF Balances
<1>3. old \in Int /\ Int64(old + amount) \in Int /\ Same(Int64(old + amount), old + amount)
  BY AccountsAreFinite, Int64Same
<1>4. \A a \in DOMAIN accounts : Balances(accounts)[a] \in Int
  BY AccountsAreFinite DEF Balances
<1>5. SumFunctionOnSet(Balances(New), DOMAIN accounts) =
        SumFunctionOnSet(Balances(accounts), DOMAIN accounts) - old + Int64(old + amount)
  <2> DEFINE f == Balances(accounts)
             h == Balances(New)
             S == DOMAIN accounts
  <2>1. /\ IsFiniteSet(S) /\ id \in S /\ \A a \in S : f[a] \in Int
        /\ \A a \in S : a # id => h[a] = f[a]
    BY <1>2, <1>4, AccountsAreFinite
  <2>2. f[id] = old /\ h[id] = Int64(old + amount)
    BY <1>2
  <2>3. h[id] \in Int
    BY <2>2, <1>3
  <2> HIDE DEF f, h, S, old
  <2>4. SumFunctionOnSet(h, S) = SumFunctionOnSet(f, S) - f[id] + h[id]
    BY <2>1, <2>3, SumUpdate
  <2> QED
    BY <2>2, <2>4 DEF f, h, S
<1>6. Books(New) = Books(accounts) - old + Int64(old + amount)
  BY <1>1, <1>5 DEF Books
<1> HIDE DEF old
<1>7. Books(accounts) - old \in Int
  BY <1>3, AccountsAreFinite
<1>8. Same((Books(accounts) - old) + Int64(old + amount),
           (Books(accounts) - old) + (old + amount))
  <2>1. old + amount \in Int
    BY <1>3
  <2> QED
    BY <1>3, <1>7, <2>1, SameReflexive, SameAdds
<1>9. /\ (Books(accounts) - old) + (old + amount) = Books(accounts) + amount
      /\ Books(New) \in Int
  BY <1>3, <1>6, AccountsAreFinite
<1> QED
  BY <1>6, <1>8, <1>9 DEF New

\* A new account changes nothing.
LEMMA NewAccountBooks ==
  ASSUME TypeOK, NEW n, n \notin DOMAIN accounts, NEW name, NEW type
  PROVE  Books([id \in DOMAIN accounts \cup {n} |->
                  IF id = n THEN [name |-> name, type |-> type, balance |-> 0]
                            ELSE accounts[id]]) = Books(accounts)
<1> DEFINE New == [id \in DOMAIN accounts \cup {n} |->
                     IF id = n THEN [name |-> name, type |-> type, balance |-> 0]
                               ELSE accounts[id]]
           f == Balances(accounts)
           h == Balances(New)
           S == DOMAIN accounts
<1>1. DOMAIN New = S \cup {n} /\ h[n] = 0
  BY DEF Balances
<1>2. /\ IsFiniteSet(S) /\ n \notin S /\ h[n] \in Int
      /\ \A id \in S : f[id] \in Int
      /\ \A id \in S : h[id] = f[id]
  BY <1>1, AccountsAreFinite DEF Balances
<1> HIDE DEF New, f, h, S
<1>3. SumFunctionOnSet(h, S \cup {n}) = SumFunctionOnSet(f, S) + h[n]
  BY <1>2, SumExtend
<1>4. SumFunctionOnSet(f, S) \in Int
  BY AccountsAreFinite DEF Books, f, S
<1>5. SumFunctionOnSet(h, S \cup {n}) = SumFunctionOnSet(f, S)
  BY <1>1, <1>3, <1>4
<1>6. Books(New) = Books(accounts)
  BY <1>1, <1>5 DEF Books, f, h, S
<1> QED
  BY <1>6 DEF New

\* A debit without its credit is short of the amount; nothing else is.
BooksInv ==
  Same(Books(accounts) + (IF epc = "credit" THEN req.amount ELSE 0), 0)

LEMMA BooksStep == TInv /\ NumInv /\ ValidInv /\ BooksInv /\ [Next]_vars => BooksInv'
<1> SUFFICES ASSUME TInv, NumInv, ValidInv, BooksInv, [Next]_vars
             PROVE  BooksInv'
  OBVIOUS
<1>0. TypeOK /\ Books(accounts) \in Int
  BY AccountsAreFinite DEF TInv
<1>a. epc # "credit" => Same(Books(accounts), 0)
  BY <1>0 DEF BooksInv
<1>1. CASE Debit
  <2>1. req.debit \in DOMAIN accounts /\ req.amount \in Int /\ -req.amount \in Int
    BY <1>1, AmountInFlight DEF Debit, ValidInv, InFlight
  <2>2. Same(Books(accounts'), Books(accounts) + -req.amount) /\ Books(accounts') \in Int
    BY <1>0, <1>1, <2>1, CreditedBooks DEF Debit
  <2>3. Same(Books(accounts') + req.amount, Books(accounts) + -req.amount + req.amount)
    <3>1. Books(accounts) + -req.amount \in Int
      BY <1>0, <2>1
    <3> QED
      BY <2>1, <2>2, <3>1, SameReflexive, SameAdds
  <2>4. Books(accounts) + -req.amount + req.amount = Books(accounts)
    BY <1>0, <2>1
  <2>5. Same(Books(accounts), 0)
    BY <1>1, <1>a DEF Debit
  <2>6. Books(accounts') + req.amount \in Int
    BY <2>1, <2>2
  <2>7. Same(Books(accounts') + req.amount, 0)
    BY <1>0, <2>3, <2>4, <2>5, <2>6, SameTransitive
  <2> QED
    BY <1>1, <2>7 DEF Debit, BooksInv
<1>2. CASE Credit
  <2>1. req.credit \in DOMAIN accounts /\ req.amount \in Int
    BY <1>2, AmountInFlight DEF Credit, ValidInv, InFlight
  <2>2. Same(Books(accounts'), Books(accounts) + req.amount) /\ Books(accounts') \in Int
    BY <1>0, <1>2, <2>1, CreditedBooks DEF Credit
  <2>3. Same(Books(accounts) + req.amount, 0) /\ Books(accounts) + req.amount \in Int
    BY <1>0, <1>2, <2>1 DEF Credit, BooksInv
  <2>4. Same(Books(accounts'), 0)
    BY <2>2, <2>3, SameTransitive
  <2>5. Books(accounts') + 0 = Books(accounts') /\ epc' # "credit"
    BY <1>2, <2>2 DEF Credit
  <2> QED
    BY <2>4, <2>5 DEF BooksInv
<1>3. CASE InsertAccount
  <2>1. pending.id \notin DOMAIN accounts /\ epc' = epc /\ epc # "credit"
    BY <1>3 DEF InsertAccount, NumInv, NumbersAreUnique, engine, AccountsMutexFree
  <2>2. Books(accounts') = Books(accounts)
    <3>1. CASE accounts' = accounts
      BY <3>1
    <3>2. CASE accounts' # accounts
      <4>1. accounts' = [id \in DOMAIN accounts \cup {pending.id} |->
                           IF id = pending.id
                             THEN [name |-> pending.name, type |-> pending.type, balance |-> 0]
                             ELSE accounts[id]]
        BY <1>3, <3>2 DEF InsertAccount
      <4> QED
        BY <1>0, <2>1, <4>1, NewAccountBooks
    <3> QED
      BY <3>1, <3>2
  <2> QED
    BY <2>1, <2>2 DEF BooksInv
<1>4. CASE Restart
  <2>1. accounts' = <<>> /\ epc' = "top"
    BY <1>4 DEF Restart
  <2>2. DOMAIN accounts' = {}
    BY <2>1
  <2>3. Books(accounts') = 0
    BY <2>2, FS_EmptySet, SumRecursion DEF Books
  <2>4. Books(accounts') + 0 = 0 /\ Same(0, 0)
    BY <2>3, SameReflexive
  <2> QED
    BY <2>1, <2>4 DEF BooksInv
<1>5. CASE \/ TestRunning \/ PopRequest \/ ReplyFromCache \/ Validate \/ Log
           \/ Reply \/ CountTotal \/ CountWindow \/ CountLatency
  <2>1. accounts' = accounts /\ epc # "credit" /\ epc' # "credit"
    BY <1>5
       DEF TestRunning, PopRequest, ReplyFromCache, Validate, Log, Reply, CountTotal,
           CountWindow, CountLatency, Count, ledger
  <2> QED
    BY <2>1 DEF BooksInv
<1>6. CASE \/ \E r \in TransactionRequest : PushRequest(r)
           \/ \E name \in Names, type \in Types : ReserveAccountId(name, type)
           \/ PopReply \/ poll_metrics \/ shutdown \/ UNCHANGED vars
  <2>1. UNCHANGED <<accounts, epc, req>>
    BY <1>6
       DEF PushRequest, ReserveAccountId, PopReply, poll_metrics, BeginSample, SampleCount,
         SampleLatency, Load,
           CheckInvariant, ResetCount, ResetLatency, Clear, shutdown, vars, ledger, engine
  <2> QED
    BY <2>1 DEF BooksInv
<1> QED
  BY <1>1, <1>2, <1>3, <1>4, <1>5, <1>6 DEF Next, run, create_account

\* Every account is counted in one of the four totals.
LEMMA TotalsAreTheBooks ==
  ASSUME TypeOK
  PROVE  Same(total_assets + total_liabilities + total_equity + Total({"Unknown"}),
              Books(accounts))
         /\ total_assets + total_liabilities + total_equity + Total({"Unknown"}) \in Int
<1> DEFINE Ids(types) == {id \in DOMAIN accounts : accounts[id].type \in types}
           S(types) == SumFunctionOnSet(Balances(accounts), Ids(types))
           A == {"Asset", "Expense"}
           L == {"Liability"}
           E == {"Equity", "Revenue"}
           U == {"Unknown"}
<1>1. ASSUME NEW types
      PROVE  /\ IsFiniteSet(Ids(types)) /\ S(types) \in Int
             /\ Total(types) \in Int /\ Same(Total(types), S(types))
  <2>1. IsFiniteSet(Ids(types))
    BY AccountsAreFinite, FS_Subset
  <2>2. \A id \in Ids(types) : Balances(accounts)[id] \in Int
    BY AccountsAreFinite DEF Balances
  <2> DEFINE g == [id \in Ids(types) |-> accounts[id].balance]
  <2>3. \A id \in Ids(types) : g[id] = Balances(accounts)[id]
    BY DEF Balances
  <2>4. Total(types) = Int64(SumFunctionOnSet(g, Ids(types)))
    BY DEF Total
  <2> HIDE DEF Ids, g
  <2>5. SumFunctionOnSet(g, Ids(types)) = S(types)
    BY <2>1, <2>3, SumCongruent
  <2>6. S(types) \in Int
    BY <2>1, <2>2, SumInteger
  <2> QED
    BY <2>1, <2>4, <2>5, <2>6, Int64Same
<1>2. /\ DOMAIN accounts = ((Ids(A) \cup Ids(L)) \cup Ids(E)) \cup Ids(U)
      /\ Ids(A) \cap Ids(L) = {} /\ (Ids(A) \cup Ids(L)) \cap Ids(E) = {}
      /\ ((Ids(A) \cup Ids(L)) \cup Ids(E)) \cap Ids(U) = {}
  <2>1. \A id \in DOMAIN accounts : accounts[id].type \in AccountTypes
    BY TypeAssumption DEF TypeOK, Account
  <2> QED
    BY <2>1 DEF AccountTypes
<1>3. \A id \in DOMAIN accounts : Balances(accounts)[id] \in Int
  BY AccountsAreFinite DEF Balances
<1>4. Books(accounts) = S(A) + S(L) + S(E) + S(U)
  <2> DEFINE f == Balances(accounts)
             AL == Ids(A) \cup Ids(L)
             ALE == AL \cup Ids(E)
  <2>1. /\ IsFiniteSet(Ids(A)) /\ IsFiniteSet(Ids(L)) /\ IsFiniteSet(Ids(E))
        /\ IsFiniteSet(Ids(U)) /\ IsFiniteSet(AL) /\ IsFiniteSet(ALE)
    BY <1>1, FS_Union
  <2>2. /\ \A id \in AL : f[id] \in Int
        /\ \A id \in ALE : f[id] \in Int
        /\ \A id \in ALE \cup Ids(U) : f[id] \in Int
    BY <1>3
  <2> HIDE DEF Ids, f
  <2>3. SumFunctionOnSet(f, AL) = SumFunctionOnSet(f, Ids(A)) + SumFunctionOnSet(f, Ids(L))
    BY <1>2, <2>1, <2>2, SumDisjoint
  <2> HIDE DEF AL
  <2>4. SumFunctionOnSet(f, ALE) = SumFunctionOnSet(f, AL) + SumFunctionOnSet(f, Ids(E))
    BY <1>2, <2>1, <2>2, SumDisjoint DEF AL
  <2> HIDE DEF ALE
  <2>5. SumFunctionOnSet(f, ALE \cup Ids(U)) =
          SumFunctionOnSet(f, ALE) + SumFunctionOnSet(f, Ids(U))
    BY <1>2, <2>1, <2>2, SumDisjoint DEF AL, ALE
  <2>6. DOMAIN accounts = ALE \cup Ids(U)
    BY <1>2 DEF AL, ALE
  <2> QED
    BY <2>3, <2>4, <2>5, <2>6 DEF Books, f
<1> DEFINE TA == Total(A)
           TL == Total(L)
           TE == Total(E)
           TU == Total(U)
           sa == S(A)
           sl == S(L)
           se == S(E)
           su == S(U)
<1>5. /\ TA \in Int /\ TL \in Int /\ TE \in Int /\ TU \in Int
      /\ sa \in Int /\ sl \in Int /\ se \in Int /\ su \in Int
      /\ Same(TA, sa) /\ Same(TL, sl) /\ Same(TE, se) /\ Same(TU, su)
  BY <1>1
<1>6. /\ TA + TL + TE + TU = total_assets + total_liabilities + total_equity + Total({"Unknown"})
      /\ Books(accounts) = sa + sl + se + su
  BY <1>4 DEF total_assets, total_liabilities, total_equity
<1> HIDE DEF TA, TL, TE, TU, sa, sl, se, su
<1>7. Same(TA + TL, sa + sl) /\ TA + TL \in Int /\ sa + sl \in Int
  BY <1>5, SameAdds
<1>8. /\ Same(TA + TL + TE, sa + sl + se)
      /\ TA + TL + TE \in Int /\ sa + sl + se \in Int
  BY <1>5, <1>7, SameAdds
<1>9. Same(TA + TL + TE + TU, sa + sl + se + su) /\ TA + TL + TE + TU \in Int
  BY <1>5, <1>8, SameAdds
<1> QED
  BY <1>6, <1>9

\* A snapshot never shows half a transfer: whenever accounts_mutex_ is free the
\* four totals of get_balance_snapshot cancel out in the width of an int64_t.
THEOREM SnapshotIsConsistentHolds == Spec => []SnapshotIsConsistent
<1>1. Init => BooksInv
  <2> SUFFICES ASSUME Init
               PROVE  BooksInv
    OBVIOUS
  <2>1. DOMAIN accounts = {} /\ epc = "top"
    BY DEF Init
  <2>2. Books(accounts) + 0 = 0
    BY <2>1, FS_EmptySet, SumRecursion DEF Books
  <2> QED
    BY <2>1, <2>2, SameReflexive DEF BooksInv
<1>2. TInv /\ BooksInv => SnapshotIsConsistent
  <2> SUFFICES ASSUME TInv, BooksInv, AccountsMutexFree
               PROVE  Int64(total_assets + total_liabilities + total_equity
                            + Total({"Unknown"})) = 0
    BY DEF SnapshotIsConsistent
  <2>1. TypeOK /\ Books(accounts) \in Int
    BY AccountsAreFinite DEF TInv
  <2>2. Same(Books(accounts), 0)
    BY <2>1 DEF BooksInv, AccountsMutexFree
  <2> QED
    BY <2>1, <2>2, TotalsAreTheBooks, SameTransitive, SameAsZero
<1> QED
  BY <1>1, <1>2, BooksStep, TInvInvariant, NumInvInvariant, ValidInvInvariant, PTL DEF Spec

-----------------------------------------------------------------------------
(* The atomic ledger *)

Journal == [i \in DOMAIN wal |-> wal[i].req]

\* What the steps below know of the state they start from.
EngineInv == TInv /\ NumInv /\ ValidInv /\ NamesAreUnique /\ DInv

\* The balances with the transfer in flight counted in.
LEMMA SettledBy ==
  /\ epc = "debit" =>
       SettledAccounts = Atomic!Plus(Atomic!Plus(accounts, req.debit, -req.amount),
                                     req.credit, req.amount)
  /\ epc = "credit" => SettledAccounts = Atomic!Plus(accounts, req.credit, req.amount)
  /\ epc \notin {"debit", "credit"} => SettledAccounts = accounts
BY DEF SettledAccounts, Credited, Atomic!Plus

\* Counting it in changes balances only.
LEMMA PlusKeeps ==
  ASSUME NEW accts, NEW id, NEW amount
  PROVE  /\ DOMAIN Atomic!Plus(accts, id, amount) = DOMAIN accts
         /\ \A a \in DOMAIN accts : a # id => Atomic!Plus(accts, id, amount)[a] = accts[a]
         /\ \A a \in DOMAIN accts : Atomic!Plus(accts, id, amount)[a] =
              IF a = id THEN [accts[a] EXCEPT !.balance = Int64(@ + amount)] ELSE accts[a]
BY DEF Atomic!Plus

LEMMA PlusName ==
  ASSUME NEW accts, NEW id, NEW amount
  PROVE  \A a \in DOMAIN accts : Atomic!Plus(accts, id, amount)[a].name = accts[a].name
BY DEF Atomic!Plus

\* A new account and a change to the balance of another do not interfere.
With(accts, n, record) ==
  [i \in DOMAIN accts \cup {n} |-> IF i = n THEN record ELSE accts[i]]

LEMMA PlusCommutes ==
  ASSUME NEW accts, NEW n, NEW record, NEW id \in DOMAIN accts, NEW amount,
         n \notin DOMAIN accts
  PROVE  Atomic!Plus(With(accts, n, record), id, amount) =
           With(Atomic!Plus(accts, id, amount), n, record)
BY DEF Atomic!Plus, With

\* The mapping follows the variables it is made of.
LEMMA QuietRefines ==
  ASSUME UNCHANGED <<accounts, wal, replayed>>,
         \/ UNCHANGED <<epc, req>>
         \/ epc \notin {"debit", "credit"} /\ epc' \notin {"debit", "credit"}
  PROVE  UNCHANGED <<SettledAccounts, Journal, replayed>>
<1>1. SettledAccounts' = SettledAccounts
  <2>1. CASE UNCHANGED <<epc, req>>
    BY <2>1 DEF SettledAccounts, Credited
  <2>2. CASE epc \notin {"debit", "credit"} /\ epc' \notin {"debit", "credit"}
    BY <2>2 DEF SettledAccounts
  <2>3. QED
    BY <2>1, <2>2
<1>2. Journal' = Journal
  BY DEF Journal
<1>3. QED
  BY <1>1, <1>2

\* The requests of a log are as many as its frames.
LEMMA JournalIsSeq ==
  ASSUME NEW log \in Seq(Frame)
  PROVE  LET journal == [i \in DOMAIN log |-> log[i].req]
         IN  Len(journal) = Len(log) /\ journal \in Seq(TransactionRequest)
<1> DEFINE journal == [i \in DOMAIN log |-> log[i].req]
<1>1. Len(log) \in Nat /\ log \in [1 .. Len(log) -> Frame]
  BY LenProperties
<1>2. journal \in [1 .. Len(log) -> TransactionRequest]
  BY <1>1 DEF Frame
<1>3. journal \in Seq(TransactionRequest)
  BY <1>1, <1>2, SeqDef
<1>4. QED
  BY <1>1, <1>2, <1>3, LenProperties

\* Appending the frame is the transfer.
LEMMA LogRefines ==
  ASSUME EngineInv, Log
  PROVE  Atomic!Transfer(req)
<1>1. /\ epc = "log" /\ epc' = "debit" /\ InFlight
      /\ UNCHANGED <<accounts, req, replayed, cache>>
  BY DEF Log, InFlight
<1>2. SettledAccounts = accounts
  BY <1>1, SettledBy
<1>3. SettledAccounts' = Atomic!Plus(Atomic!Plus(accounts, req.debit, -req.amount),
                                     req.credit, req.amount)
  BY <1>1 DEF SettledAccounts, Atomic!Plus
<1>4. /\ {req.debit, req.credit} \subseteq DOMAIN accounts
      /\ req.amount > 0
  BY <1>1 DEF EngineInv, ValidInv
<1>5. accounts[req.debit].type = "Asset" => accounts[req.debit].balance >= req.amount
  <2>1. ~(accounts[req.debit].type = "Asset" /\ accounts[req.debit].balance < req.amount)
    BY <1>1 DEF EngineInv, ValidInv, StillValid, validate_transaction
  <2>2. accounts[req.debit].balance \in Int /\ req.amount \in Int
    <3>1. accounts[req.debit] \in Account
      BY <1>4 DEF EngineInv, TInv, TypeOK
    <3>2. QED
      BY <1>1, <3>1, AmountInFlight, BalanceAssumption DEF Account, EngineInv
  <2>3. QED
    BY <2>1, <2>2
<1>6. /\ wal \in Seq(Frame) /\ Len(wal) \in Nat /\ DOMAIN wal = 1 .. Len(wal)
      /\ replayed \in 0 .. Len(wal)
  BY LenProperties DEF EngineInv, TInv, TypeOK
<1>7. Len(Journal) = Len(wal) /\ Journal \in Seq(TransactionRequest)
  BY <1>6, JournalIsSeq DEF Journal
<1>8. Atomic!Fresh(req.key)
  <2>1. \A i \in LiveFrames : wal[i].req.key # req.key \/ req.key = NoKey
    BY <1>1 DEF EngineInv, TInv, Control, DInv, KeysAreCached, Committing
  <2>2. \A i \in replayed + 1 .. Len(Journal) : i \in LiveFrames /\ Journal[i] = wal[i].req
    BY <1>6, <1>7 DEF LiveFrames, Journal
  <2>3. QED
    BY <2>1, <2>2 DEF Atomic!Fresh, Journal
<1>9. Journal' = Append(Journal, req)
  <2> DEFINE f == [tx |-> uuid_counter, req |-> req]
  <2>1. wal' = Append(wal, f) /\ f \in Frame /\ f.req = req
    BY <1>1 DEF Log, EngineInv, TInv, TypeOK, Control, Frame
  <2> HIDE DEF f
  <2>2. /\ Len(wal') = Len(wal) + 1 /\ wal' \in Seq(Frame)
        /\ \A i \in 1 .. Len(wal) : wal'[i] = wal[i]
        /\ wal'[Len(wal) + 1] = f
    BY <1>6, <2>1, AppendProperties
  <2>3. /\ Len(Journal') = Len(wal) + 1 /\ Journal' \in Seq(TransactionRequest)
        /\ \A i \in 1 .. Len(wal) : Journal'[i] = wal[i].req
        /\ Journal'[Len(wal) + 1] = req
    <3>1. Len(Journal') = Len(wal') /\ Journal' \in Seq(TransactionRequest)
      BY <2>2, JournalIsSeq DEF Journal
    <3>2. DOMAIN wal' = 1 .. Len(wal) + 1
      BY <2>2, LenProperties
    <3>3. \A i \in 1 .. Len(wal) + 1 : Journal'[i] = wal'[i].req
      BY <3>2 DEF Journal
    <3>4. /\ Len(wal) + 1 \in 1 .. Len(wal) + 1
          /\ \A i \in 1 .. Len(wal) : i \in 1 .. Len(wal) + 1
      BY <1>6
    <3>5. QED
      BY <2>1, <2>2, <3>1, <3>3, <3>4
  <2>4. /\ Len(Append(Journal, req)) = Len(wal) + 1
        /\ Append(Journal, req) \in Seq(TransactionRequest)
        /\ \A i \in 1 .. Len(wal) : Append(Journal, req)[i] = wal[i].req
        /\ Append(Journal, req)[Len(wal) + 1] = req
    <3>1. req \in TransactionRequest
      BY <1>1 DEF EngineInv, TInv, Control
    <3>2. \A i \in 1 .. Len(wal) : Journal[i] = wal[i].req
      BY <1>6 DEF Journal
    <3>3. QED
      BY <1>7, <3>1, <3>2, AppendProperties
  <2>5. \A i \in 1 .. Len(wal) + 1 : i \in 1 .. Len(wal) \/ i = Len(wal) + 1
    BY <1>6
  <2>6. \A i \in 1 .. Len(wal) + 1 : Journal'[i] = Append(Journal, req)[i]
    BY <2>3, <2>4, <2>5
  <2>7. QED
    BY <2>3, <2>4, <2>6, SeqEqual
<1>10. QED
  BY <1>1, <1>2, <1>3, <1>4, <1>5, <1>8, <1>9 DEF Atomic!Transfer, Journal

\* The debit and the credit were counted in when the frame was appended.
LEMMA ApplyRefines ==
  ASSUME Debit \/ Credit
  PROVE  UNCHANGED <<SettledAccounts, Journal, replayed>>
<1>1. UNCHANGED <<Journal, replayed>>
  BY DEF Debit, Credit, Journal
<1>2. CASE Debit
  <2>1. /\ epc = "debit" /\ epc' = "credit" /\ req' = req
        /\ accounts' = Atomic!Plus(accounts, req.debit, -req.amount)
    BY <1>2 DEF Debit, Credited, Atomic!Plus
  <2>2. SettledAccounts' = Atomic!Plus(accounts', req.credit, req.amount)
    BY <2>1 DEF SettledAccounts, Credited, Atomic!Plus
  <2>3. QED
    BY <1>1, <2>1, <2>2, SettledBy
<1>3. CASE Credit
  <2>1. /\ epc = "credit" /\ epc' = "reply"
        /\ accounts' = Atomic!Plus(accounts, req.credit, req.amount)
    BY <1>3 DEF Credit, Credited, Atomic!Plus
  <2>2. SettledAccounts' = accounts'
    BY <2>1 DEF SettledAccounts
  <2>3. QED
    BY <1>1, <2>1, <2>2, SettledBy
<1>4. QED
  BY <1>2, <1>3

\* Inserting an account opens it, also between the append and the debit.
LEMMA InsertRefines ==
  ASSUME EngineInv, InsertAccount
  PROVE  \/ UNCHANGED <<SettledAccounts, Journal, replayed>>
         \/ \E id \in Numbers, name \in Names, type \in Types : Atomic!Open(id, name, type)
<1>1. /\ iopc = "insert" /\ epc # "credit"
      /\ UNCHANGED <<epc, req, wal, replayed>>
  BY DEF InsertAccount, AccountsMutexFree, engine
<1>2. UNCHANGED <<Journal, replayed>>
  BY <1>1 DEF Journal
<1>3. CASE \E id \in DOMAIN accounts : accounts[id].name = pending.name
  <2>1. accounts' = accounts
    BY <1>3 DEF InsertAccount
  <2>2. QED
    BY <1>1, <2>1, QuietRefines
<1>4. CASE ~\E id \in DOMAIN accounts : accounts[id].name = pending.name
  <2> DEFINE record == [name |-> pending.name, type |-> pending.type, balance |-> 0]
  <2>1. accounts' = With(accounts, pending.id, record)
    BY <1>4 DEF InsertAccount, With
  <2>2. pending.id \notin DOMAIN accounts
    BY <1>1 DEF EngineInv, NumInv, NumbersAreUnique
  <2>3. pending.id \in Numbers /\ pending.name \in Names /\ pending.type \in Types
    BY <1>1 DEF EngineInv, TInv, TypeOK
  <2> HIDE DEF record
  <2>4. SettledAccounts' = With(SettledAccounts, pending.id, record)
    <3>1. CASE epc = "debit"
      <4> DEFINE debited == Atomic!Plus(accounts, req.debit, -req.amount)
                 debited2 == Atomic!Plus(accounts', req.debit, -req.amount)
      <4>1. {req.debit, req.credit} \subseteq DOMAIN accounts
        BY <3>1 DEF EngineInv, ValidInv
      <4>2. DOMAIN debited = DOMAIN accounts
        BY PlusKeeps
      <4>3. debited2 = With(debited, pending.id, record)
        BY <2>1, <2>2, <4>1, <4>2, PlusCommutes
      <4>4. SettledAccounts = Atomic!Plus(debited, req.credit, req.amount)
        BY <3>1, SettledBy
      <4>5. SettledAccounts' = Atomic!Plus(debited2, req.credit, req.amount)
        BY <1>1, <3>1 DEF SettledAccounts, Atomic!Plus
      <4> HIDE DEF debited, debited2
      <4>6. QED
        BY <2>2, <4>1, <4>2, <4>3, <4>4, <4>5, PlusCommutes
    <3>2. CASE epc # "debit"
      <4>1. SettledAccounts = accounts /\ SettledAccounts' = accounts'
        BY <1>1, <3>2 DEF SettledAccounts
      <4>2. QED
        BY <2>1, <4>1
    <3>3. QED
      BY <3>1, <3>2
  <2>5. /\ DOMAIN SettledAccounts = DOMAIN accounts
        /\ \A i \in DOMAIN accounts : SettledAccounts[i].name = accounts[i].name
    <3>1. CASE epc = "debit"
      <4> DEFINE debited == Atomic!Plus(accounts, req.debit, -req.amount)
      <4>1. SettledAccounts = Atomic!Plus(debited, req.credit, req.amount)
        BY <3>1, SettledBy
      <4>2. \A i \in DOMAIN accounts : debited[i].name = accounts[i].name
        BY PlusName
      <4>3. DOMAIN debited = DOMAIN accounts
        BY PlusKeeps
      <4> HIDE DEF debited
      <4>4. QED
        BY <4>1, <4>2, <4>3, PlusKeeps, PlusName
    <3>2. CASE epc # "debit"
      BY <1>1, <3>2, SettledBy
    <3>3. QED
      BY <3>1, <3>2
  <2>6. Atomic!Open(pending.id, pending.name, pending.type)
    BY <1>2, <1>4, <2>2, <2>4, <2>5 DEF Atomic!Open, Journal, With, record
  <2>7. QED
    BY <2>3, <2>6
<1>5. QED
  BY <1>3, <1>4

LEMMA StepRefinesLedger ==
  EngineInv /\ [Next]_vars =>
    \/ Atomic!Next
    \/ UNCHANGED <<SettledAccounts, Journal, replayed>>
<1> SUFFICES ASSUME EngineInv, [Next]_vars
             PROVE  Atomic!Next \/ UNCHANGED <<SettledAccounts, Journal, replayed>>
  OBVIOUS
<1>1. CASE Log
  <2>1. req \in TransactionRequest
    BY <1>1 DEF Log, InFlight, EngineInv, TInv, Control
  <2>2. QED
    BY <1>1, <2>1, LogRefines DEF Atomic!Next, Atomic!Transfer
<1>2. CASE InsertAccount
  BY <1>2, InsertRefines DEF Atomic!Next
<1>3. CASE Debit \/ Credit
  BY <1>3, ApplyRefines
<1>4. CASE Restart
  <2>1. /\ SettledAccounts' = <<>> /\ Journal' = Journal /\ replayed' = Len(wal)
    BY <1>4 DEF Restart, SettledAccounts, Journal
  <2>2. Len(Journal) = Len(wal)
    BY JournalIsSeq DEF Journal, EngineInv, TInv, TypeOK
  <2>3. QED
    BY <2>1, <2>2 DEF Atomic!Next, Atomic!Restart, Journal
<1>5. CASE \/ TestRunning \/ PopRequest \/ ReplyFromCache \/ Validate \/ Reply
           \/ CountTotal \/ CountWindow \/ CountLatency
  <2>1. /\ UNCHANGED <<accounts, wal, replayed>>
        /\ epc \notin {"debit", "credit"} /\ epc' \notin {"debit", "credit"}
    BY <1>5
       DEF TestRunning, PopRequest, ReplyFromCache, Validate, Reply, CountTotal,
           CountWindow, CountLatency, Count, ledger
  <2>2. QED
    BY <2>1, QuietRefines
<1>6. CASE \/ \E r \in TransactionRequest : PushRequest(r)
           \/ \E name \in Names, type \in Types : ReserveAccountId(name, type)
           \/ PopReply \/ poll_metrics \/ shutdown \/ UNCHANGED vars
  <2>1. UNCHANGED <<accounts, wal, replayed, epc, req>>
    BY <1>6
       DEF PushRequest, ReserveAccountId, PopReply, poll_metrics, BeginSample, SampleCount,
         SampleLatency, Load,
           CheckInvariant, ResetCount, ResetLatency, Clear, shutdown, vars, ledger, engine
  <2>2. QED
    BY <2>1, QuietRefines
<1>7. QED
  BY <1>1, <1>2, <1>3, <1>4, <1>5, <1>6 DEF Next, run, create_account

\* The engine implements the atomic ledger.
THEOREM ImplementsAtomicLedger == Spec => RefinesAtomicLedger
<1>1. Init => Atomic!Init
  BY DEF Init, Atomic!Init, SettledAccounts
<1>2. EngineInv /\ [Next]_vars => [Atomic!Next]_(Atomic!vars)
  BY StepRefinesLedger DEF Atomic!vars, Journal
<1>3. Spec => []EngineInv
  <2>1. TInv /\ NumInv /\ ValidInv /\ NamesAreUnique /\ DInv => EngineInv
    BY DEF EngineInv
  <2>2. QED
    BY <2>1, TInvInvariant, NumInvInvariant, ValidInvInvariant, NamesAreUniqueHolds,
       DInvInvariant, PTL
<1>4. QED
  BY <1>1, <1>2, <1>3, PTL DEF Spec, RefinesAtomicLedger, Atomic!Spec
==============================================================================

------------------------- MODULE LedgerEngine_proofs -------------------------
(***************************************************************************)
(* What the ledger engine guarantees for every set of accounts, keys and   *)
(* requests, every queue capacity and every integer width.                 *)
(***************************************************************************)
EXTENDS LedgerEngine, SequenceTheorems, TLAPS

-----------------------------------------------------------------------------
(* Integers of limited width *)

LEMMA Int64Range ==
  ASSUME NEW x \in Int
  PROVE  Int64(x) \in -MaxBalance - 1 .. MaxBalance
<1> DEFINE W == 2 * MaxBalance + 2
<1>1. W \in Nat /\ W > 0 /\ MaxBalance \in Nat
  BY BalanceAssumption
<1>2. (x + MaxBalance + 1) % W \in 0 .. W - 1
  <2> HIDE DEF W
  <2>1. \A a \in Int : a % W \in 0 .. W - 1
    BY <1>1
  <2>2. QED
    BY <1>1, <2>1
<1>3. QED
  BY <1>1, <1>2 DEF Int64

LEMMA Int64Exact ==
  ASSUME NEW x \in -MaxBalance - 1 .. MaxBalance
  PROVE  Int64(x) = x
<1> DEFINE W == 2 * MaxBalance + 2
<1>1. W \in Nat /\ W > 0 /\ MaxBalance \in Nat
  BY BalanceAssumption
<1>2. x + MaxBalance + 1 \in 0 .. W - 1
  BY <1>1
<1>3. (x + MaxBalance + 1) % W = x + MaxBalance + 1
  <2> HIDE DEF W
  <2>1. \A a \in 0 .. W - 1 : a % W = a
    BY <1>1
  <2>2. QED
    BY <1>2, <2>1
<1>4. QED
  BY <1>1, <1>3 DEF Int64

-----------------------------------------------------------------------------
(* Types *)

\* The consumer thread holds a popped request while it is in flight, and knows
\* whether the cache has its key.
Control ==
  /\ InFlight => req \in TransactionRequest
  /\ epc = "replay" => req.key \in DOMAIN cache
  /\ epc \in {"validate", "log", "debit", "credit", "reply"}
       => req.key \notin DOMAIN cache

\* While it counts, there is something to count.
Counting == counting # {} => epc = "count" /\ Processed >= 1

TInv == TypeOK /\ Control /\ Counting

LEMMA Bounds == {MaxLatency, IdBound} \subseteq Nat /\ Numbers \subseteq Nat
<1>1. MaxLatency \in Nat /\ IdBound \in Nat
  BY BoundAssumption
<1>2. QED
  BY <1>1 DEF Numbers

LEMMA InitTypes == Init => TInv
BY BoundAssumption, BalanceAssumption
   DEF Init, TInv, TypeOK, Control, Counting, InFlight, TxStatus, EmptyRequest, NoTxId,
       NoSample

\* Pushing a reply, or losing it to a full queue.
LEMMA PushReplyTypes ==
  ASSUME TypeOK, NEW reply \in Response, PushReply(reply)
  PROVE  /\ replies' \in Seq(Response) /\ Len(replies') <= QueueCapacity
         /\ lost' \subseteq 1 .. MaxRequests
<1>1. CASE /\ Len(replies) < QueueCapacity
           /\ replies' = Append(replies, reply) /\ UNCHANGED lost
  <2>1. replies' = Append(replies, reply) /\ lost' = lost
    BY <1>1
  <2>2. Len(replies') = Len(replies) + 1 /\ replies' \in Seq(Response)
    BY <2>1, AppendProperties DEF TypeOK
  <2>3. Len(replies') <= QueueCapacity
    <3>1. Len(replies) \in Nat /\ QueueCapacity \in Nat
      BY BoundAssumption, LenProperties DEF TypeOK
    <3>2. QED
      BY <1>1, <2>2, <3>1
  <2>4. QED
    BY <2>1, <2>2, <2>3 DEF TypeOK
<1>2. CASE lost' = lost \cup {reply.corr} /\ UNCHANGED replies
  BY <1>2 DEF TypeOK, Response
<1>3. QED
  BY <1>1, <1>2 DEF PushReply

\* Changing a balance keeps the accounts as they are otherwise.
LEMMA CreditedAccounts ==
  ASSUME accounts \in [DOMAIN accounts -> Account], NEW id, NEW amount \in Int
  PROVE  /\ Credited(id, amount) \in [DOMAIN accounts -> Account]
         /\ DOMAIN Credited(id, amount) = DOMAIN accounts
         /\ \A a \in DOMAIN accounts :
              /\ Credited(id, amount)[a].name = accounts[a].name
              /\ Credited(id, amount)[a].type = accounts[a].type
              /\ Credited(id, amount)[a].balance =
                   IF a = id THEN Int64(accounts[a].balance + amount)
                             ELSE accounts[a].balance
<1> DEFINE New == Credited(id, amount)
<1>1. DOMAIN New = DOMAIN accounts
  BY DEF Credited
<1>2. ASSUME NEW a \in DOMAIN accounts
      PROVE  /\ New[a] \in Account
             /\ New[a].name = accounts[a].name
             /\ New[a].type = accounts[a].type
             /\ New[a].balance = IF a = id THEN Int64(accounts[a].balance + amount)
                                         ELSE accounts[a].balance
  <2>1. accounts[a] \in Account /\ accounts[a].balance \in Int
    BY BalanceAssumption DEF Account
  <2>2. CASE a = id
    <3>1. New[a] = [accounts[a] EXCEPT !.balance = Int64(accounts[a].balance + amount)]
      BY <2>2 DEF Credited
    <3>2. Int64(accounts[a].balance + amount) \in -MaxBalance - 1 .. MaxBalance
      BY <2>1, Int64Range
    <3>3. QED
      BY <2>1, <2>2, <3>1, <3>2 DEF Account
  <2>3. CASE a # id
    BY <2>1, <2>3 DEF Credited
  <2>4. QED
    BY <2>2, <2>3
<1>3. New \in [DOMAIN accounts -> Account]
  BY <1>1, <1>2 DEF Credited
<1>4. QED
  BY <1>1, <1>2, <1>3

LEMMA AmountInFlight ==
  ASSUME TInv, InFlight
  PROVE  req.amount \in Int /\ -req.amount \in Int /\ req.amount <= MaxBalance
BY AmountAssumption DEF TInv, Control, TransactionRequest

\* What is to be counted.
LEMMA CountingStep == TInv /\ [Next]_vars => Counting'
<1> SUFFICES ASSUME TInv, [Next]_vars
             PROVE  Counting'
  OBVIOUS
<1> USE DEF TInv, Counting, Processed
<1>1. tx_total \in Nat
  BY DEF TypeOK
<1>2. CASE Reply
  BY <1>1, <1>2 DEF Reply
<1>3. CASE CountTotal \/ CountWindow \/ CountLatency
  BY <1>1, <1>3 DEF CountTotal, CountWindow, CountLatency, Count
<1>4. CASE \/ TestRunning \/ PopRequest \/ ReplyFromCache \/ Validate \/ Log
           \/ Debit \/ Credit
  BY <1>4 DEF TestRunning, PopRequest, ReplyFromCache, Validate, Log, Debit, Credit,
              metrics
<1>5. CASE Restart
  BY <1>5 DEF Restart
<1>6. CASE \/ \E r \in TransactionRequest : PushRequest(r)
           \/ PopReply \/ create_account \/ poll_metrics \/ shutdown \/ UNCHANGED vars
  <2>1. UNCHANGED <<epc, tx_total, counting>>
    BY <1>6 DEF PushRequest, PopReply, create_account, ReserveAccountId, InsertAccount,
                poll_metrics, BeginSample, SampleCount, SampleLatency, Load,
                CheckInvariant, ResetCount, ResetLatency, Clear, shutdown, vars,
                engine, metrics
  <2>2. QED
    BY <2>1
<1>7. QED
  BY <1>2, <1>3, <1>4, <1>5, <1>6 DEF Next, run

\* The types in five parts: what the log and the mutex guard, the queues, what each
\* thread holds, and the counters.
LedgerTypes ==
  /\ DOMAIN accounts \subseteq Numbers /\ accounts \in [DOMAIN accounts -> Account]
  /\ DOMAIN cache \subseteq Keys /\ cache \in [DOMAIN cache -> Response]
  /\ wal \in Seq(Frame) /\ replayed \in 0 .. Len(wal)
  /\ uuid_counter \in Nat

RingTypes ==
  /\ requests \in Seq(TransactionRequest) /\ Len(requests) <= QueueCapacity
  /\ replies \in Seq(Response) /\ Len(replies) <= QueueCapacity
  /\ sent \in Seq(TransactionRequest) /\ Len(sent) <= MaxRequests
  /\ delivered \subseteq 1 .. MaxRequests /\ lost \subseteq 1 .. MaxRequests

EngineTypes ==
  /\ running \in BOOLEAN
  /\ epc \in {"top", "pop", "replay", "validate", "log", "debit", "credit",
              "reply", "count", "stopped"}
  /\ req \in TransactionRequest \cup {EmptyRequest}
  /\ status \in TxStatus
  /\ tx_id \in Nat \cup {NoTxId}
  /\ Control

IoTypes ==
  /\ iopc \in {"idle", "insert", "sample", "check", "reset"}
  /\ iopc = "insert" => pending \in [id : Numbers, name : Names, type : Types]

MetricTypes ==
  /\ {tx_total, tx_window, lat_window} \subseteq Nat
  /\ counting \subseteq {"total"} \cup Window
  /\ polling \subseteq Window /\ sampled \in [count : Nat, latency : Nat]
  /\ {reported, window_start, polls, life} \subseteq Nat

Typed == LedgerTypes /\ RingTypes /\ EngineTypes /\ IoTypes /\ MetricTypes

LEMMA TypedParts == TInv => Typed
BY DEF TInv, TypeOK, Typed, LedgerTypes, RingTypes, EngineTypes, IoTypes, MetricTypes

LEMMA PartsTyped == Typed' => TypeOK' /\ Control'
BY DEF TypeOK, Typed, LedgerTypes, RingTypes, EngineTypes, IoTypes, MetricTypes

\* What a step leaves alone keeps its type.
LEMMA SameTypes ==
  ASSUME Typed
  PROVE  /\ UNCHANGED <<accounts, cache, wal, replayed, uuid_counter>> => LedgerTypes'
         /\ UNCHANGED <<requests, replies, sent, delivered, lost>> => RingTypes'
         /\ UNCHANGED <<running, epc, req, status, tx_id, cache>> => EngineTypes'
         /\ UNCHANGED <<iopc, pending>> => IoTypes'
         /\ UNCHANGED <<tx_total, tx_window, lat_window, counting, polling, sampled,
                        reported, window_start, polls, life>> => MetricTypes'
<1>1. UNCHANGED <<accounts, cache, wal, replayed, uuid_counter>> => LedgerTypes'
  BY DEF Typed, LedgerTypes
<1>2. UNCHANGED <<requests, replies, sent, delivered, lost>> => RingTypes'
  BY DEF Typed, RingTypes
<1>3. UNCHANGED <<running, epc, req, status, tx_id, cache>> => EngineTypes'
  BY DEF Typed, EngineTypes, Control, InFlight
<1>4. UNCHANGED <<iopc, pending>> => IoTypes'
  BY DEF Typed, IoTypes
<1>5. UNCHANGED <<tx_total, tx_window, lat_window, counting, polling, sampled,
                  reported, window_start, polls, life>> => MetricTypes'
  BY DEF Typed, MetricTypes
<1>6. QED
  BY <1>1, <1>2, <1>3, <1>4, <1>5

\* A step of the consumer thread preserves the types.
LEMMA RunTypes == TInv /\ run => Typed'
<1> SUFFICES ASSUME TInv, Typed, run
             PROVE  Typed'
  BY TypedParts
<1> USE DEF ledger, engine, metrics, io, sampling, history
<1>1. CASE TestRunning
  <2>1. EngineTypes'
    BY <1>1 DEF TestRunning, Typed, EngineTypes, Control, InFlight
  <2>2. QED
    BY <1>1, <2>1, SameTypes DEF TestRunning, Typed
<1>2. CASE PopRequest
  <2>1. CASE requests = <<>>
    <3>1. EngineTypes'
      BY <1>2, <2>1 DEF PopRequest, Typed, EngineTypes, Control, InFlight
    <3>2. QED
      BY <1>2, <2>1, <3>1, SameTypes DEF PopRequest, Typed
  <2>2. CASE requests # <<>>
    <3>1. req' = Head(requests) /\ requests' = Tail(requests)
      BY <1>2, <2>2 DEF PopRequest
    <3>2. /\ Head(requests) \in TransactionRequest
          /\ Tail(requests) \in Seq(TransactionRequest)
          /\ Len(Tail(requests)) = Len(requests) - 1
      BY <2>2, HeadTailProperties DEF Typed, RingTypes
    <3>3. Len(requests') <= QueueCapacity
      <4>1. Len(requests) \in Nat /\ QueueCapacity \in Nat /\ Len(requests) <= QueueCapacity
        BY LenProperties, BoundAssumption DEF Typed, RingTypes
      <4>2. QED
        BY <3>1, <3>2, <4>1
    <3>4. RingTypes'
      BY <1>2, <2>2, <3>1, <3>2, <3>3 DEF PopRequest, Typed, RingTypes
    <3>5. /\ epc' = IF req'.key \in DOMAIN cache THEN "replay" ELSE "validate"
          /\ cache' = cache
      BY <1>2, <2>2 DEF PopRequest
    <3>6. EngineTypes'
      BY <1>2, <2>2, <3>1, <3>2, <3>5
         DEF PopRequest, Typed, EngineTypes, Control, InFlight
    <3>7. QED
      BY <1>2, <2>2, <3>4, <3>6, SameTypes DEF PopRequest, Typed
  <2>3. QED
    BY <2>1, <2>2
<1>3. CASE ReplyFromCache
  <2>1. req.key \in DOMAIN cache /\ req \in TransactionRequest
    BY <1>3 DEF ReplyFromCache, Typed, EngineTypes, Control, InFlight
  <2>2. cache[req.key] \in Response
    BY <2>1 DEF Typed, LedgerTypes
  <2>3. [cache[req.key] EXCEPT !.corr = req.corr] \in Response
    BY <2>1, <2>2 DEF Response, TransactionRequest
  <2>4. RingTypes'
    BY <1>3, <2>3, PushReplyTypes DEF ReplyFromCache, Typed, RingTypes, TInv
  <2>5. EngineTypes'
    BY <1>3 DEF ReplyFromCache, Typed, EngineTypes, Control, InFlight
  <2>6. QED
    BY <1>3, <2>4, <2>5, SameTypes DEF ReplyFromCache, Typed
<1>4. CASE Validate
  <2>1. EngineTypes'
    BY <1>4 DEF Validate, validate_transaction, TxStatus, Typed, EngineTypes, Control,
                InFlight
  <2>2. QED
    BY <1>4, <2>1, SameTypes DEF Validate, Typed
<1>5. CASE Log
  <2>1. /\ wal' = Append(wal, [tx |-> uuid_counter, req |-> req])
        /\ replayed' = replayed /\ tx_id' = uuid_counter
        /\ uuid_counter' = uuid_counter + 1
    BY <1>5 DEF Log
  <2>2. uuid_counter \in Nat /\ uuid_counter' \in Nat
    BY <2>1 DEF Typed, LedgerTypes
  <2>3. [tx |-> uuid_counter, req |-> req] \in Frame
    BY <1>5, <2>2 DEF Log, Frame, Typed, EngineTypes, Control, InFlight
  <2>4. wal' \in Seq(Frame) /\ Len(wal') = Len(wal) + 1 /\ Len(wal) \in Nat
    BY <2>1, <2>3, AppendProperties, LenProperties DEF Typed, LedgerTypes
  <2>5. replayed' \in 0 .. Len(wal')
    BY <2>1, <2>4 DEF Typed, LedgerTypes
  <2>6. LedgerTypes'
    BY <1>5, <2>2, <2>4, <2>5 DEF Log, Typed, LedgerTypes
  <2>7. EngineTypes'
    BY <1>5, <2>1, <2>2 DEF Log, Typed, EngineTypes, Control, InFlight
  <2>8. QED
    BY <1>5, <2>6, <2>7, SameTypes DEF Log, Typed
<1>6. CASE Debit
  <2>1. -req.amount \in Int
    BY <1>6, AmountInFlight DEF Debit, InFlight
  <2>2. accounts' \in [DOMAIN accounts -> Account] /\ DOMAIN accounts' = DOMAIN accounts
    BY <1>6, <2>1, CreditedAccounts DEF Debit, Typed, LedgerTypes
  <2>3. LedgerTypes'
    BY <1>6, <2>2 DEF Debit, Typed, LedgerTypes
  <2>4. EngineTypes'
    BY <1>6 DEF Debit, Typed, EngineTypes, Control, InFlight
  <2>5. QED
    BY <1>6, <2>3, <2>4, SameTypes DEF Debit, Typed
<1>7. CASE Credit
  <2>1. req.amount \in Int
    BY <1>7, AmountInFlight DEF Credit, InFlight
  <2>2. accounts' \in [DOMAIN accounts -> Account] /\ DOMAIN accounts' = DOMAIN accounts
    BY <1>7, <2>1, CreditedAccounts DEF Credit, Typed, LedgerTypes
  <2>3. LedgerTypes'
    BY <1>7, <2>2 DEF Credit, Typed, LedgerTypes
  <2>4. EngineTypes'
    BY <1>7 DEF Credit, Typed, EngineTypes, Control, InFlight
  <2>5. QED
    BY <1>7, <2>3, <2>4, SameTypes DEF Credit, Typed
<1>8. CASE Reply
  <2> DEFINE resp == [corr |-> req.corr, tx |-> tx_id, status |-> status]
  <2>1. req \in TransactionRequest /\ resp \in Response
    BY <1>8 DEF Reply, Response, TransactionRequest, Typed, EngineTypes, Control, InFlight
  <2>2. RingTypes'
    BY <1>8, <2>1, PushReplyTypes DEF Reply, Typed, RingTypes, TInv
  <2>3. LedgerTypes'
    BY <1>8, <2>1 DEF Reply, TransactionRequest, Typed, LedgerTypes
  <2>4. EngineTypes'
    BY <1>8 DEF Reply, Typed, EngineTypes, Control, InFlight
  <2>5. MetricTypes'
    BY <1>8 DEF Reply, Typed, MetricTypes
  <2>6. QED
    BY <1>8, <2>2, <2>3, <2>4, <2>5, SameTypes DEF Reply, Typed
<1>9. CASE CountTotal \/ CountWindow \/ CountLatency
  <2>1. {tx_total', tx_window', lat_window'} \subseteq Nat
    <3>1. {tx_total, tx_window, lat_window} \subseteq Nat
      BY DEF Typed, MetricTypes
    <3>2. \A latency \in 0 .. MaxLatency : lat_window + latency \in Nat
      BY <3>1, Bounds
    <3>3. QED
      BY <1>9, <3>1, <3>2 DEF CountTotal, CountWindow, CountLatency
  <2>2. epc = "count" /\ epc' \in {"top", "count"} /\ counting' \subseteq counting
    BY <1>9 DEF CountTotal, CountWindow, CountLatency, Count
  <2>3. UNCHANGED <<running, ledger, uuid_counter, requests, replies,
                    req, status, tx_id, io, history, life>>
    BY <1>9 DEF CountTotal, CountWindow, CountLatency, Count
  <2>4. MetricTypes'
    BY <2>1, <2>2, <2>3 DEF Typed, MetricTypes
  <2>5. EngineTypes'
    BY <2>2, <2>3 DEF Typed, EngineTypes, Control, InFlight
  <2>6. QED
    BY <2>3, <2>4, <2>5, SameTypes DEF Typed
<1>10. QED
  BY <1>1, <1>2, <1>3, <1>4, <1>5, <1>6, <1>7, <1>8, <1>9 DEF run

\* A step of the other threads, or a restart, preserves the types.
LEMMA OtherTypes == TInv /\ Next /\ ~run => Typed'
<1> SUFFICES ASSUME TInv, Typed, Next, ~run
             PROVE  Typed'
  BY TypedParts
<1> USE DEF ledger, engine, metrics, io, sampling, history
<1>1. ASSUME NEW r \in TransactionRequest, PushRequest(r)
      PROVE  Typed'
  <2>1. /\ r.corr = Len(sent) + 1 /\ Len(requests) < QueueCapacity
        /\ requests' = Append(requests, r) /\ sent' = Append(sent, r)
    BY <1>1 DEF PushRequest
  <2>2. /\ requests' \in Seq(TransactionRequest) /\ Len(requests') = Len(requests) + 1
        /\ sent' \in Seq(TransactionRequest) /\ Len(sent') = Len(sent) + 1
    BY <2>1, AppendProperties DEF Typed, RingTypes
  <2>3. Len(requests) \in Nat /\ QueueCapacity \in Nat
    BY LenProperties, BoundAssumption DEF Typed, RingTypes
  <2>4. r.corr \in 1 .. MaxRequests
    BY DEF TransactionRequest
  <2>5. Len(requests') <= QueueCapacity /\ Len(sent') <= MaxRequests
    BY <2>1, <2>2, <2>3, <2>4
  <2>6. RingTypes'
    BY <1>1, <2>2, <2>5 DEF PushRequest, Typed, RingTypes
  <2>7. QED
    BY <1>1, <2>6, SameTypes DEF PushRequest, Typed
<1>2. CASE PopReply
  <2>1. /\ Head(replies) \in Response
        /\ Tail(replies) \in Seq(Response) /\ Len(Tail(replies)) = Len(replies) - 1
    BY <1>2, HeadTailProperties DEF PopReply, Typed, RingTypes
  <2>2. Len(replies) \in Nat /\ QueueCapacity \in Nat /\ Len(replies) <= QueueCapacity
    BY LenProperties, BoundAssumption DEF Typed, RingTypes
  <2>3. Len(Tail(replies)) <= QueueCapacity
    BY <2>1, <2>2
  <2>4. Head(replies).corr \in 1 .. MaxRequests
    BY <2>1 DEF Response
  <2>5. RingTypes'
    BY <1>2, <2>1, <2>3, <2>4 DEF PopReply, Typed, RingTypes
  <2>6. QED
    BY <1>2, <2>5, SameTypes DEF PopReply, Typed
<1>3. ASSUME NEW name \in Names, NEW type \in Types, ReserveAccountId(name, type)
      PROVE  Typed'
  <2>1. uuid_counter \in Nat /\ IdBound \in Nat
    BY BoundAssumption DEF Typed, LedgerTypes
  <2>2. uuid_counter \in Numbers /\ uuid_counter' \in Nat
    BY <1>3, <2>1 DEF ReserveAccountId, Numbers
  <2>3. IoTypes'
    BY <1>3, <2>2 DEF ReserveAccountId, IoTypes
  <2>4. LedgerTypes'
    BY <1>3, <2>2 DEF ReserveAccountId, Typed, LedgerTypes
  <2>5. QED
    BY <1>3, <2>3, <2>4, SameTypes DEF ReserveAccountId, Typed
<1>4. CASE InsertAccount
  <2>1. pending \in [id : Numbers, name : Names, type : Types]
    BY <1>4 DEF InsertAccount, Typed, IoTypes
  <2>2. [name |-> pending.name, type |-> pending.type, balance |-> 0] \in Account
    BY <2>1, BalanceAssumption DEF Account
  <2>3. /\ DOMAIN accounts' \subseteq Numbers
        /\ accounts' \in [DOMAIN accounts' -> Account]
    BY <1>4, <2>1, <2>2 DEF InsertAccount, Typed, LedgerTypes
  <2>4. LedgerTypes'
    BY <1>4, <2>3 DEF InsertAccount, Typed, LedgerTypes
  <2>5. IoTypes'
    BY <1>4 DEF InsertAccount, IoTypes
  <2>6. QED
    BY <1>4, <2>4, <2>5, SameTypes DEF InsertAccount, Typed
<1>5. CASE BeginSample \/ SampleCount \/ SampleLatency
  <2>1. /\ polling' \subseteq Window /\ iopc' \in {"sample", "check"}
        /\ UNCHANGED <<running, ledger, uuid_counter, requests, replies, metrics, engine,
                       pending, window_start, history, life>>
    BY <1>5 DEF BeginSample, SampleCount, SampleLatency, Load, Typed, MetricTypes
  <2>2. sampled' \in [count : Nat, latency : Nat]
    BY <1>5 DEF BeginSample, SampleCount, SampleLatency, Load, Typed, MetricTypes
  <2>3. reported' \in Nat /\ polls' \in Nat
    <3>1. reported \in Nat /\ polls \in Nat /\ tx_window \in Nat
      BY DEF Typed, MetricTypes
    <3>2. \/ reported' = reported /\ polls' = polls
          \/ reported' = reported /\ polls' = polls + 1
          \/ reported' = reported + tx_window /\ polls' = polls
      BY <1>5 DEF BeginSample, SampleCount, SampleLatency, Load
    <3>3. QED
      BY <3>1, <3>2
  <2>4. MetricTypes'
    BY <2>1, <2>2, <2>3 DEF Typed, MetricTypes
  <2>5. IoTypes'
    BY <2>1 DEF IoTypes
  <2>6. QED
    BY <2>1, <2>4, <2>5, SameTypes DEF Typed
<1>6. CASE CheckInvariant
  <2>1. window_start' \in Nat
    BY <1>6 DEF CheckInvariant, TInv, Counting, Processed, Typed, MetricTypes
  <2>2. MetricTypes'
    BY <1>6, <2>1 DEF CheckInvariant, Typed, MetricTypes
  <2>3. IoTypes'
    BY <1>6 DEF CheckInvariant, IoTypes
  <2>4. QED
    BY <1>6, <2>2, <2>3, SameTypes DEF CheckInvariant, Typed
<1>7. CASE ResetCount \/ ResetLatency
  <2>1. /\ polling' \subseteq polling /\ iopc' \in {"idle", "reset"}
        /\ UNCHANGED <<running, ledger, uuid_counter, requests, replies, tx_total,
                       counting, engine, pending, reported, window_start, polls,
                       history, life>>
    BY <1>7 DEF ResetCount, ResetLatency, Clear
  <2>2. /\ sampled' \in [count : Nat, latency : Nat]
        /\ {tx_window', lat_window'} \subseteq Nat
    BY <1>7 DEF ResetCount, ResetLatency, Clear, Typed, MetricTypes
  <2>3. MetricTypes'
    BY <2>1, <2>2 DEF Typed, MetricTypes
  <2>4. IoTypes'
    BY <2>1 DEF IoTypes
  <2>5. QED
    BY <2>1, <2>3, <2>4, SameTypes DEF Typed
<1>8. CASE shutdown
  <2>1. EngineTypes'
    BY <1>8 DEF shutdown, Typed, EngineTypes, Control, InFlight
  <2>2. QED
    BY <1>8, <2>1, SameTypes DEF shutdown, Typed
<1>9. CASE Restart
  <2>1. LedgerTypes'
    <3>1. replayed' \in 0 .. Len(wal') /\ wal' = wal /\ uuid_counter' \in Nat
      BY <1>9, LenProperties DEF Restart, Typed, LedgerTypes
    <3>2. /\ DOMAIN accounts' = {} /\ accounts' \in [{} -> Account]
          /\ DOMAIN cache' = {} /\ cache' \in [{} -> Response]
      BY <1>9 DEF Restart
    <3>3. QED
      BY <3>1, <3>2 DEF Typed, LedgerTypes
  <2>2. RingTypes'
    BY <1>9, BoundAssumption DEF Restart, RingTypes
  <2>3. EngineTypes'
    BY <1>9 DEF Restart, TxStatus, NoTxId, EngineTypes, Control, InFlight
  <2>4. MetricTypes'
    BY <1>9 DEF Restart, NoSample, Typed, MetricTypes
  <2>5. IoTypes'
    BY <1>9 DEF Restart, IoTypes
  <2>6. QED
    BY <2>1, <2>2, <2>3, <2>4, <2>5 DEF Typed
<1>10. QED
  BY <1>1, <1>2, <1>3, <1>4, <1>5, <1>6, <1>7, <1>8, <1>9
     DEF Next, create_account, poll_metrics

LEMMA TypesStep == TInv /\ [Next]_vars => TInv'
<1>1. TInv /\ UNCHANGED vars => Typed'
  BY TypedParts, SameTypes
     DEF vars, ledger, engine, metrics, io, sampling, history, Typed
<1>2. QED
  BY <1>1, RunTypes, OtherTypes, PartsTyped, CountingStep DEF TInv

LEMMA TInvInvariant == Spec => []TInv
BY InitTypes, TypesStep, PTL DEF Spec

\* Every variable keeps its type, and both queues their capacity.
THEOREM TypeCorrect == Spec => []TypeOK
<1>1. TInv => TypeOK
  BY DEF TInv
<1>2. QED
  BY <1>1, TInvInvariant, PTL

-----------------------------------------------------------------------------
(* Numbers drawn from the shared counter, and account names *)

\* Every number in use was drawn from the counter.
NumInv ==
  /\ NumbersAreUnique
  /\ \A i \in LiveFrames : wal[i].tx < uuid_counter
  /\ \A id \in DOMAIN accounts : id < uuid_counter
  /\ iopc = "insert" => pending.id < uuid_counter

LEMMA InitNumbers == Init => NumInv
BY DEF Init, NumInv, NumbersAreUnique, LiveFrames

\* The frames of this life are frames of the log.
LEMMA LiveFramesAreFrames ==
  ASSUME TInv
  PROVE  \A i \in LiveFrames : i \in 1 .. Len(wal) /\ wal[i] \in Frame
<1>1. wal \in Seq(Frame) /\ Len(wal) \in Nat /\ replayed \in 0 .. Len(wal)
  BY LenProperties DEF TInv, TypeOK
<1>2. QED
  BY <1>1, ElementOfSeq DEF LiveFrames

\* What an append does to the frames of this life.
LEMMA AppendFrame ==
  ASSUME TInv, NEW f \in Frame, wal' = Append(wal, f), replayed' = replayed
  PROVE  /\ Len(wal') = Len(wal) + 1 /\ Len(wal) \in Nat /\ replayed \in 0 .. Len(wal)
         /\ LiveFrames' = LiveFrames \cup {Len(wal) + 1}
         /\ \A i \in LiveFrames : i \in 1 .. Len(wal) /\ wal'[i] = wal[i] /\ wal[i] \in Frame
         /\ wal'[Len(wal) + 1] = f
<1>1. wal \in Seq(Frame) /\ Len(wal) \in Nat /\ replayed \in 0 .. Len(wal)
  BY LenProperties DEF TInv, TypeOK
<1>2. /\ Len(wal') = Len(wal) + 1
      /\ \A i \in 1 .. Len(wal) : wal'[i] = wal[i]
      /\ wal'[Len(wal) + 1] = f
  BY <1>1, AppendProperties
<1>3. LiveFrames' = LiveFrames \cup {Len(wal) + 1}
  BY <1>1, <1>2 DEF LiveFrames
<1>4. QED
  BY <1>1, <1>2, <1>3, LiveFramesAreFrames

LEMMA NumbersStep == TInv /\ NumInv /\ [Next]_vars => NumInv'
<1> SUFFICES ASSUME TInv, NumInv, [Next]_vars
             PROVE  NumInv'
  OBVIOUS
<1> USE DEF NumInv, NumbersAreUnique
<1>0. ASSUME UNCHANGED <<wal, replayed, accounts, uuid_counter, iopc, pending>>
      PROVE  NumInv'
  BY <1>0 DEF LiveFrames
<1>1. CASE Log
  <2> DEFINE f == [tx |-> uuid_counter, req |-> req]
             n == Len(wal) + 1
  <2>1. f \in Frame /\ wal' = Append(wal, f) /\ replayed' = replayed
    BY <1>1 DEF Log, TInv, TypeOK, Control, InFlight, Frame
  <2>2. /\ LiveFrames' = LiveFrames \cup {n}
        /\ \A i \in LiveFrames : wal'[i].tx = wal[i].tx /\ wal[i].tx \in Nat
        /\ wal'[n].tx = uuid_counter
    BY <2>1, AppendFrame DEF Frame
  <2> HIDE DEF f, n
  <2>3. /\ DOMAIN accounts \subseteq Nat
        /\ iopc = "insert" => pending.id \in Nat
    BY Bounds DEF TInv, TypeOK
  <2>4. /\ uuid_counter \in Nat /\ uuid_counter' = uuid_counter + 1
        /\ accounts' = accounts /\ iopc' = iopc /\ pending' = pending
    BY <1>1 DEF Log, TInv, TypeOK, io, sampling
  <2>5. \A i \in LiveFrames' : wal'[i].tx < uuid_counter'
    BY <2>2, <2>4
  <2>6. \A i, j \in LiveFrames' : wal'[i].tx = wal'[j].tx => i = j
    BY <2>2, <2>4
  <2>7. \A i \in LiveFrames' : wal'[i].tx \notin DOMAIN accounts
    BY <2>2, <2>3, <2>4
  <2>8. iopc = "insert" => \A i \in LiveFrames' : wal'[i].tx # pending.id
    BY <2>2, <2>3, <2>4
  <2>9. \A id \in DOMAIN accounts : id < uuid_counter'
    BY <2>3, <2>4
  <2>10. iopc = "insert" => pending.id < uuid_counter'
    BY <2>3, <2>4
  <2>11. QED
    BY <2>4, <2>5, <2>6, <2>7, <2>8, <2>9, <2>10
<1>2. ASSUME NEW name \in Names, NEW type \in Types, ReserveAccountId(name, type)
      PROVE  NumInv'
  <2>1. /\ pending'.id = uuid_counter /\ uuid_counter' = uuid_counter + 1
        /\ wal' = wal /\ replayed' = replayed /\ accounts' = accounts
        /\ uuid_counter \in Nat /\ DOMAIN accounts \subseteq Nat
    <3>1. DOMAIN accounts \subseteq Nat
      BY BoundAssumption DEF TInv, TypeOK, Numbers
    <3>2. uuid_counter \in Nat
      BY DEF TInv, TypeOK
    <3>3. QED
      BY <1>2, <3>1, <3>2 DEF ReserveAccountId, ledger
  <2>2. \A i \in LiveFrames : wal[i].tx \in Nat
    BY LiveFramesAreFrames DEF Frame
  <2>3. LiveFrames' = LiveFrames
    BY <2>1 DEF LiveFrames
  <2>4. QED
    BY <2>1, <2>2, <2>3
<1>3. CASE InsertAccount
  <2>1. /\ DOMAIN accounts' \subseteq DOMAIN accounts \cup {pending.id}
        /\ iopc = "insert" /\ iopc' = "idle"
        /\ wal' = wal /\ replayed' = replayed /\ uuid_counter' = uuid_counter
    BY <1>3 DEF InsertAccount
  <2>2. LiveFrames' = LiveFrames
    BY <2>1 DEF LiveFrames
  <2>3. QED
    BY <2>1, <2>2
<1>4. CASE Debit \/ Credit
  <2>1. DOMAIN accounts' = DOMAIN accounts
    BY <1>4 DEF Debit, Credit, Credited
  <2>2. UNCHANGED <<wal, replayed, uuid_counter, iopc, pending>>
    BY <1>4 DEF Debit, Credit, io, sampling
  <2>3. QED
    BY <2>1, <2>2 DEF LiveFrames
<1>5. CASE Restart
  <2>1. /\ wal' = wal /\ replayed' = Len(wal) /\ Len(wal) \in Nat
        /\ DOMAIN accounts' = {} /\ iopc' = "idle"
    BY <1>5, LenProperties DEF Restart, TInv, TypeOK
  <2>2. LiveFrames' = {}
    BY <2>1 DEF LiveFrames
  <2>3. QED
    BY <2>1, <2>2
<1>6. CASE \/ TestRunning \/ PopRequest \/ ReplyFromCache \/ Validate \/ Reply
           \/ CountTotal \/ CountWindow \/ CountLatency
  BY <1>0, <1>6
     DEF TestRunning, PopRequest, ReplyFromCache, Validate, Reply,
         CountTotal, CountWindow, CountLatency, Count, ledger, io, sampling
<1>7. CASE \/ \E r \in TransactionRequest : PushRequest(r)
           \/ PopReply \/ shutdown \/ UNCHANGED vars
  BY <1>0, <1>7 DEF PushRequest, PopReply, shutdown, vars, ledger, io, sampling
<1>8. CASE poll_metrics
  <2>1. /\ UNCHANGED <<wal, replayed, accounts, uuid_counter>>
        /\ iopc' # "insert"
    BY <1>8 DEF poll_metrics, BeginSample, SampleCount,
         SampleLatency, Load, CheckInvariant, ResetCount,
                ResetLatency, Clear, ledger
  <2>2. QED
    BY <2>1 DEF LiveFrames
<1>9. QED
  BY <1>1, <1>2, <1>3, <1>4, <1>5, <1>6, <1>7, <1>8 DEF Next, run, create_account

\* No number is given out twice, to accounts or to transactions.
THEOREM NumbersAreUniqueHolds == Spec => []NumbersAreUnique
<1>1. NumInv => NumbersAreUnique
  BY DEF NumInv
<1>2. QED
  BY <1>1, InitNumbers, NumbersStep, TInvInvariant, PTL DEF Spec

\* create_account checks the name under the lock.
LEMMA NamesStep == NumInv /\ NamesAreUnique /\ TInv /\ [Next]_vars => NamesAreUnique'
<1> SUFFICES ASSUME NumInv, NamesAreUnique, TInv, [Next]_vars
             PROVE  NamesAreUnique'
  OBVIOUS
<1> USE DEF NamesAreUnique
<1>1. CASE InsertAccount
  <2>1. pending.id \notin DOMAIN accounts
    BY <1>1 DEF InsertAccount, NumInv, NumbersAreUnique
  <2>2. CASE \E id \in DOMAIN accounts : accounts[id].name = pending.name
    BY <1>1, <2>2 DEF InsertAccount
  <2>3. CASE ~\E id \in DOMAIN accounts : accounts[id].name = pending.name
    <3>1. /\ DOMAIN accounts' = DOMAIN accounts \cup {pending.id}
          /\ accounts'[pending.id].name = pending.name
          /\ \A id \in DOMAIN accounts : accounts'[id] = accounts[id]
      BY <1>1, <2>1, <2>3 DEF InsertAccount
    <3>2. QED
      BY <2>3, <3>1
  <2>4. QED
    BY <2>2, <2>3
<1>2. CASE Debit \/ Credit
  <2>1. InFlight /\ accounts \in [DOMAIN accounts -> Account]
    BY <1>2 DEF Debit, Credit, InFlight, TInv, TypeOK
  <2>2. req.amount \in Int /\ -req.amount \in Int
    BY <2>1, AmountInFlight
  <2>3. /\ DOMAIN accounts' = DOMAIN accounts
        /\ \A a \in DOMAIN accounts : accounts'[a].name = accounts[a].name
    BY <1>2, <2>1, <2>2, CreditedAccounts DEF Debit, Credit
  <2>4. QED
    BY <2>3
<1>3. CASE Restart
  BY <1>3 DEF Restart
<1>4. ASSUME accounts' = accounts
      PROVE  NamesAreUnique'
  BY <1>4
<1>5. CASE \/ TestRunning \/ PopRequest \/ ReplyFromCache \/ Validate \/ Log \/ Reply
           \/ CountTotal \/ CountWindow \/ CountLatency
  BY <1>4, <1>5
     DEF TestRunning, PopRequest, ReplyFromCache, Validate, Log, Reply,
         CountTotal, CountWindow, CountLatency, Count, ledger
<1>6. CASE \/ \E r \in TransactionRequest : PushRequest(r)
           \/ \E name \in Names, type \in Types : ReserveAccountId(name, type)
           \/ PopReply \/ poll_metrics \/ shutdown \/ UNCHANGED vars
  BY <1>4, <1>6
     DEF PushRequest, ReserveAccountId, PopReply, poll_metrics, BeginSample, SampleCount,
         SampleLatency, Load,
         CheckInvariant, ResetCount, ResetLatency, Clear, shutdown, vars, ledger
<1>7. QED
  BY <1>1, <1>2, <1>3, <1>5, <1>6 DEF Next, run, create_account

LEMMA NumInvInvariant == Spec => []NumInv
BY InitNumbers, NumbersStep, TInvInvariant, PTL DEF Spec

\* No two accounts have the same name, whatever the two threads do meanwhile.
THEOREM NamesAreUniqueHolds == Spec => []NamesAreUnique
<1>1. Init => NamesAreUnique
  BY DEF Init, NamesAreUnique
<1>2. QED
  BY <1>1, NamesStep, TInvInvariant, NumInvInvariant, PTL DEF Spec

-----------------------------------------------------------------------------
(* Validation outlives its lock *)

\* The request being committed passed validation, and run() alone changes
\* balances: create_account only adds accounts.
ValidInv ==
  /\ StillValid
  /\ epc \in {"log", "debit", "credit"} =>
       req.amount > 0 /\ {req.debit, req.credit} \subseteq DOMAIN accounts

LEMMA ValidStep == TInv /\ NumInv /\ ValidInv /\ [Next]_vars => ValidInv'
<1> SUFFICES ASSUME TInv, NumInv, ValidInv, [Next]_vars
             PROVE  ValidInv'
  OBVIOUS
<1> USE DEF ValidInv, StillValid
<1>0. ASSUME UNCHANGED <<accounts, epc, req>>
      PROVE  ValidInv'
  BY <1>0 DEF validate_transaction
<1>1. CASE Validate
  <2>1. CASE status' = "OK"
    <3>1. validate_transaction(req) = "OK" /\ UNCHANGED <<accounts, req>>
      BY <1>1, <2>1 DEF Validate, ledger
    <3>2. /\ ~(req.amount <= 0)
          /\ {req.debit, req.credit} \subseteq DOMAIN accounts
      BY <3>1 DEF validate_transaction
    <3>3. InFlight /\ epc' = "log"
      BY <1>1, <2>1 DEF Validate, InFlight
    <3>4. req.amount \in Int
      BY <3>3, AmountInFlight
    <3>5. QED
      BY <3>1, <3>2, <3>3, <3>4 DEF validate_transaction
  <2>2. CASE status' # "OK"
    BY <1>1, <2>2 DEF Validate
  <2>3. QED
    BY <2>1, <2>2
<1>2. CASE Log
  BY <1>2 DEF Log, validate_transaction
<1>3. CASE Debit
  BY <1>3 DEF Debit, Credited
<1>4. CASE InsertAccount
  <2>1. pending.id \notin DOMAIN accounts
    BY <1>4 DEF InsertAccount, NumInv, NumbersAreUnique
  <2>2. /\ DOMAIN accounts \subseteq DOMAIN accounts'
        /\ \A id \in DOMAIN accounts : accounts'[id] = accounts[id]
        /\ UNCHANGED <<epc, req>>
    BY <1>4, <2>1 DEF InsertAccount, engine
  <2>3. QED
    BY <2>2 DEF validate_transaction
<1>5. CASE \/ TestRunning \/ PopRequest \/ ReplyFromCache \/ Credit \/ Reply
           \/ CountTotal \/ CountWindow \/ CountLatency \/ Restart
  <2>1. epc' \notin {"log", "debit", "credit"}
    BY <1>5 DEF TestRunning, PopRequest, ReplyFromCache, Credit, Reply,
                CountTotal, CountWindow, CountLatency, Count, Restart
  <2>2. QED
    BY <2>1
<1>6. CASE \/ \E r \in TransactionRequest : PushRequest(r)
           \/ \E name \in Names, type \in Types : ReserveAccountId(name, type)
           \/ PopReply \/ poll_metrics \/ shutdown \/ UNCHANGED vars
  BY <1>0, <1>6
     DEF PushRequest, ReserveAccountId, PopReply, poll_metrics, BeginSample, SampleCount,
         SampleLatency, Load,
         CheckInvariant, ResetCount, ResetLatency, Clear, shutdown, vars, ledger, engine
<1>7. QED
  BY <1>1, <1>2, <1>3, <1>4, <1>5, <1>6 DEF Next, run, create_account

LEMMA ValidInvInvariant == Spec => []ValidInv
<1>1. Init => ValidInv
  BY DEF Init, ValidInv, StillValid
<1>2. QED
  BY <1>1, ValidStep, TInvInvariant, NumInvInvariant, PTL DEF Spec

\* What validation found under the lock still holds when it is acted on.
THEOREM StillValidHolds == Spec => []StillValid
<1>1. ValidInv => StillValid
  BY DEF ValidInv
<1>2. QED
  BY <1>1, ValidInvInvariant, PTL

\* A debit never overdraws an asset account.
THEOREM AssetsNeverOverdrawnHolds == Spec => AssetsNeverOverdrawn
<1> DEFINE Kept(id) ==
             accounts[id].type = "Asset" /\ accounts[id].balance >= 0
               => \/ accounts'[id].balance >= 0
                  \/ /\ epc = "credit" /\ id = req.credit
                     /\ accounts[id].balance + req.amount > MaxBalance
           Safe == \A id \in DOMAIN accounts \cap DOMAIN accounts' : Kept(id)
<1>1. ASSUME TInv, NumInv, ValidInv, Next
      PROVE  Safe
  <2>1. /\ accounts \in [DOMAIN accounts -> Account] /\ MaxBalance \in Nat
        /\ \A id \in DOMAIN accounts : accounts[id].balance \in -MaxBalance - 1 .. MaxBalance
    BY <1>1, BalanceAssumption DEF TInv, TypeOK, Account
  <2>2. ASSUME accounts' = accounts
        PROVE  Safe
    BY <2>2
  <2>3. CASE Debit
    <3>1. /\ req.amount \in Int /\ -req.amount \in Int
      BY <1>1, <2>3, AmountInFlight DEF Debit, InFlight
    <3>2. /\ req.amount > 0
          /\ accounts[req.debit].type = "Asset"
               => ~(accounts[req.debit].balance < req.amount)
      BY <1>1, <2>3 DEF Debit, ValidInv, StillValid, validate_transaction
    <3>3. \A id \in DOMAIN accounts :
            accounts'[id].balance =
              IF id = req.debit THEN Int64(accounts[id].balance + -req.amount)
                                ELSE accounts[id].balance
      BY <2>1, <2>3, <3>1, CreditedAccounts DEF Debit
    <3>4. ASSUME NEW id \in DOMAIN accounts, accounts[id].type = "Asset",
                 accounts[id].balance >= 0, id = req.debit
          PROVE  accounts'[id].balance >= 0
      <4>1. accounts[id].balance + -req.amount \in 0 .. MaxBalance
        BY <2>1, <3>1, <3>2, <3>4
      <4>2. Int64(accounts[id].balance + -req.amount) = accounts[id].balance + -req.amount
        BY <2>1, <4>1, Int64Exact
      <4>3. QED
        BY <3>3, <3>4, <4>1, <4>2
    <3>5. QED
      BY <3>3, <3>4
  <2>4. CASE Credit
    <3>1. /\ req.amount \in Int
      BY <1>1, <2>4, AmountInFlight DEF Credit, InFlight
    <3>2. req.amount > 0
      BY <1>1, <2>4 DEF Credit, ValidInv
    <3>3. \A id \in DOMAIN accounts :
            accounts'[id].balance =
              IF id = req.credit THEN Int64(accounts[id].balance + req.amount)
                                 ELSE accounts[id].balance
      BY <2>1, <2>4, <3>1, CreditedAccounts DEF Credit
    <3>4. ASSUME NEW id \in DOMAIN accounts, accounts[id].balance >= 0,
                 ~(accounts[id].balance + req.amount > MaxBalance), id = req.credit
          PROVE  accounts'[id].balance >= 0
      <4>1. accounts[id].balance + req.amount \in 0 .. MaxBalance
        BY <2>1, <3>1, <3>2, <3>4
      <4>2. Int64(accounts[id].balance + req.amount) = accounts[id].balance + req.amount
        BY <2>1, <4>1, Int64Exact
      <4>3. QED
        BY <3>3, <3>4, <4>1, <4>2
    <3>5. epc = "credit"
      BY <2>4 DEF Credit
    <3>6. QED
      BY <3>3, <3>4, <3>5
  <2>5. CASE InsertAccount
    <3>1. pending.id \notin DOMAIN accounts
      BY <1>1, <2>5 DEF InsertAccount, NumInv, NumbersAreUnique
    <3>2. \A id \in DOMAIN accounts : accounts'[id] = accounts[id]
      BY <2>5, <3>1 DEF InsertAccount
    <3>3. QED
      BY <3>2
  <2>6. CASE Restart
    <3>1. DOMAIN accounts' = {}
      BY <2>6 DEF Restart
    <3>2. QED
      BY <3>1
  <2>7. CASE \/ TestRunning \/ PopRequest \/ ReplyFromCache \/ Validate \/ Log \/ Reply
             \/ CountTotal \/ CountWindow \/ CountLatency
    BY <2>2, <2>7
       DEF TestRunning, PopRequest, ReplyFromCache, Validate, Log, Reply,
           CountTotal, CountWindow, CountLatency, Count, ledger
  <2>8. CASE \/ \E r \in TransactionRequest : PushRequest(r)
             \/ \E name \in Names, type \in Types : ReserveAccountId(name, type)
             \/ PopReply \/ poll_metrics \/ shutdown
    BY <2>2, <2>8
       DEF PushRequest, ReserveAccountId, PopReply, poll_metrics, BeginSample, SampleCount,
         SampleLatency, Load,
           CheckInvariant, ResetCount, ResetLatency, Clear, shutdown, ledger
  <2>9. QED
    BY <1>1, <2>3, <2>4, <2>5, <2>6, <2>7, <2>8 DEF Next, run, create_account
<1>2. TInv /\ NumInv /\ ValidInv /\ [Next]_vars => [Safe]_vars
  BY <1>1
<1>3. QED
  BY <1>2, TInvInvariant, NumInvInvariant, ValidInvInvariant, PTL
     DEF Spec, AssetsNeverOverdrawn

-----------------------------------------------------------------------------
(* Requests and their replies *)

\* The requests side of the invariant: what is queued continues what is popped,
\* the n-th accepted request has correlation id n, and the consumer thread keeps
\* the last one it popped.
Queue == /\ Len(sent) = req.corr + Len(requests)
         /\ \A k \in 1 .. Len(requests) : requests[k] = sent[req.corr + k]
         /\ \A k \in 1 .. Len(sent) : sent[k].corr = k
         /\ req.corr # 0 => req = sent[req.corr]

\* The replies side: every request popped before this one has one answer.
Popped == IF InFlight THEN req.corr - 1 ELSE req.corr
Once == /\ Answered \cup delivered \cup lost = 1 .. Popped
        /\ \A j, k \in 1 .. Len(replies) : j < k => replies[j].corr < replies[k].corr
        /\ Answered \cap delivered = {} /\ Answered \cap lost = {}
        /\ delivered \cap lost = {}

QInv == Queue /\ Once

LEMMA InitQueues == Init => QInv
<1> SUFFICES ASSUME Init
             PROVE  QInv
  OBVIOUS
<1>1. Queue
  BY DEF Init, Queue, EmptyRequest
<1>2. Once
  <2>1. Answered = {} /\ Popped = 0
    BY DEF Init, Answered, Popped, InFlight, EmptyRequest
  <2>2. QED
    BY <2>1 DEF Init, Once
<1>3. QED
  BY <1>1, <1>2 DEF QInv

\* The lengths and correlation ids the steps below compute with.
LEMMA QueueTypes ==
  ASSUME TInv, QInv
  PROVE  /\ Len(sent) \in Nat /\ Len(requests) \in Nat /\ Len(replies) \in Nat
         /\ req.corr \in Nat /\ Len(sent) = req.corr + Len(requests)
         /\ InFlight => req.corr >= 1
         /\ \A k \in 1 .. Len(replies) : replies[k] \in Response /\ replies[k].corr \in Nat
<1>1. /\ sent \in Seq(TransactionRequest) /\ requests \in Seq(TransactionRequest)
      /\ replies \in Seq(Response) /\ req \in TransactionRequest \cup {EmptyRequest}
      /\ MaxRequests \in Nat
  BY BoundAssumption DEF TInv, TypeOK
<1>2. Len(sent) \in Nat /\ Len(requests) \in Nat /\ Len(replies) \in Nat
  BY <1>1, LenProperties
<1>3. req.corr \in Nat /\ (InFlight => req.corr >= 1)
  BY <1>1 DEF TInv, Control, TransactionRequest, EmptyRequest
<1>4. \A k \in 1 .. Len(replies) : replies[k] \in Response
  BY <1>1, ElementOfSeq
<1>5. \A reply \in Response : reply.corr \in Nat
  BY <1>1 DEF Response
<1>6. QED
  BY <1>2, <1>3, <1>4, <1>5 DEF QInv, Queue

\* Answering the request in flight, or losing its answer.
LEMMA AnswerStep ==
  ASSUME TInv, QInv, InFlight, ~InFlight', NEW reply \in Response,
         reply.corr = req.corr, PushReply(reply),
         UNCHANGED <<req, requests, sent, delivered>>
  PROVE  QInv'
<1>1. /\ Len(replies) \in Nat /\ req.corr \in Nat /\ req.corr >= 1
      /\ \A k \in 1 .. Len(replies) : replies[k].corr \in Nat
      /\ replies \in Seq(Response)
  BY QueueTypes DEF TInv, TypeOK
<1>2. /\ Answered \cup delivered \cup lost = 1 .. req.corr - 1
      /\ Answered \cap delivered = {} /\ Answered \cap lost = {}
      /\ delivered \cap lost = {}
  BY DEF QInv, Once, Popped
<1>3. \A j, k \in 1 .. Len(replies) : j < k => replies[j].corr < replies[k].corr
  BY DEF QInv, Once
<1>4. \A k \in 1 .. Len(replies) : replies[k].corr < req.corr
  <2>1. \A k \in 1 .. Len(replies) : replies[k].corr \in Answered
    BY DEF Answered
  <2>2. \A c \in 1 .. req.corr - 1 : c < req.corr
    BY <1>1
  <2>3. QED
    BY <1>2, <2>1, <2>2
<1>5. 1 .. req.corr = (1 .. req.corr - 1) \cup {req.corr} /\ req.corr \notin 1 .. req.corr - 1
  BY <1>1
<1>6. Queue'
  BY DEF QInv, Queue
<1>7. Popped' = req.corr /\ delivered' = delivered
  BY DEF Popped
<1>8. CASE replies' = Append(replies, reply) /\ UNCHANGED lost
  <2>1. replies' = Append(replies, reply) /\ lost' = lost
    BY <1>8
  <2>2. /\ Len(replies') = Len(replies) + 1
        /\ \A k \in 1 .. Len(replies) : replies'[k] = replies[k]
        /\ replies'[Len(replies) + 1] = reply
    BY <1>1, <2>1, AppendProperties
  <2>3. \A k : k \in 1 .. Len(replies') <=> k \in 1 .. Len(replies) \/ k = Len(replies) + 1
    BY <1>1, <2>2
  <2>4. Answered' = Answered \cup {req.corr}
    BY <2>2, <2>3 DEF Answered
  <2>5. \A j, k \in 1 .. Len(replies') : j < k => replies'[j].corr < replies'[k].corr
    <3> SUFFICES ASSUME NEW j \in 1 .. Len(replies'), NEW k \in 1 .. Len(replies'), j < k
                 PROVE  replies'[j].corr < replies'[k].corr
      OBVIOUS
    <3>1. j \in 1 .. Len(replies)
      BY <1>1, <2>2
    <3>2. CASE k = Len(replies) + 1
      BY <1>4, <2>2, <3>1, <3>2
    <3>3. CASE k \in 1 .. Len(replies)
      BY <1>3, <2>2, <3>1, <3>3
    <3>4. QED
      BY <2>3, <3>2, <3>3
  <2>6. Once'
    <3>1. Answered' \cup delivered' \cup lost' = 1 .. Popped'
      BY <1>2, <1>5, <1>7, <2>1, <2>4
    <3>2. /\ Answered' \cap delivered' = {} /\ Answered' \cap lost' = {}
          /\ delivered' \cap lost' = {}
      <4>1. req.corr \notin delivered /\ req.corr \notin lost
        BY <1>2, <1>5
      <4>2. lost' = lost
        BY <2>1
      <4>3. QED
        BY <1>2, <1>7, <2>4, <4>1, <4>2
    <3>3. QED
      BY <2>5, <3>1, <3>2 DEF Once
  <2>7. QED
    BY <1>6, <2>6 DEF QInv
<1>9. CASE lost' = lost \cup {reply.corr} /\ UNCHANGED replies
  <2>1. replies' = replies /\ lost' = lost \cup {req.corr} /\ Answered' = Answered
    BY <1>9 DEF Answered
  <2>2. req.corr \notin delivered /\ req.corr \notin Answered
    BY <1>2, <1>5
  <2>3. Answered' \cup delivered' \cup lost' = 1 .. Popped'
    BY <1>2, <1>5, <1>7, <2>1
  <2>4. Once'
    BY <1>2, <1>3, <1>7, <2>1, <2>2, <2>3 DEF Once
  <2>5. QED
    BY <1>6, <2>4 DEF QInv
<1>10. QED
  BY <1>8, <1>9 DEF PushReply

\* Accepting a request.
LEMMA AcceptStep ==
  ASSUME TInv, QInv, NEW r \in TransactionRequest, PushRequest(r)
  PROVE  QInv'
<1>1. /\ Len(sent) \in Nat /\ Len(requests) \in Nat /\ req.corr \in Nat
      /\ Len(sent) = req.corr + Len(requests)
      /\ requests \in Seq(TransactionRequest) /\ sent \in Seq(TransactionRequest)
  BY QueueTypes DEF TInv, TypeOK
<1>2. sent' = Append(sent, r) /\ requests' = Append(requests, r) /\ r.corr = Len(sent) + 1
  BY DEF PushRequest
<1>3. UNCHANGED <<req, replies, delivered, lost, epc>>
  BY DEF PushRequest, engine
<1>4. /\ Len(sent') = Len(sent) + 1 /\ sent'[Len(sent) + 1].corr = Len(sent) + 1
      /\ sent'[Len(sent) + 1] = r
      /\ \A k \in 1 .. Len(sent) : sent'[k] = sent[k]
  BY <1>1, <1>2, AppendProperties
<1>5. /\ Len(requests') = Len(requests) + 1 /\ requests'[Len(requests) + 1] = r
      /\ \A k \in 1 .. Len(requests) : requests'[k] = requests[k]
  BY <1>1, <1>2, AppendProperties
<1>6. /\ \A k \in 1 .. Len(requests) : requests[k] = sent[req.corr + k]
      /\ \A k \in 1 .. Len(sent) : sent[k].corr = k
      /\ req.corr # 0 => req = sent[req.corr]
  BY DEF QInv, Queue
<1>7. \A k \in 1 .. Len(requests') : requests'[k] = sent'[req.corr + k]
  <2> SUFFICES ASSUME NEW k \in 1 .. Len(requests')
               PROVE  requests'[k] = sent'[req.corr + k]
    OBVIOUS
  <2>1. CASE k \in 1 .. Len(requests)
    <3>1. req.corr + k \in 1 .. Len(sent)
      BY <1>1, <2>1
    <3>2. QED
      BY <1>4, <1>5, <1>6, <2>1, <3>1
  <2>2. CASE k = Len(requests) + 1
    <3>1. req.corr + k = Len(sent) + 1
      <4>1. /\ Len(sent) \in Nat /\ Len(requests) \in Nat /\ req.corr \in Nat
            /\ Len(sent) = req.corr + Len(requests)
        BY <1>1
      <4>2. QED
        BY <4>1, <2>2
    <3>2. QED
      BY <1>4, <1>5, <2>2, <3>1
  <2>3. k \in 1 .. Len(requests) \/ k = Len(requests) + 1
    BY <1>1, <1>5
  <2>4. QED
    BY <2>1, <2>2, <2>3
<1>8. \A k \in 1 .. Len(sent') : sent'[k].corr = k
  <2> SUFFICES ASSUME NEW k \in 1 .. Len(sent')
               PROVE  sent'[k].corr = k
    OBVIOUS
  <2>1. k \in 1 .. Len(sent) \/ k = Len(sent) + 1
    BY <1>1, <1>4
  <2>2. QED
    BY <1>4, <1>6, <2>1
<1>9. req.corr # 0 => req = sent'[req.corr]
  <2>1. req.corr # 0 => req.corr \in 1 .. Len(sent)
    BY <1>1
  <2>2. QED
    BY <1>4, <1>6, <2>1
<1>10. Len(sent') = req.corr + Len(requests')
  BY <1>1, <1>4, <1>5
<1>11. Queue'
  BY <1>3, <1>7, <1>8, <1>9, <1>10 DEF Queue
<1>12. Once'
  <2>1. Answered' = Answered /\ Popped' = Popped
    BY <1>3 DEF Answered, Popped, InFlight
  <2>2. QED
    BY <1>3, <2>1 DEF QInv, Once
<1>13. QED
  BY <1>11, <1>12 DEF QInv

\* Popping a request.
LEMMA PopStep ==
  ASSUME TInv, QInv, PopRequest, requests # <<>>
  PROVE  QInv'
<1>1. /\ Len(sent) \in Nat /\ Len(requests) \in Nat /\ req.corr \in Nat
      /\ Len(sent) = req.corr + Len(requests)
      /\ requests \in Seq(TransactionRequest)
  BY QueueTypes DEF TInv, TypeOK
<1>2. /\ req' = Head(requests) /\ requests' = Tail(requests)
      /\ ~InFlight /\ InFlight'
  BY DEF PopRequest, InFlight
<1>3. UNCHANGED <<replies, sent, delivered, lost>>
  BY DEF PopRequest, history
<1>4. Head(requests) = requests[1]
  BY <1>1
<1>5. /\ Len(requests') = Len(requests) - 1
      /\ \A k \in 1 .. Len(requests) - 1 : requests'[k] = requests[k + 1]
  BY <1>1, <1>2, HeadTailProperties
<1>6. Len(requests) >= 1
  BY <1>1, EmptySeq
<1>7. /\ \A k \in 1 .. Len(requests) : requests[k] = sent[req.corr + k]
      /\ \A k \in 1 .. Len(sent) : sent[k].corr = k
  BY DEF QInv, Queue
<1>8. req' = sent[req.corr + 1] /\ req'.corr = req.corr + 1
  <2>1. 1 \in 1 .. Len(requests) /\ req.corr + 1 \in 1 .. Len(sent)
    BY <1>1, <1>6
  <2>2. QED
    BY <1>2, <1>4, <1>7, <2>1
<1>9. \A k \in 1 .. Len(requests') : requests'[k] = sent[req'.corr + k]
  <2> SUFFICES ASSUME NEW k \in 1 .. Len(requests')
               PROVE  requests'[k] = sent[req'.corr + k]
    OBVIOUS
  <2>1. k + 1 \in 1 .. Len(requests) /\ k \in 1 .. Len(requests) - 1
    BY <1>1, <1>5
  <2>2. req.corr + (k + 1) = req'.corr + k
    BY <1>1, <1>8, <2>1
  <2>3. QED
    BY <1>5, <1>7, <2>1, <2>2
<1>10. Len(sent) = req'.corr + Len(requests')
  BY <1>1, <1>5, <1>8
<1>11. Queue'
  BY <1>3, <1>7, <1>8, <1>9, <1>10 DEF Queue
<1>12. Once'
  <2>1. Answered' = Answered
    BY <1>3 DEF Answered
  <2>2. Popped' = Popped
    BY <1>1, <1>2, <1>8 DEF Popped
  <2>3. QED
    BY <1>3, <2>1, <2>2 DEF QInv, Once
<1>13. QED
  BY <1>11, <1>12 DEF QInv

\* Delivering a reply.
LEMMA DeliverStep ==
  ASSUME TInv, QInv, PopReply
  PROVE  QInv'
<1>1. /\ Len(replies) \in Nat /\ replies \in Seq(Response) /\ replies # <<>>
      /\ \A k \in 1 .. Len(replies) : replies[k].corr \in Nat
  BY QueueTypes DEF TInv, TypeOK, PopReply
<1>2. /\ replies' = Tail(replies)
      /\ delivered' = delivered \cup {Head(replies).corr}
      /\ UNCHANGED <<req, requests, sent, lost, epc>>
  BY DEF PopReply, engine
<1>3. Head(replies) = replies[1]
  BY <1>1
<1>4. /\ Len(replies') = Len(replies) - 1
      /\ \A k \in 1 .. Len(replies) - 1 : replies'[k] = replies[k + 1]
  BY <1>1, <1>2, HeadTailProperties
<1>5. Len(replies) >= 1
  BY <1>1, EmptySeq
<1>6. \A j, k \in 1 .. Len(replies) : j < k => replies[j].corr < replies[k].corr
  BY DEF QInv, Once
<1>7. ASSUME NEW k \in 1 .. Len(replies')
      PROVE  /\ k + 1 \in 2 .. Len(replies) /\ replies'[k] = replies[k + 1]
             /\ replies'[k].corr # replies[1].corr
  <2>1. k \in 1 .. Len(replies) - 1 /\ k + 1 \in 2 .. Len(replies)
    BY <1>1, <1>4
  <2>2. 1 \in 1 .. Len(replies) /\ k + 1 \in 1 .. Len(replies) /\ 1 < k + 1
    BY <1>5, <1>1, <2>1
  <2>3. replies[1].corr < replies[k + 1].corr
    BY <1>6, <2>2
  <2>4. QED
    BY <1>1, <1>4, <2>1, <2>2, <2>3
<1>8. Answered = Answered' \cup {replies[1].corr}
  <2>1. ASSUME NEW k \in 1 .. Len(replies), k # 1
        PROVE  replies[k].corr \in Answered'
    <3>1. k - 1 \in 1 .. Len(replies') /\ (k - 1) + 1 = k
      BY <1>1, <1>4, <2>1
    <3>2. replies'[k - 1] = replies[k]
      BY <1>7, <3>1
    <3>3. QED
      BY <3>1, <3>2 DEF Answered
  <2>2. ASSUME NEW k \in 1 .. Len(replies')
        PROVE  replies'[k].corr \in Answered
    <3>1. k + 1 \in 1 .. Len(replies) /\ replies'[k] = replies[k + 1]
      BY <1>1, <1>7
    <3>2. QED
      BY <3>1 DEF Answered
  <2>3. 1 \in 1 .. Len(replies)
    BY <1>1, <1>5
  <2>4. QED
    BY <2>1, <2>2, <2>3 DEF Answered
<1>9. replies[1].corr \notin Answered'
  BY <1>7 DEF Answered
<1>10. \A j, k \in 1 .. Len(replies') : j < k => replies'[j].corr < replies'[k].corr
  <2> SUFFICES ASSUME NEW j \in 1 .. Len(replies'), NEW k \in 1 .. Len(replies'), j < k
               PROVE  replies'[j].corr < replies'[k].corr
    OBVIOUS
  <2>1. /\ j + 1 \in 1 .. Len(replies) /\ replies'[j] = replies[j + 1]
        /\ k + 1 \in 1 .. Len(replies) /\ replies'[k] = replies[k + 1]
    BY <1>1, <1>7
  <2>2. j + 1 < k + 1
    OBVIOUS
  <2>3. QED
    BY <1>6, <2>1, <2>2
<1>11. Queue'
  BY <1>2 DEF QInv, Queue
<1>12. Once'
  <2>1. Popped' = Popped
    BY <1>2 DEF Popped, InFlight
  <2>2. /\ Answered \cup delivered \cup lost = 1 .. Popped
        /\ Answered \cap delivered = {} /\ Answered \cap lost = {}
        /\ delivered \cap lost = {}
    BY DEF QInv, Once
  <2>3. delivered' = delivered \cup {replies[1].corr} /\ lost' = lost
    BY <1>2, <1>3
  <2>4. QED
    BY <1>8, <1>9, <1>10, <2>1, <2>2, <2>3 DEF Once
<1>13. QED
  BY <1>11, <1>12 DEF QInv

LEMMA QueuesStep == TInv /\ QInv /\ [Next]_vars => QInv'
<1> SUFFICES ASSUME TInv, QInv, [Next]_vars
             PROVE  QInv'
  OBVIOUS
<1>0. ASSUME UNCHANGED <<req, requests, replies, sent, delivered, lost>>,
             InFlight' = InFlight
      PROVE  QInv'
  <2>1. Queue'
    BY <1>0 DEF QInv, Queue
  <2>2. Answered' = Answered /\ Popped' = Popped
    BY <1>0 DEF Answered, Popped
  <2>3. Once'
    BY <1>0, <2>2 DEF QInv, Once
  <2>4. QED
    BY <2>1, <2>3 DEF QInv
<1>1. CASE PopRequest
  <2>1. CASE requests = <<>>
    <3>1. UNCHANGED <<req, requests, replies, sent, delivered, lost>>
      BY <1>1, <2>1 DEF PopRequest, history
    <3>2. InFlight' = InFlight
      BY <1>1, <2>1 DEF PopRequest, InFlight
    <3>3. QED
      BY <1>0, <3>1, <3>2
  <2>2. QED
    BY <1>1, <2>1, PopStep
<1>2. CASE ReplyFromCache
  <2> DEFINE reply == [cache[req.key] EXCEPT !.corr = req.corr]
  <2>1. InFlight /\ ~InFlight' /\ UNCHANGED <<req, requests, sent, delivered>>
    BY <1>2 DEF ReplyFromCache, InFlight
  <2>2. /\ req.key \in DOMAIN cache /\ cache[req.key] \in Response
        /\ req.corr \in 1 .. MaxRequests
    BY <1>2, <2>1 DEF ReplyFromCache, TInv, TypeOK, Control, TransactionRequest
  <2>3. reply \in Response /\ reply.corr = req.corr
    BY <2>2 DEF Response
  <2>4. QED
    BY <1>2, <2>1, <2>3, AnswerStep DEF ReplyFromCache
<1>3. CASE Reply
  <2> DEFINE reply == [corr |-> req.corr, tx |-> tx_id, status |-> status]
  <2>1. InFlight /\ ~InFlight' /\ UNCHANGED <<req, requests, sent, delivered>>
    BY <1>3 DEF Reply, InFlight
  <2>2. reply \in Response /\ reply.corr = req.corr
    BY <2>1 DEF TInv, TypeOK, Control, Response, TransactionRequest
  <2>3. QED
    BY <1>3, <2>1, <2>2, AnswerStep DEF Reply
<1>4. CASE Restart
  <2>1. Queue'
    BY <1>4 DEF Restart, Queue, EmptyRequest
  <2>2. Answered' = {} /\ Popped' = 0
    BY <1>4 DEF Restart, Answered, Popped, InFlight, EmptyRequest
  <2>3. Once'
    BY <1>4, <2>2 DEF Restart, Once
  <2>4. QED
    BY <2>1, <2>3 DEF QInv
<1>5. CASE \/ TestRunning \/ Validate \/ Log \/ Debit \/ Credit
           \/ CountTotal \/ CountWindow \/ CountLatency
  BY <1>0, <1>5
     DEF TestRunning, Validate, Log, Debit, Credit, CountTotal, CountWindow,
         CountLatency, Count, history, InFlight
<1>6. CASE create_account \/ poll_metrics \/ shutdown \/ UNCHANGED vars
  BY <1>0, <1>6
     DEF create_account, ReserveAccountId, InsertAccount, poll_metrics, BeginSample, SampleCount,
         SampleLatency, Load,
         CheckInvariant, ResetCount, ResetLatency, Clear, shutdown, vars, engine, history,
         InFlight
<1>7. QED
  BY <1>1, <1>2, <1>3, <1>4, <1>5, <1>6, AcceptStep, DeliverStep DEF Next, run

LEMMA QInvInvariant == Spec => []QInv
BY InitQueues, QueuesStep, TInvInvariant, PTL DEF Spec

\* No accepted request is forgotten, reordered or answered twice.
THEOREM RequestsAccountedForHolds == Spec => []RequestsAccountedFor
<1>1. QInv => RequestsAccountedFor
  BY DEF QInv, Queue, Once, Popped, RequestsAccountedFor
<1>2. QED
  BY <1>1, QInvInvariant, PTL

-----------------------------------------------------------------------------
(* The metrics window *)

\* What the metrics counters of a step are, and who leaves them alone.
Metering == CountTotal \/ CountWindow \/ CountLatency \/ Reply \/ poll_metrics \/ Restart
LEMMA MeteringStep ==
  ASSUME Next, ~Metering
  PROVE  /\ UNCHANGED <<metrics, sampling>>
         /\ iopc' # iopc => {iopc, iopc'} \subseteq {"idle", "insert"}
<1> USE DEF Metering
<1>1. CASE TestRunning \/ PopRequest \/ ReplyFromCache \/ Validate \/ Log \/ Debit \/ Credit
  BY <1>1 DEF TestRunning, PopRequest, ReplyFromCache, Validate, Log, Debit, Credit,
              metrics, io
<1>2. CASE create_account
  BY <1>2 DEF create_account, ReserveAccountId, InsertAccount, metrics
<1>3. CASE \/ \E r \in TransactionRequest : PushRequest(r)
           \/ PopReply \/ shutdown
  BY <1>3 DEF PushRequest, PopReply, shutdown, metrics, io
<1>4. QED
  BY <1>1, <1>2, <1>3 DEF Next, run

\* Each counter of the window has its share of the transactions: one that was
\* replied is in it, owed to it, reported, or lost to a poll.
Owed(counter) == IF counter \in counting THEN 1 ELSE 0
WindowInv ==
  /\ sampled.count <= tx_window
  /\ \/ iopc \in {"idle", "insert"}
     \/ iopc = "sample" /\ "window" \in polling
     \/ iopc = "reset" /\ "window" \notin polling
     => sampled.count = 0
  /\ reported + (tx_window - sampled.count) + Owed("window") <= tx_total + Owed("total")

LEMMA InitWindow == Init => WindowInv
BY DEF Init, WindowInv, Owed, NoSample

LEMMA WindowStep == TInv /\ WindowInv /\ [Next]_vars => WindowInv'
<1> SUFFICES ASSUME TInv, WindowInv, [Next]_vars
             PROVE  WindowInv'
  OBVIOUS
<1> USE DEF WindowInv, Owed
<1>1. /\ {tx_total, tx_window, reported} \subseteq Nat
      /\ sampled \in [count : Nat, latency : Nat]
      /\ counting # {} => epc = "count"
  BY DEF TInv, TypeOK, Counting
<1>2. CASE Reply
  <2>1. counting = {} /\ counting' = {"total", "window", "latency"}
    BY <1>1, <1>2 DEF Reply, Window
  <2>2. UNCHANGED <<tx_total, tx_window, sampled, reported, iopc, polling>>
    BY <1>2 DEF Reply, io, sampling
  <2>3. QED
    BY <1>1, <2>1, <2>2
<1>3. CASE CountTotal
  <2>1. /\ "total" \in counting /\ counting' = counting \ {"total"}
        /\ tx_total' = tx_total + 1
        /\ UNCHANGED <<tx_window, sampled, reported, iopc, polling>>
    BY <1>3 DEF CountTotal, Count, io, sampling
  <2>2. QED
    BY <1>1, <2>1
<1>4. CASE CountWindow
  <2>1. /\ "window" \in counting /\ counting' = counting \ {"window"}
        /\ tx_window' = tx_window + 1
        /\ UNCHANGED <<tx_total, sampled, reported, iopc, polling>>
    BY <1>4 DEF CountWindow, Count, io, sampling
  <2>2. QED
    BY <1>1, <2>1
<1>5. CASE CountLatency
  <2>1. /\ "latency" \in counting /\ counting' = counting \ {"latency"}
        /\ UNCHANGED <<tx_total, tx_window, sampled, reported, iopc, polling>>
    BY <1>5 DEF CountLatency, Count, io, sampling
  <2>2. QED
    BY <1>1, <2>1
<1>6. CASE BeginSample
  <2>1. /\ sampled.count = 0 /\ iopc' = "sample"
        /\ UNCHANGED <<tx_total, tx_window, sampled, reported, counting>>
    BY <1>6 DEF BeginSample, metrics
  <2>2. QED
    BY <1>1, <2>1
<1>7. CASE SampleCount
  <2>1. /\ sampled.count = 0 /\ sampled'.count = tx_window
        /\ reported' = reported + tx_window
        /\ iopc' \in {"sample", "check"} /\ "window" \notin polling'
        /\ UNCHANGED <<tx_total, tx_window, counting>>
    BY <1>1, <1>7 DEF SampleCount, Load, metrics
  <2>2. QED
    BY <1>1, <2>1
<1>8. CASE SampleLatency
  <2>1. /\ iopc = "sample" /\ iopc' \in {"sample", "check"}
        /\ "window" \in polling' <=> "window" \in polling
        /\ sampled'.count = sampled.count
        /\ UNCHANGED <<tx_total, tx_window, reported, counting>>
    BY <1>1, <1>8 DEF SampleLatency, Load, metrics
  <2>2. QED
    BY <1>1, <2>1
<1>9. CASE CheckInvariant
  <2>1. /\ iopc' = "reset" /\ "window" \in polling'
        /\ UNCHANGED <<tx_total, tx_window, sampled, reported, counting>>
    BY <1>9 DEF CheckInvariant, metrics, Window
  <2>2. QED
    BY <1>1, <2>1
<1>10. CASE ResetCount
  <2>1. /\ tx_window' = 0 /\ sampled'.count = 0
        /\ UNCHANGED <<tx_total, reported, counting>>
    BY <1>1, <1>10 DEF ResetCount, Clear
  <2>2. QED
    BY <1>1, <2>1
<1>11. CASE ResetLatency
  <2>1. /\ iopc = "reset" /\ "latency" \in polling /\ polling' = polling \ {"latency"}
        /\ iopc' = IF polling' = {} THEN "idle" ELSE "reset"
        /\ sampled'.count = sampled.count
        /\ UNCHANGED <<tx_total, tx_window, reported, counting>>
    BY <1>1, <1>11 DEF ResetLatency, Clear
  <2>2. QED
    BY <1>1, <2>1
<1>12. CASE Restart
  BY <1>12 DEF Restart, NoSample
<1>13. CASE ~Metering
  <2>1. UNCHANGED <<metrics, sampling>> /\ (iopc' # iopc => iopc \in {"idle", "insert"})
    BY <1>13, MeteringStep DEF vars, metrics, io, sampling
  <2>2. QED
    BY <1>1, <2>1 DEF metrics, sampling
<1>14. QED
  BY <1>2, <1>3, <1>4, <1>5, <1>6, <1>7, <1>8, <1>9, <1>10, <1>11, <1>12, <1>13
     DEF Metering, poll_metrics

\* No transaction is reported by two metrics polls.
THEOREM NoDoubleReportHolds == Spec => []NoDoubleReport
<1>1. TInv /\ WindowInv => NoDoubleReport
  <2> SUFFICES ASSUME TInv, WindowInv
               PROVE  NoDoubleReport
    OBVIOUS
  <2>1. {tx_total, tx_window, reported} \subseteq Nat /\ sampled.count \in Nat
    BY DEF TInv, TypeOK
  <2>2. QED
    BY <2>1 DEF WindowInv, NoDoubleReport, Processed, Owed
<1>2. QED
  BY <1>1, InitWindow, WindowStep, TInvInvariant, PTL DEF Spec

\* What the products below come to.
LEMMA Latencies ==
  ASSUME NEW n \in Nat
  PROVE  /\ MaxLatency \in Nat /\ MaxLatency * n \in Nat
         /\ MaxLatency * (n + 1) = MaxLatency * n + MaxLatency
         /\ n >= 1 => MaxLatency <= MaxLatency * n
<1>1. /\ MaxLatency \in Nat /\ MaxLatency * n \in Nat
      /\ MaxLatency * (n + 1) = MaxLatency * n + MaxLatency
  BY BoundAssumption
<1>2. ASSUME n >= 1
      PROVE  MaxLatency <= MaxLatency * n
  <2>1. n - 1 \in Nat /\ (n - 1) + 1 = n
    BY <1>2
  <2>2. MaxLatency * ((n - 1) + 1) = MaxLatency * (n - 1) + MaxLatency
    BY <1>1, <2>1
  <2>3. MaxLatency * (n - 1) \in Nat
    BY <1>1, <2>1
  <2>4. QED
    BY <1>1, <2>1, <2>2, <2>3
<1>3. QED
  BY <1>1, <1>2

\* Until a poll clears it, what a counter holds and what it is still owed is of
\* transactions that were not counted in full when the poll before that began to.
Recent == Processed - window_start
Most == MaxLatency * Recent
Due(counter) == IF counter \in counting THEN MaxLatency ELSE 0
RecentInv ==
  /\ Recent >= 0 /\ (counting # {} => Recent >= 1)
  /\ ~(iopc = "reset" /\ "window" \in polling) => tx_window + Owed("window") <= Recent
  /\ ~(iopc = "reset" /\ "latency" \in polling) => lat_window + Due("latency") <= Most
  /\ \/ iopc \in {"idle", "insert"}
     \/ iopc = "reset" /\ "window" \notin polling
     => sampled.count = 0
  /\ \/ iopc \in {"idle", "insert"}
     \/ iopc = "reset" /\ "latency" \notin polling
     => sampled.latency = 0
  /\ iopc \in {"sample", "check"} => sampled.count <= Recent /\ sampled.latency <= Most

LEMMA InitRecent == Init => RecentInv
<1>1. Init => Recent = 0
  BY DEF Init, Recent, Processed
<1>2. MaxLatency * 0 = 0
  BY Bounds
<1>3. QED
  BY <1>1, <1>2 DEF Init, RecentInv, Most, Owed, Due, NoSample

LEMMA RecentTypes ==
  ASSUME TInv, RecentInv
  PROVE  /\ tx_total \in Nat /\ tx_window \in Nat /\ lat_window \in Nat
         /\ window_start \in Nat /\ Processed \in Nat
         /\ sampled \in [count : Nat, latency : Nat]
         /\ counting \subseteq {"total", "window", "latency"}
         /\ polling \subseteq Window
         /\ Recent \in Nat /\ (counting # {} => Recent >= 1)
         /\ MaxLatency \in Nat /\ Most \in Nat
         /\ Recent >= 1 => MaxLatency <= Most
<1>1. /\ tx_total \in Nat /\ tx_window \in Nat /\ lat_window \in Nat
      /\ window_start \in Nat
      /\ sampled \in [count : Nat, latency : Nat] /\ polling \subseteq Window
  BY DEF TInv, TypeOK
<1>2. counting \subseteq {"total", "window", "latency"}
  BY DEF TInv, TypeOK, Window
<1>3. Processed \in Nat
  BY <1>1 DEF Processed
<1>4. Recent \in Nat /\ (counting # {} => Recent >= 1)
  BY <1>1, <1>3 DEF RecentInv, Recent
<1>5. MaxLatency \in Nat /\ Most \in Nat /\ (Recent >= 1 => MaxLatency <= Most)
  BY <1>4, Latencies DEF Most
<1>6. QED
  BY <1>1, <1>2, <1>3, <1>4, <1>5

\* A poll's steps, and those of the consumer thread that finish counting.
LEMMA CountedStep ==
  ASSUME TInv, RecentInv, Recent' = Recent,
         CountTotal \/ CountWindow \/ CountLatency
  PROVE  RecentInv'
<1>1. Most' = Most
  BY DEF Most
<1>2. UNCHANGED <<sampled, iopc, polling>>
  BY DEF CountTotal, CountWindow, CountLatency, Count, io, sampling
<1>3. CASE CountTotal
  <2>1. counting' = counting \ {"total"} /\ UNCHANGED <<tx_window, lat_window>>
    BY <1>3 DEF CountTotal, Count
  <2>2. QED
    BY <1>1, <1>2, <2>1 DEF RecentInv, Owed, Due
<1>4. CASE CountWindow
  <2>1. /\ "window" \in counting /\ counting' = counting \ {"window"}
        /\ tx_window' = tx_window + 1 /\ lat_window' = lat_window
    BY <1>4 DEF CountWindow, Count
  <2>2. QED
    BY <1>1, <1>2, <2>1, RecentTypes DEF RecentInv, Owed, Due
<1>5. CASE CountLatency
  <2>1. /\ "latency" \in counting /\ counting' = counting \ {"latency"}
        /\ tx_window' = tx_window
    BY <1>5 DEF CountLatency, Count
  <2>2. PICK latency \in 0 .. MaxLatency : lat_window' = lat_window + latency
    BY <1>5 DEF CountLatency
  <2>3. latency \in Nat /\ latency <= MaxLatency
    BY <2>2, Bounds
  <2>4. lat_window' <= lat_window + MaxLatency
    BY <2>2, <2>3, RecentTypes
  <2>5. QED
    BY <1>1, <1>2, <2>1, <2>2, <2>3, <2>4, RecentTypes DEF RecentInv, Owed, Due
<1>6. QED
  BY <1>3, <1>4, <1>5

LEMMA RecentStep == TInv /\ RecentInv /\ [Next]_vars => RecentInv'
<1> SUFFICES ASSUME TInv, RecentInv, [Next]_vars
             PROVE  RecentInv'
  OBVIOUS
<1>1. CASE Reply
  <2>1. counting = {} /\ counting' = {"total", "window", "latency"}
        /\ UNCHANGED <<tx_total, tx_window, lat_window, sampled, iopc, polling, window_start>>
    BY <1>1 DEF Reply, Window, io, sampling, TInv, Counting
  <2>2. Recent' = Recent + 1
    BY <2>1, RecentTypes DEF Recent, Processed
  <2>3. Most' = Most + MaxLatency
    BY <2>2, RecentTypes, Latencies DEF Most
  <2>4. QED
    BY <2>1, <2>2, <2>3, RecentTypes DEF RecentInv, Owed, Due
<1>2. CASE CountTotal \/ CountWindow \/ CountLatency
  <2>1. Recent' = Recent
    BY <1>2, RecentTypes
       DEF CountTotal, CountWindow, CountLatency, Count, Recent, Processed, io, sampling
  <2>2. QED
    BY <1>2, <2>1, CountedStep
<1>3. CASE BeginSample \/ SampleCount \/ SampleLatency
  <2>1. UNCHANGED <<metrics, window_start>> /\ Recent' = Recent /\ Most' = Most
    BY <1>3 DEF BeginSample, SampleCount, SampleLatency, Load, metrics, Recent, Most,
                Processed
  <2>2. CASE BeginSample
    <3>1. /\ iopc = "idle" /\ iopc' = "sample" /\ sampled' = sampled
      BY <2>2 DEF BeginSample
    <3>2. QED
      BY <2>1, <3>1, RecentTypes DEF RecentInv, metrics, Owed, Due
  <2>3. CASE SampleCount
    <3>1. /\ iopc = "sample" /\ iopc' \in {"sample", "check"}
          /\ sampled'.count = tx_window /\ sampled'.latency = sampled.latency
      BY <2>3, RecentTypes DEF SampleCount, Load
    <3>2. tx_window <= Recent
      BY <3>1, RecentTypes DEF RecentInv, Owed
    <3>3. QED
      BY <2>1, <3>1, <3>2, RecentTypes DEF RecentInv, metrics, Owed, Due
  <2>4. CASE SampleLatency
    <3>1. /\ iopc = "sample" /\ iopc' \in {"sample", "check"}
          /\ sampled'.latency = lat_window /\ sampled'.count = sampled.count
      BY <2>4, RecentTypes DEF SampleLatency, Load
    <3>2. lat_window <= Most
      BY <3>1, RecentTypes DEF RecentInv, Due
    <3>3. QED
      BY <2>1, <3>1, <3>2, RecentTypes DEF RecentInv, metrics, Owed, Due
  <2>5. QED
    BY <1>3, <2>2, <2>3, <2>4
<1>4. CASE CheckInvariant
  <2>1. /\ iopc' = "reset" /\ polling' = {"window", "latency"}
        /\ window_start' = IF counting = {} THEN Processed ELSE Processed - 1
        /\ UNCHANGED metrics
    BY <1>4 DEF CheckInvariant, Window
  <2>2. Recent' = IF counting = {} THEN 0 ELSE 1
    BY <2>1, RecentTypes DEF Recent, Processed, metrics
  <2>3. QED
    BY <2>1, <2>2 DEF RecentInv, metrics
<1>5. CASE ResetCount \/ ResetLatency
  <2>1. UNCHANGED <<tx_total, counting, window_start>> /\ Recent' = Recent /\ Most' = Most
    BY <1>5 DEF ResetCount, ResetLatency, Clear, Recent, Most, Processed
  <2>2. CASE ResetCount
    <3>1. /\ iopc = "reset" /\ polling' = polling \ {"window"}
          /\ iopc' = IF polling' = {} THEN "idle" ELSE "reset"
          /\ tx_window' = 0 /\ lat_window' = lat_window
          /\ sampled'.count = 0 /\ sampled'.latency = sampled.latency
      BY <2>2, RecentTypes DEF ResetCount, Clear
    <3>2. QED
      BY <2>1, <3>1, RecentTypes DEF RecentInv, Owed, Due
  <2>3. CASE ResetLatency
    <3>1. /\ iopc = "reset" /\ polling' = polling \ {"latency"}
          /\ iopc' = IF polling' = {} THEN "idle" ELSE "reset"
          /\ lat_window' = 0 /\ tx_window' = tx_window
          /\ sampled'.latency = 0 /\ sampled'.count = sampled.count
      BY <2>3, RecentTypes DEF ResetLatency, Clear
    <3>2. QED
      BY <2>1, <3>1, RecentTypes DEF RecentInv, Owed, Due
  <2>4. QED
    BY <1>5, <2>2, <2>3
<1>6. CASE Restart
  <2>1. Recent' = 0
    BY <1>6 DEF Restart, Recent, Processed
  <2>2. Most' = 0
    BY <2>1, Bounds DEF Most
  <2>3. QED
    BY <1>6, <2>1, <2>2 DEF Restart, RecentInv, Owed, Due, NoSample
<1>7. CASE ~Metering /\ Next
  <2>1. /\ UNCHANGED <<metrics, sampling>>
        /\ iopc' # iopc => {iopc, iopc'} \subseteq {"idle", "insert"}
    BY <1>7, MeteringStep
  <2>2. Recent' = Recent /\ Most' = Most
    BY <2>1 DEF metrics, sampling, Recent, Most, Processed
  <2>3. QED
    BY <2>1, <2>2 DEF metrics, sampling, RecentInv, Owed, Due
<1>8. CASE UNCHANGED vars
  BY <1>8 DEF vars, metrics, io, sampling, RecentInv, Recent, Most, Processed, Owed, Due
<1>9. QED
  BY <1>1, <1>2, <1>3, <1>4, <1>5, <1>6, <1>7, <1>8 DEF Metering, poll_metrics

\* A metrics sample is about recent transactions only, in whatever order the
\* relaxed counters are bumped, loaded and cleared.
THEOREM SampleIsRecentHolds == Spec => []SampleIsRecent
<1>1. RecentInv => SampleIsRecent
  BY DEF RecentInv, SampleIsRecent, Recent, Most
<1>2. QED
  BY <1>1, InitRecent, RecentStep, TInvInvariant, PTL DEF Spec

==============================================================================

---------------------------- MODULE LedgerEngine ----------------------------
(***************************************************************************)
(* The ledger state machine of engine/src/ledger.cpp and the two threads   *)
(* that use it: the consumer thread inside run(), one action per step      *)
(* another thread can observe, and the ZMQ I/O thread, which feeds the     *)
(* request queue, drains the reply queue, creates accounts and polls       *)
(* metrics.  The main thread may call shutdown(), and the process may die  *)
(* at any step and be started again on the same write-ahead log.           *)
(*                                                                         *)
(* The queues are the bounded FIFOs SPSCRingBuffer implements.  A frame    *)
(* appended to the log is durable at once (WriteAheadLog says when that    *)
(* is so).  Steps of the consumer thread on state that only it touches     *)
(* are folded into the neighbouring step.  The metrics counters are relaxed*)
(* atomics: accesses of one thread to different ones take place in any     *)
(* order between two of its acquire and release operations.                *)
(***************************************************************************)
EXTENDS Integers, Sequences, FiniteSets, Functions

CONSTANTS
  Names,          \* account names
  Types,          \* account types sent by clients (see AccountTypes)
  RequestIds,     \* account numbers a request may name
  Keys,           \* non-empty idempotency keys
  NoKey,          \* the empty idempotency key
  Amounts,        \* amounts a request may carry
  MaxBalance,     \* the largest int64_t
  MaxLatency,     \* the longest time a transaction takes, in microseconds
  QueueCapacity,  \* how many items each of the two queues can hold
  MaxRequests,    \* bound: requests accepted in one life of the process
  IdBound,        \* bound: account numbers are below it
  MaxPolls,       \* bound: metrics polls in one life of the process
  MaxLives        \* bound: starts of the process

ASSUME BalanceAssumption == MaxBalance \in Nat
ASSUME AmountAssumption == \A a \in Amounts : a \in Int /\ a <= MaxBalance
ASSUME KeyAssumption == NoKey \notin Keys
ASSUME BoundAssumption ==
  /\ QueueCapacity \in Nat \ {0}
  /\ {MaxLatency, MaxRequests, IdBound, MaxPolls, MaxLives} \subseteq Nat
ASSUME IdAssumption == RequestIds \subseteq Nat

VARIABLES
  \* shared between the threads
  running,       \* running_
  accounts,      \* accounts_
  uuid_counter,  \* uuid_counter_
  requests,      \* request_queue, oldest first
  replies,       \* reply_queue, oldest first
  tx_total,      \* tx_count_total_
  tx_window,     \* tx_count_window_
  lat_window,    \* total_latency_us_window_
  counting,      \* the counters the consumer thread is about to add to
  \* the consumer thread
  epc,           \* where it is inside run()
  req,           \* its local req
  status,        \* its local status
  tx_id,         \* its local tx_id
  cache,         \* idempotency_cache_
  \* the I/O thread
  iopc,          \* the operation it is inside
  pending,       \* the account create_account is about to insert
  polling,       \* the window counters a poll has yet to load, or to clear
  sampled,       \* what get_metrics_sample has loaded of them
  \* the write-ahead log
  wal,           \* its frames
  replayed,      \* how many of them replay() found at the last start
  \* history, for the properties and the bounds
  sent,          \* the requests accepted in this life
  delivered,     \* correlation ids of the replies taken from the queue
  lost,          \* correlation ids of the replies the full queue refused
  reported,      \* transactions reported by metrics polls
  window_start,  \* transactions counted in full when a poll last began to clear the window
  polls,         \* metrics polls begun in this life
  life           \* how many times the process was started

ledger == <<accounts, cache, wal, replayed>>
engine == <<epc, req, status, tx_id>>
metrics == <<tx_total, tx_window, lat_window, counting>>
sampling == <<polling, sampled, reported, window_start, polls>>
io == <<iopc, pending, sampling>>
history == <<sent, delivered, lost>>
vars == <<running, ledger, uuid_counter, requests, replies, metrics, engine,
          io, history, life>>

\* AccountType; a client may also send a byte that names none of them.
AccountTypes ==
  {"Asset", "Liability", "Equity", "Revenue", "Expense", "Unknown"}

ASSUME TypeAssumption == Types \subseteq AccountTypes

TransactionRequest ==
  [corr : 1 .. MaxRequests, key : Keys \cup {NoKey},
   debit : RequestIds, credit : RequestIds, amount : Amounts]

\* transaction_id: zero (NoTxId here) unless the transaction was committed.
NoTxId == -1

TxStatus ==
  {"OK", "ERR_INSUFFICIENT_FUNDS", "ERR_ACCOUNT_NOT_FOUND", "ERR_INTERNAL"}

\* What the consumer thread holds before its first pop.
EmptyRequest == [corr |-> 0, key |-> NoKey, debit |-> 0, credit |-> 0, amount |-> 0]

\* The value a sum has in an int64_t.
Int64(x) == ((x + MaxBalance + 1) % (2 * MaxBalance + 2)) - (MaxBalance + 1)

\* The counters of a metrics window, and what a poll reads from them.
Window == {"window", "latency"}
NoSample == [count |-> 0, latency |-> 0]

\* Mutant: apply_transaction locks for each of its two statements.
LockedPerStatement == TRUE

\* accounts_mutex_ is held across steps only between the debit and the credit.
AccountsMutexFree == epc # "credit"

-----------------------------------------------------------------------------
Init ==
  /\ running = TRUE
  /\ accounts = <<>> /\ cache = <<>>
  /\ uuid_counter = 0
  /\ requests = <<>> /\ replies = <<>>
  /\ tx_total = 0 /\ tx_window = 0 /\ lat_window = 0 /\ counting = {}
  /\ epc = "top" /\ req = EmptyRequest /\ status = "OK" /\ tx_id = NoTxId
  /\ iopc = "idle" /\ pending = <<>> /\ polling = {} /\ sampled = NoSample
  /\ wal = <<>> /\ replayed = 0
  /\ sent = <<>> /\ delivered = {} /\ lost = {}
  /\ reported = 0 /\ window_start = 0 /\ polls = 0
  /\ life = 1

(* The consumer thread: run() *)

\* while (running_.load())
TestRunning ==
  /\ epc = "top"
  /\ epc' = IF running THEN "pop" ELSE "stopped"
  /\ UNCHANGED <<running, ledger, uuid_counter, requests, replies, metrics,
                 req, status, tx_id, io, history, life>>

\* Mutant: the idempotency cache is not consulted.
PopWithoutLookup ==
  /\ epc = "pop"
  /\ IF requests = <<>>
       THEN epc' = "top" /\ UNCHANGED <<requests, req>>
       ELSE req' = Head(requests) /\ requests' = Tail(requests) /\ epc' = "validate"
  /\ UNCHANGED <<running, ledger, uuid_counter, replies, metrics,
                 status, tx_id, io, history, life>>

\* request_queue.pop(req) and, when it yields one, idempotency_cache_.find
PopRequest ==
  /\ epc = "pop"
  /\ IF requests = <<>>
       THEN epc' = "top" /\ UNCHANGED <<requests, req>>
       ELSE /\ req' = Head(requests)
            /\ requests' = Tail(requests)
            /\ epc' = IF req'.key \in DOMAIN cache THEN "replay" ELSE "validate"
  /\ UNCHANGED <<running, ledger, uuid_counter, replies, metrics,
                 status, tx_id, io, history, life>>

\* Mutant: the reply queue has no limit.
PushReplyUnbounded(reply) ==
  replies' = Append(replies, reply) /\ UNCHANGED lost

\* Mutant: the engine waits until the reply fits.
PushReplyWaiting(reply) ==
  Len(replies) < QueueCapacity /\ replies' = Append(replies, reply) /\ UNCHANGED lost

\* Every place has been used since the start: a push that has not yet seen the
\* pops takes the queue for full, whether it is or not.
MayLookFull(pushed) == pushed >= QueueCapacity

\* reply_queue.push: the result is ignored, a reply that does not fit is lost.
PushReply(reply) ==
  \/ /\ Len(replies) < QueueCapacity
     /\ replies' = Append(replies, reply)
     /\ UNCHANGED lost
  \/ /\ MayLookFull(Cardinality(delivered) + Len(replies))
     /\ lost' = lost \cup {reply.corr}
     /\ UNCHANGED replies

\* Mutant: the missing `continue': the request is processed all the same.
ReplyFromCacheAndGoOn ==
  /\ epc = "replay"
  /\ PushReply([cache[req.key] EXCEPT !.corr = req.corr])
  /\ epc' = "validate"
  /\ UNCHANGED <<running, ledger, uuid_counter, requests, metrics,
                 req, status, tx_id, io, sent, delivered, life>>

\* The key is known: the cached response goes out under the new correlation id.
ReplyFromCache ==
  /\ epc = "replay"
  /\ PushReply([cache[req.key] EXCEPT !.corr = req.corr])
  /\ epc' = "top"
  /\ UNCHANGED <<running, ledger, uuid_counter, requests, metrics,
                 req, status, tx_id, io, sent, delivered, life>>

\* Mutant: the funds of an asset are not looked at.
ValidateWithoutFunds(r) ==
  IF r.amount <= 0 THEN "ERR_INTERNAL"
  ELSE IF ~({r.debit, r.credit} \subseteq DOMAIN accounts) THEN "ERR_ACCOUNT_NOT_FOUND"
  ELSE "OK"

validate_transaction(r) ==
  IF r.amount <= 0 THEN "ERR_INTERNAL"
  ELSE IF ~({r.debit, r.credit} \subseteq DOMAIN accounts) THEN "ERR_ACCOUNT_NOT_FOUND"
  ELSE IF accounts[r.debit].type = "Asset" /\ accounts[r.debit].balance < r.amount
    THEN "ERR_INSUFFICIENT_FUNDS"
  ELSE "OK"

Validate ==
  /\ epc = "validate"
  /\ status' = validate_transaction(req)
  /\ tx_id' = NoTxId
  /\ epc' = IF status' = "OK" THEN "log" ELSE "reply"
  /\ UNCHANGED <<running, ledger, uuid_counter, requests, replies, metrics,
                 req, io, history, life>>

\* Mutant: transactions are numbered apart from accounts.
LogOwnNumber ==
  /\ epc = "log"
  /\ tx_id' = Len(wal) - replayed
  /\ wal' = Append(wal, [tx |-> tx_id', req |-> req])
  /\ epc' = "debit"
  /\ UNCHANGED <<running, accounts, cache, replayed, uuid_counter, requests, replies,
                 metrics, req, status, io, history, life>>

\* Mutant: the balances change without a frame in the log.
LogNothing ==
  /\ epc = "log"
  /\ tx_id' = uuid_counter
  /\ uuid_counter' = uuid_counter + 1
  /\ epc' = "debit"
  /\ UNCHANGED <<running, ledger, requests, replies, metrics, req, status, io,
                 history, life>>

\* generate_uuid, serialize_for_wal, wal_.append
Log ==
  /\ epc = "log"
  /\ tx_id' = uuid_counter
  /\ uuid_counter' = uuid_counter + 1
  /\ wal' = Append(wal, [tx |-> tx_id', req |-> req])
  /\ epc' = "debit"
  /\ UNCHANGED <<running, accounts, cache, replayed, requests, replies, metrics,
                 req, status, io, history, life>>

\* accounts_[id].balance += amount
Credited(id, amount) == [accounts EXCEPT ![id].balance = Int64(@ + amount)]

\* apply_transaction takes accounts_mutex_ and debits ...
Debit ==
  /\ epc = "debit"
  /\ accounts' = Credited(req.debit, -req.amount)
  /\ epc' = "credit"
  /\ UNCHANGED <<running, cache, wal, replayed, uuid_counter, requests, replies,
                 metrics, req, status, tx_id, io, history, life>>

\* Mutant: a transfer from an account to itself is credited nothing.
CreditOthersOnly ==
  /\ epc = "credit"
  /\ accounts' = IF req.credit = req.debit THEN accounts
                 ELSE Credited(req.credit, req.amount)
  /\ epc' = "reply"
  /\ UNCHANGED <<running, cache, wal, replayed, uuid_counter, requests, replies,
                 metrics, req, status, tx_id, io, history, life>>

\* ... then credits and releases it.
Credit ==
  /\ epc = "credit"
  /\ accounts' = Credited(req.credit, req.amount)
  /\ epc' = "reply"
  /\ UNCHANGED <<running, cache, wal, replayed, uuid_counter, requests, replies,
                 metrics, req, status, tx_id, io, history, life>>

\* Mutant: the response is not cached.
ReplyUncached ==
  /\ epc = "reply"
  /\ PushReply([corr |-> req.corr, tx |-> tx_id, status |-> status])
  /\ epc' = "count" /\ counting' = {"total"} \cup Window
  /\ UNCHANGED <<running, ledger, uuid_counter, requests, tx_total, tx_window,
                 lat_window, req, status, tx_id, io, sent, delivered, life>>

\* Build the response, cache it under a non-empty key, push it.
Reply ==
  /\ epc = "reply"
  /\ LET resp == [corr |-> req.corr, tx |-> tx_id, status |-> status]
     IN  /\ cache' = IF req.key = NoKey THEN cache
                     ELSE [k \in DOMAIN cache \cup {req.key} |->
                             IF k = req.key THEN resp ELSE cache[k]]
         /\ PushReply(resp)
  /\ epc' = "count" /\ counting' = {"total"} \cup Window
  /\ UNCHANGED <<running, accounts, wal, replayed, uuid_counter, requests, tx_total,
                 tx_window, lat_window, req, status, tx_id, io, sent, delivered, life>>

\* Three relaxed additions: they take effect in any order, and all of them before
\* the next pop publishes head_.
Count(counter) ==
  /\ epc = "count" /\ counter \in counting
  /\ counting' = counting \ {counter}
  /\ epc' = IF counting' = {} THEN "top" ELSE "count"
  /\ UNCHANGED <<running, ledger, uuid_counter, requests, replies,
                 req, status, tx_id, io, history, life>>

CountTotal ==
  Count("total") /\ tx_total' = tx_total + 1 /\ UNCHANGED <<tx_window, lat_window>>

CountWindow ==
  Count("window") /\ tx_window' = tx_window + 1 /\ UNCHANGED <<tx_total, lat_window>>

CountLatency ==
  /\ Count("latency")
  /\ \E latency \in 0 .. MaxLatency : lat_window' = lat_window + latency
  /\ UNCHANGED <<tx_total, tx_window>>

run == \/ TestRunning \/ PopRequest \/ ReplyFromCache \/ Validate \/ Log
       \/ Debit \/ Credit \/ Reply \/ CountTotal \/ CountWindow \/ CountLatency

-----------------------------------------------------------------------------
(* The I/O thread *)

\* Mutant: the request queue has no limit.
PushRequestUnbounded(r) ==
  /\ iopc = "idle"
  /\ r.corr = Len(sent) + 1
  /\ requests' = Append(requests, r)
  /\ sent' = Append(sent, r)
  /\ UNCHANGED <<running, ledger, uuid_counter, replies, metrics, engine, io,
                 delivered, lost, life>>

\* request_queue.push(req); a full queue refuses it and nothing changes here.
PushRequest(r) ==
  /\ iopc = "idle"
  /\ r.corr = Len(sent) + 1
  /\ Len(requests) < QueueCapacity
  /\ requests' = Append(requests, r)
  /\ sent' = Append(sent, r)
  /\ UNCHANGED <<running, ledger, uuid_counter, replies, metrics, engine, io,
                 delivered, lost, life>>

\* reply_queue.pop(envelope)
PopReply ==
  /\ iopc = "idle"
  /\ replies # <<>>
  /\ replies' = Tail(replies)
  /\ delivered' = delivered \cup {Head(replies).corr}
  /\ UNCHANGED <<running, ledger, uuid_counter, requests, metrics, engine, io,
                 sent, lost, life>>

\* create_account: take a number from the counter transactions use too ...
ReserveAccountId(name, type) ==
  /\ iopc = "idle"
  /\ uuid_counter < IdBound
  /\ pending' = [id |-> uuid_counter, name |-> name, type |-> type]
  /\ uuid_counter' = uuid_counter + 1
  /\ iopc' = "insert"
  /\ UNCHANGED <<running, ledger, requests, replies, metrics, engine,
                 sampling, history, life>>

\* Mutant: a taken name is not noticed.
InsertUnchecked ==
  /\ iopc = "insert"
  /\ AccountsMutexFree
  /\ accounts' = [id \in DOMAIN accounts \cup {pending.id} |->
                    IF id = pending.id
                      THEN [name |-> pending.name, type |-> pending.type, balance |-> 0]
                      ELSE accounts[id]]
  /\ iopc' = "idle" /\ pending' = <<>>
  /\ UNCHANGED <<running, cache, wal, replayed, uuid_counter, requests, replies,
                 metrics, engine, sampling, history, life>>

\* Mutant: an account replaces the one that has its name.
InsertReplacing ==
  /\ iopc = "insert"
  /\ AccountsMutexFree
  /\ LET others == {id \in DOMAIN accounts : accounts[id].name # pending.name}
     IN  accounts' = [id \in others \cup {pending.id} |->
                        IF id = pending.id
                          THEN [name |-> pending.name, type |-> pending.type, balance |-> 0]
                          ELSE accounts[id]]
  /\ iopc' = "idle" /\ pending' = <<>>
  /\ UNCHANGED <<running, cache, wal, replayed, uuid_counter, requests, replies,
                 metrics, engine, sampling, history, life>>

\* ... then, under accounts_mutex_, insert the account unless its name is taken.
InsertAccount ==
  /\ iopc = "insert"
  /\ AccountsMutexFree
  /\ accounts' =
       IF \E id \in DOMAIN accounts : accounts[id].name = pending.name
         THEN accounts
         ELSE [id \in DOMAIN accounts \cup {pending.id} |->
                 IF id = pending.id
                   THEN [name |-> pending.name, type |-> pending.type, balance |-> 0]
                   ELSE accounts[id]]
  /\ iopc' = "idle" /\ pending' = <<>>
  /\ UNCHANGED <<running, cache, wal, replayed, uuid_counter, requests, replies,
                 metrics, engine, sampling, history, life>>

\* get_metrics_sample ...
BeginSample ==
  /\ iopc = "idle"
  /\ polls < MaxPolls
  /\ polls' = polls + 1
  /\ iopc' = "sample" /\ polling' = Window
  /\ UNCHANGED <<running, ledger, uuid_counter, requests, replies, metrics, engine,
                 pending, sampled, reported, window_start, history, life>>

\* ... loads the two counters of the window with relaxed loads, in any order.  The
\* average it reports is the quotient of the two.  (The load of tx_count_total_,
\* which is never cleared, is left out.)
Load(counter) ==
  /\ iopc = "sample" /\ counter \in polling
  /\ polling' = polling \ {counter}
  /\ iopc' = IF polling' = {} THEN "check" ELSE "sample"
  /\ UNCHANGED <<running, ledger, uuid_counter, requests, replies, metrics, engine,
                 pending, window_start, polls, history, life>>

SampleCount ==
  /\ Load("window")
  /\ sampled' = [sampled EXCEPT !.count = tx_window]
  /\ reported' = reported + tx_window

SampleLatency ==
  /\ Load("latency")
  /\ sampled' = [sampled EXCEPT !.latency = lat_window]
  /\ UNCHANGED reported

\* The transactions replied in this life; tx_count_total_ gets there.
Processed == tx_total + (IF "total" \in counting THEN 1 ELSE 0)

\* ... then waits for accounts_mutex_ to check the invariant; the sample is sent ...
CheckInvariant ==
  /\ iopc = "check"
  /\ AccountsMutexFree
  /\ iopc' = "reset" /\ polling' = Window
  /\ window_start' = IF counting = {} THEN Processed ELSE Processed - 1
  /\ UNCHANGED <<running, ledger, uuid_counter, requests, replies, metrics,
                 engine, pending, sampled, reported, polls, history, life>>

\* ... and reset_metrics_window clears them with relaxed stores, in any order.
Clear(counter) ==
  /\ iopc = "reset" /\ counter \in polling
  /\ polling' = polling \ {counter}
  /\ iopc' = IF polling' = {} THEN "idle" ELSE "reset"
  /\ UNCHANGED <<running, ledger, uuid_counter, requests, replies, tx_total, counting,
                 engine, pending, reported, window_start, polls, history, life>>

\* Mutant: the window count is never cleared.
ResetCountForgotten ==
  /\ Clear("window")
  /\ sampled' = [sampled EXCEPT !.count = 0]
  /\ UNCHANGED <<tx_window, lat_window>>

ResetCount ==
  /\ Clear("window")
  /\ tx_window' = 0
  /\ sampled' = [sampled EXCEPT !.count = 0]
  /\ UNCHANGED lat_window

\* Mutant: the window latency is never cleared.
ResetLatencyForgotten ==
  /\ Clear("latency")
  /\ sampled' = [sampled EXCEPT !.latency = 0]
  /\ UNCHANGED <<tx_window, lat_window>>

ResetLatency ==
  /\ Clear("latency")
  /\ lat_window' = 0
  /\ sampled' = [sampled EXCEPT !.latency = 0]
  /\ UNCHANGED tx_window

create_account ==
  \/ \E name \in Names, type \in Types : ReserveAccountId(name, type)
  \/ InsertAccount

poll_metrics ==
  \/ BeginSample \/ SampleCount \/ SampleLatency
  \/ CheckInvariant \/ ResetCount \/ ResetLatency

-----------------------------------------------------------------------------
(* The main thread and the process *)

shutdown ==
  /\ running
  /\ running' = FALSE
  /\ UNCHANGED <<ledger, uuid_counter, requests, replies, metrics, engine, io,
                 history, life>>

\* The process dies (or has stopped) and is started again.  main() replays the
\* log with a callback that only counts: frames survive, nothing is rebuilt.
Restart ==
  /\ life < MaxLives
  /\ life' = life + 1
  /\ running' = TRUE
  /\ accounts' = <<>> /\ cache' = <<>>
  /\ uuid_counter' = 0
  /\ requests' = <<>> /\ replies' = <<>>
  /\ tx_total' = 0 /\ tx_window' = 0 /\ lat_window' = 0 /\ counting' = {}
  /\ epc' = "top" /\ req' = EmptyRequest /\ status' = "OK" /\ tx_id' = NoTxId
  /\ iopc' = "idle" /\ pending' = <<>> /\ polling' = {} /\ sampled' = NoSample
  /\ replayed' = Len(wal)
  /\ sent' = <<>> /\ delivered' = {} /\ lost' = {}
  /\ reported' = 0 /\ window_start' = 0 /\ polls' = 0
  /\ UNCHANGED wal

Next ==
  \/ run
  \/ \E r \in TransactionRequest : PushRequest(r)
  \/ PopReply
  \/ create_account
  \/ poll_metrics
  \/ shutdown
  \/ Restart

Spec == Init /\ [][Next]_vars

\* The consumer thread is never blocked: it always has a step until it stops.
FairSpec == Spec /\ WF_vars(run)

-----------------------------------------------------------------------------
(* Safety properties *)

Account == [name : Names, type : Types, balance : -MaxBalance - 1 .. MaxBalance]
Response ==
  [corr : 1 .. MaxRequests, tx : Nat \cup {NoTxId}, status : TxStatus]
Frame == [tx : Nat, req : TransactionRequest]
Numbers == 0 .. IdBound - 1

\* Every variable keeps its type, and both queues their capacity.
TypeOK ==
  /\ running \in BOOLEAN
  /\ DOMAIN accounts \subseteq Numbers /\ accounts \in [DOMAIN accounts -> Account]
  /\ uuid_counter \in Nat
  /\ requests \in Seq(TransactionRequest) /\ Len(requests) <= QueueCapacity
  /\ replies \in Seq(Response) /\ Len(replies) <= QueueCapacity
  /\ {tx_total, tx_window, lat_window} \subseteq Nat
  /\ epc \in {"top", "pop", "replay", "validate", "log", "debit", "credit",
              "reply", "count", "stopped"}
  /\ counting \subseteq {"total"} \cup Window
  /\ req \in TransactionRequest \cup {EmptyRequest}
  /\ status \in TxStatus
  /\ tx_id \in Nat \cup {NoTxId}
  /\ DOMAIN cache \subseteq Keys /\ cache \in [DOMAIN cache -> Response]
  /\ iopc \in {"idle", "insert", "sample", "check", "reset"}
  /\ polling \subseteq Window /\ sampled \in [count : Nat, latency : Nat]
  /\ iopc = "insert" => pending \in [id : Numbers, name : Names, type : Types]
  /\ wal \in Seq(Frame) /\ replayed \in 0 .. Len(wal)
  /\ sent \in Seq(TransactionRequest) /\ Len(sent) <= MaxRequests
  /\ delivered \subseteq 1 .. MaxRequests /\ lost \subseteq 1 .. MaxRequests
  /\ {reported, window_start, polls, life} \subseteq Nat

\* The frames appended since the last start.
LiveFrames == replayed + 1 .. Len(wal)

\* The request the consumer thread has popped and not yet answered.
InFlight == epc \in {"replay", "validate", "log", "debit", "credit", "reply"}

\* Validation releases accounts_mutex_ before the log is written and the
\* balances are changed (ledger.cpp:89, 118); what it found still holds when
\* they are, although create_account inserts accounts in between.
StillValid ==
  epc \in {"log", "debit"} => validate_transaction(req) = "OK"

\* An idempotency key commits at most one transaction in one life of the
\* process (the cache of ledger.cpp:227-235 and 286-288), retries included.
KeyCommitsOnce ==
  \A i, j \in LiveFrames :
    wal[i].req.key = wal[j].req.key /\ wal[i].req.key # NoKey => i = j

\* A reply tells the truth about the log: OK means that the frame of its
\* transaction is there, for that request or for an earlier one with the same
\* key; an error means that no frame was written for the request.
CommittedBy(i, reply) ==
  /\ wal[i].tx = reply.tx
  /\ \/ wal[i].req = sent[reply.corr]
     \/ wal[i].req.key # NoKey /\ wal[i].req.key = sent[reply.corr].key

Truthful(reply) ==
  IF reply.status = "OK" THEN \E i \in LiveFrames : CommittedBy(i, reply)
                         ELSE \A i \in LiveFrames : wal[i].req.corr # reply.corr

RepliesAreTruthful == \A k \in 1 .. Len(replies) : Truthful(replies[k])

\* No accepted request is forgotten, reordered or answered twice: those not
\* popped are in the queue in the order they were sent, and each popped one
\* has a single reply, which is in the queue, was taken from it, or was lost.
Answered == {replies[k].corr : k \in 1 .. Len(replies)}
RequestsAccountedFor ==
  /\ Len(sent) = req.corr + Len(requests)
  /\ \A k \in 1 .. Len(requests) : requests[k] = sent[req.corr + k]
  /\ Answered \cup delivered \cup lost =
       1 .. (IF InFlight THEN req.corr - 1 ELSE req.corr)
  /\ \A j, k \in 1 .. Len(replies) : j < k => replies[j].corr < replies[k].corr
  /\ Answered \cap delivered = {} /\ Answered \cap lost = {}
  /\ delivered \cap lost = {}

\* Accounts and transactions draw on one counter from two threads
\* (ledger.cpp:27, 61) and no number is given out twice in one life.
NumbersAreUnique ==
  /\ \A i, j \in LiveFrames : wal[i].tx = wal[j].tx => i = j
  /\ \A i \in LiveFrames : wal[i].tx \notin DOMAIN accounts
  /\ iopc = "insert" => /\ pending.id \notin DOMAIN accounts
                        /\ \A i \in LiveFrames : wal[i].tx # pending.id

\* No two accounts have the same name (ledger.cpp:34-40).
NamesAreUnique ==
  \A a, b \in DOMAIN accounts : accounts[a].name = accounts[b].name => a = b

\* get_balance_snapshot: the totals it computes while it holds the mutex.
Total(types) ==
  LET ids == {id \in DOMAIN accounts : accounts[id].type \in types}
  IN  Int64(SumFunctionOnSet([id \in ids |-> accounts[id].balance], ids))
total_assets == Total({"Asset", "Expense"})
total_liabilities == Total({"Liability"})
total_equity == Total({"Equity", "Revenue"})
invariant_ok == Int64(total_assets - total_liabilities - total_equity) = 0

\* A snapshot never shows half a transfer (ledger.hpp:53): whenever another
\* thread can hold accounts_mutex_ the balances cancel out, modulo 2^64.
SnapshotIsConsistent ==
  AccountsMutexFree =>
    Int64(total_assets + total_liabilities + total_equity + Total({"Unknown"})) = 0

\* A debit never overdraws an asset (ledger.cpp:98-108), although the funds were
\* checked before the mutex was released: the only step that turns an asset
\* negative is a credit of that asset which overflows it.
AssetsNeverOverdrawn ==
  [][\A id \in DOMAIN accounts \cap DOMAIN accounts' :
       accounts[id].type = "Asset" /\ accounts[id].balance >= 0
         => \/ accounts'[id].balance >= 0
            \/ /\ epc = "credit" /\ id = req.credit
               /\ accounts[id].balance + req.amount > MaxBalance]_vars

\* Metrics polls and the consumer thread share the window counter without a
\* lock (ledger.cpp:297, 345, 366): no transaction is reported by two polls.
NoDoubleReport ==
  reported + (tx_window - sampled.count) <= Processed

\* A sample is about the transactions that were not counted in full when the poll
\* before it began to clear the window (ledger.cpp:345-346, 366-367): in whatever
\* order the counters are bumped, loaded and cleared, no older one is in the count,
\* nor in the latency the average is taken of.
SampleIsRecent ==
  iopc \in {"sample", "check"} =>
    LET recent == Processed - window_start
    IN  sampled.count <= recent /\ sampled.latency <= MaxLatency * recent

\* The engine implements the atomic ledger: a transfer takes effect when its
\* frame is appended, with the debit and credit still to come counted in.
SettledAccounts ==
  CASE epc = "debit" ->
         LET debited == [accounts EXCEPT ![req.debit].balance = Int64(@ - req.amount)]
         IN  [debited EXCEPT ![req.credit].balance = Int64(@ + req.amount)]
    [] epc = "credit" -> Credited(req.credit, req.amount)
    [] OTHER -> accounts

Atomic == INSTANCE AtomicLedger
            WITH accounts <- SettledAccounts,
                 journal <- [i \in DOMAIN wal |-> wal[i].req],
                 Ids <- Numbers, Requests <- TransactionRequest

RefinesAtomicLedger == Atomic!Spec

-----------------------------------------------------------------------------
(* Liveness *)

Unanswered(n) ==
  n \in 1 .. Len(sent) /\ (n > req.corr \/ (n = req.corr /\ InFlight))

\* Every accepted request is answered unless the consumer thread stops (or the
\* process restarts, which forgets it).
EveryRequestIsAnswered ==
  \A n \in 1 .. MaxRequests : Unanswered(n) ~> (~Unanswered(n) \/ epc = "stopped")

-----------------------------------------------------------------------------
(* What comments and documents say that the code does not do *)

\* ledger.cpp:128-129: "sum(Assets) - sum(Liabilities) - sum(Equity) == 0.
\* This must hold true at all times in a correctly functioning ledger."
DoubleEntryHolds == AccountsMutexFree => invariant_ok
==============================================================================

# ZeroLGR: specifications, model checking and proofs

ZeroLGR is a double-entry ledger: a C++ engine (lock-free queues, a single consumer
thread, a memory-mapped write-ahead log, a ZeroMQ server), a Python gateway (FastAPI, a
ZeroMQ client, a Stripe payment saga, WebSocket streaming) and a React dashboard. This
directory holds TLA+ models of the engine and the gateway, the TLC configurations that check
them on small instances, and TLAPS proofs of what matters most for every instance. Paths below are
relative to `src/`.

## 1. The system

| Component | State | Operations | Talks to |
|---|---|---|---|
| SPSC ring buffer `engine/include/ring_buffer.hpp` | `head_`, `tail_`, `buf_` | `push` (one thread), `pop` (another), `size_approx` | used twice by the ledger engine |
| Ledger engine `engine/src/ledger.cpp` | accounts, idempotency cache, two queues, id counter, metrics counters, `running_` | `run` (consumer thread); `create_account`, `get_balance_snapshot`, `get_metrics_sample`, `reset_metrics_window` (I/O thread); `shutdown` (main thread) | log (`append`), queues, `accounts_mutex_` |
| Write-ahead log `engine/src/wal.cpp` | the file, the mapping, `write_offset_`, `sequence_` | constructor, `replay`, `append`, `grow`, destructor, `flush_async` (no caller) | called by `main` once (replay), then by the consumer thread |
| Engine server `engine/src/server.cpp` | `running_`, two `pending_identities` maps, the ROUTER socket | `start`, `stop`, `io_loop` | clients over ZeroMQ, the ledger's queues and methods |
| Entry point `engine/src/main.cpp` | the signal flag | open, replay, start, wait, stop | all of the above |
| ZMQ client `gateway/zmq_client.py` | pending futures, receiver task | `send_transaction`, `create_account`, `get_metrics`, `get_balance_snapshot` | the engine server |
| Payment saga `gateway/saga.py`, `gateway/stripe_handler.py` | none of its own; Stripe's and the ledger's | webhook handler, `execute_payment_saga`, `compensate_stripe_charge` | ZMQ client, Stripe, broadcaster |
| Streaming `gateway/ws_streamer.py` | client set, poll task | `connect`, `disconnect`, `broadcast`, `poll_loop` | ZMQ client, browsers |
| Routes `gateway/routes/*`, dashboard `dashboard/src/*` | none / UI stores | forward requests, show events | ZMQ client / gateway |

Three threads run in the engine: the *consumer thread* inside `run()`, the *I/O thread*
inside `io_loop()`, and the *main thread*. They share the two queues, the accounts (under
`accounts_mutex_`), the id counter and the metrics counters (atomics), and `running_`.

**What is hard here**, and what makes each part correct:

- *ring buffer*: correct only because of four memory orders and one free slot. No slot may
  be touched by both threads; values come out once, in order, and none stays behind.
- *ledger*: a transfer is validated, logged and applied in separate steps, with the mutex
  released in between, and its reply, cache entry and counters come later still. It must
  look atomic to a snapshot, to a create_account, to a retry and to a crash.
- *log*: any prefix of a frame, in any order of pages, may be on disk when power is lost; a
  kill leaves the page cache ahead of the disk; a restart chooses where appends go on.
- *server*: a reply finds its client only through a map the request filled; refusals, empty
  messages, metrics polls and the stop of the process cross each other.
- *gateway*: timeouts race late commits, webhooks repeat and overtake each other, a
  broadcast awaits while its client set changes, and one receiver task serves all calls. A
  call must not be forgotten, a task must not hang, and the timeline a browser shows must
  agree with Stripe and the ledger.
- *wire*: two programs in two languages lay out and read each message by hand.

`PROJECT.json` lists the hazards line by line, each with the properties that watch it.

## 2. Modules

| Module | Models | Notes |
|---|---|---|
| `BoundedFifo` | abstract | what a queue of bounded capacity promises |
| `SPSCRingBuffer` | `ring_buffer.hpp` | one action per memory access |
| `AtomicLedger` | abstract | a ledger that journals and applies a transfer in one step |
| `LedgerEngine` | `ledger.cpp`, `main.cpp` | consumer thread, I/O thread's calls, shutdown, restart |
| `WriteAheadLog` | `wal.cpp` (POSIX) | page cache, disk, kills, power losses |
| `EngineServer` | `server.cpp` | extends `LedgerEngine` and takes its actions one by one |
| `WireFormat` | both ends of every message: `server.cpp`, `zmq_client.py` | pure operators |
| `ZMQClient` | `zmq_client.py` | futures, timeouts, the receiver task |
| `WSBroadcaster` | `ws_streamer.py`, the endpoint of `main.py` | the client set |
| `Gateway` | `stripe_handler.py`, `saga.py`, the routes, `poll_loop` | extends the three above; Stripe, browsers and the engine around it |
| `MC*` | | definitions for TLC: symmetry sets, signed amounts |
| `SPSCRingBuffer_proofs` | | proofs about the ring buffer |
| `LedgerEngine_proofs`, `LedgerRefinement_proofs` | | proofs about the engine, the second extending the first |
| `WriteAheadLog_proofs` | | proofs about the log: the scan of a file, and what survives faults |
| `EngineServer_proofs` | | proofs about the server, on top of the engine's |
| `WireFormat_proofs` | | that each reader gets what the writer wrote |
| `Gateway_proofs` | | proofs about the gateway: its client, its broadcaster and the saga |
| `DataInduction` | | sums over finite sets and induction over data, used by the proofs |

An operator commented *Mutant* is no part of its specification: it is one plausible bug in
the definition below it, and the property it is paired with in `PROJECT.json` fails when it
takes that definition's place.

### SPSCRingBuffer

`push` is `PushBegin` (load `head_`, compare), `WriteSlot`, `PublishTail` (store `tail_`);
`pop` is `PopBegin`, `ReadSlot`, `AdvanceHead`. The copying and the moving `push` differ
only in how the argument is read. C++ memory orders are modelled as follows. `tail` is what
its owner, the producer, knows; `cTail` is what the consumer's next load returns, which may
lag behind. `AcquireTail` lets the consumer's load see the latest store and, being an
acquire of a release, also every slot write before it: those leave `unseen`. A read of a
slot in `unseen` is a data race, which is undefined behaviour: `ReadSlot` then returns *any*
object. `head`, `pHead`, `AcquireHead` and `moved` are the mirror image. A load that skips
to an intermediate store is covered by taking `AcquireTail` earlier.

### LedgerEngine

| Action | Code |
|---|---|
| `TestRunning`, `PopRequest` | `ledger.cpp:216-228`, the cache lookup included |
| `ReplyFromCache` | 229-234 |
| `Validate` | 241 and 78-111, under the mutex |
| `Log` | 245-251: `generate_uuid`, `serialize_for_wal`, `wal_.append` |
| `Debit`, `Credit` | 116-125, the mutex held from one to the other |
| `Reply` | 257-293: build, cache, push; a full queue loses the reply |
| `CountTotal`, `CountWindow`, `CountLatency` | 296-299, in any order |
| `PushRequest`, `PopReply` | the I/O thread's ends of the queues |
| `ReserveAccountId`, `InsertAccount` | `create_account`, 22-53: the counter first, then the map under the mutex |
| `BeginSample`, `SampleCount`, `SampleLatency`, `CheckInvariant` | `get_metrics_sample`, 341-363 as `server.cpp:354` calls it; the two loads in any order |
| `ResetCount`, `ResetLatency` | `reset_metrics_window`, 365-368 as `server.cpp:361` calls it; the two stores in any order |
| `shutdown`, `Restart` | 305-307; death and `main.cpp:51-69` |

Only steps another thread can observe are separate; in particular `generate_uuid` and
`append` are one step, since the consumer thread is the only user of the log. A balance is
an integer of `2 * MaxBalance + 2` values that wraps (`Int64`), so that overflow happens in
the instances. `Restart` may follow any step: frames of the log survive and nothing is
rebuilt from them, because the replay callback only counts (`main.cpp:59-64`). The
variables `sent`, `delivered`, `lost`, `reported`, `window_start`, `polls` and `life` are
history.

The queues are the FIFOs the ring buffer implements, with one addition: a push may find
its queue full although it is not, because the `head_` it loads can lag behind
(`MayLookFull`: possible once as many values have been pushed as there are places). A pop
that does not see the last push yet is the same pop taken before that push.

The metrics counters are `memory_order_relaxed` atomics, so nothing orders accesses of
one thread to different counters. The model lets the three additions take effect in any
order, and likewise the two loads and the two stores of a poll. On the machines the
program is built for (x86-64, AArch64) a store is seen by all other cores at once, so that
this order is the only freedom there is. What does bound it: the additions come before the
release store of `head_` in the next pop that finds a request, hence before the next
transaction is counted; loads and stores of a poll are kept apart by the mutex in
`check_invariant` and by sending the sample, and the stores come before the I/O thread's
next release. (An addition may also become visible before the push of its own reply; no
property relates the two.) The average a poll reports is the quotient of two sums that need
not be over the same transactions. What can be promised of it is `SampleIsRecent`: neither
sum takes in a transaction that was counted in full when the poll before began to clear
the window.

Abstracted: names, ids and keys are members of small sets; description, currency and the
Stripe id are carried but never looked at by the engine, so they are left out; latency is a
number chosen at random; the queues are atomic FIFOs (proved of the ring buffer); a frame
is durable when appended, which the log provides unless one of the faults of section 5
(`wal_reopen`, `wal_hole`) strikes. The engine's results are subject to that.

### WriteAheadLog

A file is a function from offsets to *cells*, one for each field of a frame (magic, size,
CRC) and each word of a payload. The process writes `file`, the page cache; the kernel copies
cells to `disk` in any order (`Writeback`); `Synced` is `msync(MS_SYNC)` on the pages of a
range. `Kill` leaves `file`, `PowerLoss` replaces it by `disk`. `Frames(f)` is the scan of
`replay` as a function of the file. `Open` truncates to `InitialSize` as `ftruncate` does;
`cut` remembers the acknowledged frames this removes.

`replay` accepts whatever the page cache holds, synced or not, and no one syncs it later.
`unsynced` remembers this: it becomes `"yes"` when a replay accepts a frame the disk does not
hold, and `"lost"` when a power loss strikes after that, which may leave a hole with valid
frames behind it. The guarantees of the log are stated for as long as it is `"no"` (power
loss) or not yet `"lost"` (kill); `AckedSurviveFaults` states them without that and is
refuted. The last torn frame is covered by `NoForgedFrames`, whose comment names the one
exception: a frame of which only the magic was written is replayed as an empty one.

Simplified (`CellAssumption`): CRC32 has no collisions, and a word of a payload is not equal to
the magic, to a size or to a checksum that says something. Besides, a cell is written whole, a
file stays far below 4 GiB (the size of a frame does not wrap), `msync` succeeds. A process that
cannot grow its file throws out of the consumer thread and dies.

### EngineServer

The I/O thread's position is `iopos`; inside a handler it takes the ledger's own actions,
conjoined with what the server does around them: `AcceptTransaction` is `PushRequest` plus
the store into the first `pending_identities`, `DrainReply` is `PopReply` plus the lookup
in the second, and so on. The main thread stops the server (`BeginStop`, `ShutDownEngine`,
`Joined`). A message is its kind and its sender; what a transaction or account request
contains is chosen when it is handled. Messages arrive whole. `RefuseTransaction` may come from a
queue that only looks full, as above.

### WireFormat

A message is the sequence of its fields, each a width in bytes and a value. A writer is the
concatenation it performs; a reader is the record of what it reads at which offset and width,
and gets `Garbage` where no field of that width starts. What an offset is computed from (the
length prefix of each string) is part of the model; the encoding of one number or character
is not.

### ZMQClient, WSBroadcaster and Gateway

All of the gateway runs on one asyncio loop, so a step is what a task does between two
awaits. A *task* is one run of a handler: a webhook, a route, or one turn of `poll_loop`; it
makes at most one call of the engine, under a correlation id of its own.

| State | Code |
|---|---|
| `pending_requests`, `future` | the dictionary of `zmq_client.py:33` and the future of each call |
| `receiver` | the receiver task, dead once an exception has ended it |
| `outbox`, `inbox` | requests handed to the DEALER socket (those past `PipeCapacity` are sends still awaited), answers on their way |
| `clients`, `cast`, `browser` | the broadcaster's set, the loop over it each task is inside (`to` is whom the send under way is for), and each browser's connection, which may be *stalled*: open, but not read from |
| `task` | what each task is (`kind`) and where it stands (`pc`) |
| `refunded`, `engine`, `cache`, `journal` | Stripe's charge; the engine with its idempotency cache and the keys it has committed |
| `doubts` | history: which of three things has happened that leaves a charge unsettled |

| Action | Code |
|---|---|
| `Start` | `stripe_handler.py:28-50`, `saga.py:24-35`, the routes' and `poll_loop`'s calls |
| `BeginCall`, `Expire`, `RaiseTimeout`, `Return` | `_send_and_wait`, `zmq_client.py:197-208` |
| `Receiver` | `_receiver_loop`, `zmq_client.py:210-228` |
| `CallReturns`, `CallTimesOut` | what each handler does with its answer or with `ZMQTimeoutError` |
| `Broadcasting` | `broadcast`, `ws_streamer.py:17-26`, one send after the other, each `Held` as long as its browser is stalled; `Aborted` says which `except` catches a failing loop (`saga.py`) |
| `RefundReturns`, `RefundRaises` | `compensate_stripe_charge`, `saga.py:76-108` |
| `Endpoint` | `connect`, the endpoint's wait and `disconnect`; browsers that stop reading, read again or leave |
| `Crash` | the process dies, or its lifespan ends, and it is started again |
| `Engine`, `EngineCrash`, `EngineStart`, `StripeRefunds`, `MerchantRefunds` | external: what the gateway can observe of them |

`wait_for` gives up in two steps: it cancels the future, and its coroutine goes on one turn of
the loop later; in between an answer may arrive. The engine is cut down to what the other
modules say of it and the gateway can tell: it answers a key it has seen with the status of
the first time (`KeyCommitsOnce`, `RepliesAreTruthful`), a reply may be lost, and a crash
empties the cache and keeps the journal. `Routed` says whether replies to transactions may be
sent at all: `TRUE` is the engine its comments describe, `FALSE` the one of section 5; the
run takes both, reply by reply. A request the full queue refuses is answered at once and not
remembered (`EngineRefuses`); any other outcome is remembered under its key.

A charge that a saga has refunded may be booked all the same for three reasons, which
`doubts` collects: `"timeout"`, the saga gave up waiting and the transfer came through later or
had already; `"refused"`, the queue was full, the saga took that for a rejection and refunded,
and the webhook, delivered again, found room; `"forgotten"`, the engine was restarted without
its cache. `RefundedIsNotBooked` says that there is no fourth.

The client's own transfers come without a key (`transfer`) or with one (`keyed`,
`routes/transactions.py`); it is not the key of a charge or a reversal.

Simplified: one charge and one pair of accounts; a browser has one connection at a time; a
set iterator is taken to miss a client added after it began and to fail exactly when the size
has changed (what Python does); the refund call of Stripe's library, synchronous or not, is
the pair of its effect (`StripeRefunds`) and its return.

## 3. Runs

Bounds are set in the configurations and appear in guards (`MaxRequests`, `IdBound`,
`MaxPolls`, `MaxLives`, `MaxAppends`, `FileBound`, `MaxMessages`), never as constraints.
`CHECK_DEADLOCK FALSE` is there where the system really stops (the consumer thread has
returned, the log is full, the process was stopped) or where a bound ends a behaviour.
`spsc` checks deadlock.

| Run | Instance | Shows |
|---|---|---|
| `spsc` | 4 slots, 2 values (2631 states) | no data race, FIFO refinement, safe `size_approx`, every value consumed. All full, empty and wrapped positions occur; two values tell order and loss apart |
| `ledger_accounts` | 2 names, 2 types, 2 ids, amounts -1, 1, 2 on balances -3..2, 2 requests, 1 life, queues of 1 (1.66 million states) | stale validation, shared ids, duplicate names, half-done transfers, overdrafts, overflow; refinement of `AtomicLedger` |
| `ledger_replies` | 1 liability, 2 requests under at most 1 key, 1 poll, queues of 1, 2 lives (432 thousand states) | retries, replies lost to a queue that is full or looks full, restart at every step; every request answered |
| `wal` | payloads of 1 or 2 words, pages of 4 cells, file of 8 growing to 16, 3 appends, 3 starts, kills and power losses (824 thousand states) | every torn frame, frames across pages, growth, and what a replay after each fault finds |
| `server` | 1 client, 3 messages of any kind, transactions of latency 0 or 1, queues of 1 (210 thousand states) | the three threads together, stop at any step; up to 3 metrics polls against the transactions between them, the counters accessed in any order |
| `gateway` | 2 tasks of any kind but `create` (it ends like `transfer` and is served like `balances`), 1 browser, a pipe of 1, 1 metrics poll, 1 crash of either process, replies sent or not, the queue full or not (1.46 million states) | redelivered and overtaking webhooks, answers against timeouts, broadcasts against connections and stalled browsers, compensation after every outcome; where a task can be held up |
| `double_entry`, `wal_reopen`, `wal_hole`, `server_routing`, `saga_reversal`, `wire_metrics` | the smallest that fails | each refutes one sentence of the repository; see section 5 |

Two requests are the least that overflow a queue of one and that retry a key, and the reply to
the second may find the queue emptied but looking full; a poll, a transaction and a poll are the least in
which a window can be reported twice; two lives are
the least in which something can be forgotten; three appends are the least in which the
middle frame can be hidden, cut or overwritten. Two tasks are a webhook and its redelivery, or
the saga and the charge.refunded it causes, or two broadcasts over one set; with a pipe of one
the second send waits. More than two add no new pair of neighbours: tasks meet only through
the dictionary, the set of clients, the cache and the charge, each per key or per client.

**Fairness.** `FairSpec` of the ring buffer: the consumer polls for ever (`run` spins,
`io_loop` drains after every poll of at most 10 ms), a push that has begun is finished, and
a store becomes visible after finitely many loads. The producer owes nothing. `FairSpec` of
the ledger: weak fairness of the consumer thread alone, which never blocks except on a mutex
held for a bounded time; not of clients, polls, shutdown or restart. `FairServerSpec`: weak
fairness of the consumer thread, of the I/O thread and of `stop()` once begun; not of the
signal or of the clients. `EveryRequestIsAnswered` counts a reply that the full queue
refused as an answer given: `RequestsAccountedFor` says which ones those are.
`FairGatewaySpec`: weak fairness of the event loop (a task that is ready runs, a timer goes
off) and of the engine while it is up; not of Stripe, browsers, webhooks or restarts. Nothing
is owed by the engine's replies, which may all be lost. A browser that has stopped reading owes
nothing either: as long as it is stalled, the send to it is not enabled (`Held`), and it may
stay so for ever. `EveryTaskEnds` therefore says that every task, again and again, is at its
end or in one of the two places where the code waits without a limit: a send to a stalled
browser, or a send into a full pipe while the engine is down.

## 4. Proofs

All theorems hold for every value of the constants, under the named assumptions of the
modules (`N >= 2`; capacities positive; amounts are integers that fit a balance; ...).

**Ring buffer** (`SPSCRingBuffer_proofs`). The inductive invariant orders the four indices
round the buffer: what the producer believes is free is free, what the consumer believes is
there is there (`pHead` lags `head`, `cTail` lags `tail`), slots in `unseen` lie between
`cTail` and `tail` or are the one being written, slots in `moved` lie between `pHead` and
`head` or are the one being read. It is needed because `NoDataRace` says nothing of the
step before the race. From it follow `TypeCorrect`, `NoDataRaceHolds`,
`SizeApproxIsSafeHolds` and `ImplementsFifo`: `PublishTail` enqueues, `ReadSlot` dequeues,
every other step stutters.

**Ledger** (`LedgerEngine_proofs`). Type correctness first; then invariants that say where
numbers come from (everything handed out is below `uuid_counter`, the number `create_account`
holds is in no frame and no account), what is known at each program counter (`StillValid`
needs that accounts are never removed and that only the consumer thread changes balances),
and how the metrics counters relate at each step of a poll. `AssetsNeverOverdrawnHolds` is an
action property derived from them: a `Debit` cannot overdraw because `StillValid` holds before
it, and the one excuse left is a `Credit` that overflows its own account. `SampleIsRecentHolds`
needs `RecentInv`: what a counter holds, with the addition still to come, is at most what is
recent, for each counter except one that the poll under way has yet to clear.

**Replies** (`LedgerRefinement_proofs`). `KeyCommitsOnce` is not inductive: it needs that a
non-empty key of a live frame is in the cache, except for the request in progress, and that
the request being logged has a key that is not. `RepliesAreTruthful` needs the same of the
cached responses, which are replies yet to be sent.

**Snapshots** (`LedgerRefinement_proofs`). `SnapshotIsConsistent` sums over a set of accounts
of any size. `BooksInv` says that all balances, with the credit still to come, sum to 0 modulo
the width of a balance; `Debit` and `Credit` change one summand each, `InsertAccount` adds a
0. That the recursive sum of the community modules has these laws is proved in
`DataInduction`: a set of counterexamples that is not empty has a smallest one, which needs no
induction theorem with an operator parameter.

**Refinement** (`LedgerRefinement_proofs`). Under the mapping that counts the debit and
credit still to come as done (`SettledAccounts`), `Log` is `AtomicLedger`'s `Transfer`,
`InsertAccount` its `Open` or a stutter, `Restart` its `Restart`, and all else stutters. A
restart between `Log` and `Credit` is where it could fail: the balances are lost as a whole,
so no half transfer is ever seen.

**Log** (`WriteAheadLog_proofs`). First the scan: `Frames(f)` is a recursive function, and the
lemmas say which offsets it reaches, that its frames follow one another without a gap
(`FramesTile`, `FramesCover`), and that only the cells below an offset decide whether it is
reached (`ReachedLocal`). Then the inductive invariant `LogInv`, whose parts need one
another:

- `ProcessInv`: `write_offset` is an offset a replay reaches, `sequence` counts the frames
  below it, and the first `written` cells of the frame in progress are in the file.
- `WrittenBy`, of the file and of the disk: a magic or a checksum stands where an append put
  it. A forged frame would need one somewhere else.
- `KillInv`, until a power loss over a frame that was not durable: a replay of the file gets
  to every magic, and the log goes on behind them all. Without it an append could complete a
  frame whose magic is left over further on.
- `PowerInv`, until a replay accepts a frame that is not durable: up to the end of the log,
  and up to every magic in the file *or on the disk*, the two agree and the disk is long
  enough. Cells of the frame in progress may be on either and differ; they lie behind.

`AckedSurvivePowerLoss`, `AckedSurviveKill`, `NoForgedFrames`, `ResumesAfterLastFrame` and
`RecoveredSurvivePowerLoss` follow for every payload and page size, every sequence of faults
and every order of write-back. `LogInv` was model-checked on the instance of run `wal` before
it was proved. `FileBound` bounds the file, so a proof says nothing of one that wraps.

**Server** (`EngineServer_proofs`). `ServerIsALedger`: each step of the server is a step of
the ledger or leaves it alone, because its handlers take the ledger's actions whole. So every
theorem about `LedgerEngine!Spec` holds behind the server; `ServedLedgerIsCorrect` collects
the main ones. `RefusalIsFinal` is not inductive: it needs that a message in the socket, or in
a handler that has yet to answer it, is *fresh* (neither accepted nor answered), and that no
two of these are the same message. On the way it is proved that the map the drain loop
searches stays empty (`ServerInv`), which is why `server_routing` fails at every bound.

**Gateway** (`Gateway_proofs`). `PendingIsExact` and `ReceiverSurvives` hold together: the
receiver asks the dictionary and the future before it sets a result, and a future that is
cancelled stays registered until its call goes on. `ClientsAreConnected` needs that a
broadcast remembers as failed only connections that have broken and not come back.
`EventsAreTrue` and `RefundedIsNotBooked` follow from `SagaInv`. Its first part is about
messages: an answer on its way belongs to a task that is not idle, and what the client will
read from it is a status, which rests on the layouts below. Its second part is about what they
tell: an OK that a payment's saga has been sent is in the journal; where a saga stands, its
last answer justifies; and, as long as `doubts` is empty, an engine that has said OK or rejected
still remembers it, so that a charge the saga refunded is one the engine will go on rejecting.
A refusal by the full queue is not remembered, so the lemma about it (`RefusalTells`) can only
say that it puts the charge in doubt; the lemma about every other answer (`TransactionTells`)
adds no doubt.

**Wire format** (`WireFormat_proofs`). `Read` sums the widths of the fields before an offset, so
the lemmas say where each field of a message begins, strings of any length among them. From
them: the engine reads back the transaction and the account request the gateway writes, and
the gateway the engine's answers to them (`RequestRoundTrip`, `CreateRoundTrip`,
`ResponseRoundTrip`, `CreatedRoundTrip`). `GarbageAssumption` says that a misplaced read yields no length; of
misplaced reads the theorems say nothing.

**Only model-checked**: the liveness properties (`EveryValueIsConsumed`,
`EveryRequestIsAnswered`, `DirectAnswers`, `StopReturns`, `EveryTaskEnds`). They rest on fairness
and ENABLED, which the installed provers do not reason about. Every invariant, action property
and refinement that a passing run checks is also a theorem.

## 5. What the repository says and the code does not do

1. `double_entry`: a transfer changes both balances by the same amount whatever the types,
   so Assets - Liabilities - Equity does not stay 0 (`ledger.cpp:128-129`). What does hold
   is that all balances sum to 0 (`SnapshotIsConsistent`).
2. `wal_reopen`: a restart truncates a log that grew (`wal.hpp:10-12`, `wal.cpp:198`).
3. `wal_hole`: after a kill, replay accepts an unsynced frame; a power loss after the next
   append can hide that one (`wal.hpp:10-12`, `wal.cpp:294`, 348).
4. `server_routing`: replies are looked up in a map nothing is stored in
   (`server.hpp:10-12`, `server.cpp:330` and 386). Every saga whose request is accepted
   times out and refunds the charge, although the ledger may book it.
5. `saga_reversal`: the engine rejects a charge, and the saga refunds it for that; the refund
   comes back as `charge.refunded`, and the handler books the reversal of a transfer that was
   never made (`stripe_handler.py:40`). The property is restricted to behaviours without a
   timeout, a refusal by the full queue or a restart of the engine, so that the charge is
   rejected in the counterexample too.
6. `wire_metrics`: `get_metrics` reads its numbers from the byte after the type, where the
   correlation id is (`zmq_client.py:148`, 216). `get_balance_snapshot` does the same (167), so
   balances come out as anything or raise.

Seen without a run:

- A charge that a saga has refunded may be booked: after a timeout, because the engine handles
  the transfer later or has done so already (`saga.py:67-75`); after "Engine queue full", because
  nothing remembers that answer and the webhook may be delivered again (`saga.py:55-65`,
  `server.cpp:305-316`); after a restart of the engine, because the cache of rejections is gone.
  `README.md:26` promises compensation when the engine rejects a transaction and does not say
  that the transaction stays rejected, so this is no finding; `RefundedIsNotBooked` names the
  three.
- A browser that has stopped reading holds up every task that broadcasts to it, since
  `ws.send_json` is awaited without a timeout (`ws_streamer.py:21`): a saga then stays between a
  rejected charge and its refund. A send into a full pipe is awaited before the timeout of the
  call begins (`zmq_client.py:202`). `EveryTaskEnds` excepts both and nothing else.
- A restart rebuilds nothing: `main.cpp:57` says "Replay WAL to restore state", `main.cpp:60-62`
  that frames are only counted. Balances, the idempotency cache and the id counter start from
  nothing, so keys commit again and ids are handed out again; every property about them speaks
  of one life of the process.
- `shutdown` does not drain the queue (`ledger.hpp:48` says it does, `ledger.cpp:216` leaves
  the loop at once), which is why `EveryRequestIsAnswered` excepts a stop.
- A frame of which only the magic was written is replayed as an empty one (`wal.cpp:341`): a
  zero size and a zero CRC agree. `NoForgedFrames` excepts it.
- After a hole, frames of an earlier life may stand behind the new end of the log; replay then
  returns them, and the offset and sequence it resumes with are those of the ghost.
- The bytes read as metrics may be no finite number, which the browser's JSON parser refuses.
- `config.py:14-15` names accounts `acc_stripe_escrow` and `acc_merchant_revenue`; ids are
  `acc_<counter>` (`ledger.cpp:28`), so with the defaults every charge is rejected and refunded.

## 6. Not modelled, and the plan

Not modelled: the Windows half of the log (the same algorithm over other system calls);
`flush_async` (no caller); how a number or a character is encoded; a failing `msync`; checking
a webhook's signature (Stripe's library); the `wal-tail` route (a constant); the benchmark
route and the dashboard's views (no state the system depends on); the tests, the build, the
FlatBuffers schema (not used by the build).

Order of the work, most important first:

1. `SPSCRingBuffer` with `BoundedFifo`: done, proved.
2. `LedgerEngine` with `AtomicLedger`: done, proved.
3. `WriteAheadLog`: done, proved.
4. `EngineServer`: done, safety proved.
5. `ZMQClient`, `WSBroadcaster`: done, proved inside `Gateway`.
6. `Gateway` (the saga, the webhooks, the routes, the metrics poll): done, safety proved.
7. `WireFormat`: done; transaction and account messages proved, metrics and balances checked
   through `Gateway`.

Left, in this order: an abstract engine that both `LedgerEngine` behind the server and the
`Engine` of `Gateway` implement, so that what the gateway assumes is checked and not only
stated; an abstract durable log that `WriteAheadLog` implements as long as `unsynced` is
`"no"` and no start cuts the file; the layouts of the metrics and balance answers proved.

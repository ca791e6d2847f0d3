------------------------------- MODULE Gateway -------------------------------
(***************************************************************************)
(* The gateway process: the webhooks of gateway/stripe_handler.py, the     *)
(* saga of gateway/saga.py, the routes and the metrics collector, on the   *)
(* ZMQ client and the broadcaster they share, between Stripe, the browsers *)
(* and the engine.  It is about one charge and one account pair.           *)
(*                                                                         *)
(* A task is one run of a handler, or one turn of poll_loop.  All tasks    *)
(* run on one event loop, so a step is what a task does between two awaits.*)
(* Stripe delivers webhooks late, repeatedly and in any order.  The engine *)
(* is what the other modules say of it, cut down to what the gateway can   *)
(* tell: the journal, the idempotency cache, and answers that may be lost. *)
(***************************************************************************)
EXTENDS ZMQClient, WSBroadcaster, WireFormat

CONSTANTS
  Kinds,       \* what the tasks do
  Routed,      \* whether the reply to a transaction may (TRUE) or may not (FALSE) be sent
  MaxPolls,    \* bound: turns of poll_loop
  MaxCrashes   \* bound: crashes of either process

KindNames ==
  {"succeeded", "refunded", "transfer", "keyed", "create", "balances", "metrics"}

ASSUME GatewayAssumption ==
  /\ Calls \subseteq Nat /\ Broadcasts = Calls
  /\ Kinds \subseteq KindNames /\ Routed \subseteq BOOLEAN
  /\ MaxPolls \in Nat /\ MaxCrashes \in Nat

VARIABLES
  task,       \* the tasks, by the correlation id of their call
  refunded,   \* Stripe: nobody, the saga or the merchant has refunded the charge
  engine,     \* "up" or "down"
  cache,      \* the engine's idempotency cache: the statuses of this life
  journal,    \* the keys the engine has committed a transfer under
  doubts,     \* history: how an answer about the charge came not to settle it
  crashes     \* crashes so far

outside == <<engine, cache, journal>>
aside == <<refunded, outside, doubts, crashes>>
gateway == <<client, streaming, task, aside>>

-----------------------------------------------------------------------------
(* What the tasks ask of the engine *)

\* A saga's call timed out; the full queue refused it; the engine lost its cache.
Doubts == {"timeout", "refused", "forgotten"}

\* The saga's transfer, its reversal, and a client's without or with a key.
Transfer(debit, credit, key) ==
  [amount |-> "amount", debit |-> <<debit>>, credit |-> <<credit>>, key |-> key,
   description |-> <<>>, currency |-> <<"USD">>, stripe_charge_id |-> <<"ch">>]

Transactions ==
  [succeeded |-> Transfer("escrow", "revenue", <<"charge">>),
   refunded |-> Transfer("revenue", "escrow", <<"reversal">>),
   transfer |-> Transfer("from", "to", <<>>),
   keyed |-> Transfer("from", "to", <<"manual">>)]

\* What the engine makes of a request ...
Asked(t, kind) == deserialize_request(send_transaction(t, Transactions[kind]))
Keys == [kind \in DOMAIN Transactions |-> Asked(0, kind).key]

\* ERR_INTERNAL is "Engine queue full"; the other rejections are alike.
Statuses == {"OK", "ERR_INSUFFICIENT_FUNDS", "ERR_INTERNAL"}
Sample == [tps |-> "tps", latency |-> "latency", count |-> "count", ok |-> "ok"]
Balances == [ok |-> "ok", assets |-> "assets", liabilities |-> "liabilities",
             equity |-> "equity", accounts |-> <<>>]

\* ... and the gateway of an answer.  On its way an answer is what will be read.
To(t, r) == [field \in DOMAIN r \cup {"corr"} |-> IF field = "corr" THEN t ELSE r[field]]
Arriving(msg, heard) == [corr |-> Read(msg, 1, 16), heard |-> heard]

ReplyTo(t, kind, status) ==
  LET msg == serialize_response([corr |-> Asked(t, kind).corr, tx |-> "tx",
                                 status |-> status, latency |-> 0, message |-> <<>>])
  IN  Arriving(msg, parse_transaction(msg).status)

AccountFor(t, status) ==
  LET req == deserialize_create_account(send_create(t, <<"name">>, "Asset"))
      msg == serialize_create_account_response(
               [corr |-> req.corr, status |-> status, account |-> <<"acc">>,
                message |-> req.name])
  IN  Arriving(msg, parse_create(msg).status)

SampleFor(t) ==
  LET msg == serialize_metrics(To(t, Sample))
  IN  Arriving(msg, IF parse_metrics(msg) = Sample THEN "sample" ELSE Garbage)

BalancesFor(t) ==
  LET msg == serialize_balance_snapshot(To(t, Balances))
  IN  Arriving(msg, IF parse_balances(msg).count = 0 THEN "balances" ELSE Garbage)

Replies ==
  [t \in Calls |-> [kind \in DOMAIN Transactions |->
     [status \in Statuses |-> ReplyTo(t, kind, status)]]]
DirectAnswers ==
  [t \in Calls |->
     [create |-> {AccountFor(t, status) : status \in {"OK", "ERR_INTERNAL"}},
      metrics |-> {SampleFor(t)}, balances |-> {BalancesFor(t)}]]

-----------------------------------------------------------------------------
(* The program points of a task.  While it broadcasts, its pc names the      *)
(* event; then it goes on to After, or to Aborted if broadcast() raises.     *)

After ==
  [dispatch |-> "call", commit |-> "success", invalid |-> "refund",
   expired |-> "refund", refunded |-> "compensated",
   unrefunded |-> "uncompensated", sample |-> "answered"]

\* Mutant: any exception while the engine is asked leads to the compensation.
AbortedCatchingAll ==
  [dispatch |-> "failed", commit |-> "expired", invalid |-> "failed",
   expired |-> "failed", refunded |-> "unrefunded", unrefunded |-> "failed",
   sample |-> "answered"]

Aborted ==
  [dispatch |-> "failed", commit |-> "failed", invalid |-> "failed",
   expired |-> "failed", refunded |-> "unrefunded", unrefunded |-> "failed",
   sample |-> "answered"]

Final == {"success", "compensated", "uncompensated", "answered", "failed", "dead"}
Active(t) == task[t].pc \notin Final \cup {"idle"}
At(t, pc) == task[t].pc = pc

MoveTo(t, pc) == task' = [task EXCEPT ![t].pc = pc]

\* Go on at pc: if that is a broadcast, begin it.
Go(t, pc) ==
  IF pc \in DOMAIN After
    THEN BeginCast(t) /\ MoveTo(t, IF clients = {} THEN After[pc] ELSE pc)
    ELSE UNCHANGED streaming /\ MoveTo(t, pc)

GatewayInit ==
  /\ ClientInit /\ StreamInit
  /\ task = [t \in Calls |-> [kind |-> "none", pc |-> "idle"]]
  /\ refunded = "no"
  /\ engine = "up" /\ cache = <<>> /\ journal = {}
  /\ doubts = {}
  /\ crashes = 0

-----------------------------------------------------------------------------
(* The tasks *)

Polls == {t \in Calls : task[t].kind = "metrics"}

\* A webhook arrives, a route is called, or the collector's sleep is over.  A
\* saga broadcasts before it calls, everyone else calls at once.
Start(t, kind) ==
  /\ At(t, "idle") /\ \A s \in Calls : s < t => ~At(s, "idle")
  /\ kind = "refunded" => refunded # "no"
  /\ kind = "metrics" => Cardinality(Polls) < MaxPolls /\ \A s \in Polls : ~Active(s)
  /\ IF kind = "succeeded" /\ clients # {}
       THEN /\ task' = [task EXCEPT ![t] = [kind |-> kind, pc |-> "dispatch"]]
            /\ BeginCast(t)
            /\ UNCHANGED client
       ELSE /\ task' = [task EXCEPT ![t] = [kind |-> kind, pc |-> "call"]]
            /\ BeginCall(t)
            /\ UNCHANGED streaming
  /\ UNCHANGED aside

\* Where a task goes with an answer: a saga looks at the status; the reversal
\* does not; a route turns a bad status into an error; balances are read from
\* the wrong place and may come out as anything.
Verdict(t, heard) ==
  CASE task[t].kind = "succeeded" -> {IF heard = "OK" THEN "commit" ELSE "invalid"}
    [] task[t].kind \in {"transfer", "keyed", "create"} ->
         {IF heard = "OK" THEN "answered" ELSE "failed"}
    [] task[t].kind = "balances" ->
         IF heard = Garbage THEN {"answered", "failed"} ELSE {"answered"}
    [] task[t].kind = "refunded" -> {"answered"}
    [] task[t].kind = "metrics" -> {"sample"}

CallReturns(t) ==
  /\ At(t, "call")
  /\ Return(t)
  /\ \E pc \in Verdict(t, future[t].msg.heard) : Go(t, pc)
  /\ UNCHANGED aside

\* ... and where it goes with ZMQTimeoutError.
CallTimesOut(t) ==
  /\ At(t, "call")
  /\ RaiseTimeout(t)
  /\ Go(t, CASE task[t].kind = "succeeded" -> "expired"
             [] task[t].kind \in {"refunded", "metrics"} -> "answered"
             [] OTHER -> "failed")
  /\ doubts' = IF task[t].kind = "succeeded" THEN doubts \cup {"timeout"} ELSE doubts
  /\ UNCHANGED <<refunded, outside, crashes>>

Waits(t) ==
  /\ At(t, "call")
  /\ Expire(t)
  /\ UNCHANGED <<streaming, task, aside>>

\* A broadcast goes on, ends or raises.
Broadcasting(t) ==
  /\ task[t].pc \in DOMAIN After
  /\ \/ \E b \in Browsers : SendTo(t, b) /\ UNCHANGED <<client, task>>
     \/ /\ EndCast(t)
        /\ MoveTo(t, After[task[t].pc])
        /\ IF At(t, "dispatch") THEN BeginCall(t) ELSE UNCHANGED client
     \/ /\ ~Held(t) /\ SizeChanged(t)
        /\ IF Aborted[task[t].pc] \in DOMAIN After
             THEN Go(t, Aborted[task[t].pc])
             ELSE AbortCast(t) /\ MoveTo(t, Aborted[task[t].pc])
        /\ UNCHANGED client
  /\ UNCHANGED aside

\* compensate_stripe_charge: the refund has taken effect, by this call or by an
\* earlier one under the same key ...
RefundReturns(t) ==
  /\ At(t, "refund")
  /\ refunded = "saga"
  /\ Go(t, "refunded")
  /\ UNCHANGED <<client, aside>>

\* Mutant: an exception of the refund is taken for its success.
RefundRaisesUnnoticed(t) ==
  /\ At(t, "refund")
  /\ Go(t, "refunded")
  /\ UNCHANGED <<client, aside>>

\* ... or the call raises: refused, or lost on its way there or back.
RefundRaises(t) ==
  /\ At(t, "refund")
  /\ Go(t, "unrefunded")
  /\ UNCHANGED <<client, aside>>

Run(t) ==
  \/ CallReturns(t) \/ Waits(t) \/ CallTimesOut(t) \/ Broadcasting(t)
  \/ RefundReturns(t) \/ RefundRaises(t)

Receiver ==
  /\ \E msg \in inbox : Receive(msg.corr, msg)
  /\ UNCHANGED <<streaming, task, aside>>

Prefix(s, length) == [i \in 1 .. length |-> s[i]]

\* The process dies, or its lifespan ends while the collector is at work, and is
\* started again.  Of its requests only those on the wire may reach the engine.
Crash ==
  /\ crashes < MaxCrashes /\ \E t \in Calls : Active(t)
  /\ crashes' = crashes + 1
  /\ task' = [t \in Calls |-> [task[t] EXCEPT !.pc = IF Active(t) THEN "dead" ELSE @]]
  /\ pending_requests' = {} /\ future' = [c \in Calls |-> NoFuture]
  /\ receiver' = "running" /\ inbox' = {}
  /\ \E n \in 0 .. Len(outbox) : n <= PipeCapacity /\ outbox' = Prefix(outbox, n)
  /\ clients' = {} /\ browser' = [b \in Browsers |-> "away"]
  /\ cast' = [t \in Calls |-> NoCast]
  /\ UNCHANGED <<refunded, outside, doubts>>

-----------------------------------------------------------------------------
(* The browsers and Stripe *)

Endpoint ==
  /\ \E b \in Browsers :
       Connect(b) \/ Stall(b) \/ Resume(b) \/ Leave(b) \/ EndpointEnds(b)
  /\ UNCHANGED <<client, task, aside>>

\* The saga's refund takes effect at Stripe, once for all calls with its key.
StripeRefunds ==
  /\ refunded = "no"
  /\ \E t \in Calls : At(t, "refund")
  /\ refunded' = "saga"
  /\ UNCHANGED <<client, streaming, task, outside, doubts, crashes>>

\* The merchant refunds the charge at Stripe.
MerchantRefunds ==
  /\ refunded = "no" /\ "refunded" \in Kinds
  /\ refunded' = "merchant"
  /\ UNCHANGED <<client, streaming, task, outside, doubts, crashes>>

-----------------------------------------------------------------------------
(* The engine *)

\* Nobody waits for the answer to a task of an earlier life.
Reply(t, msg) == IF At(t, "dead") THEN UNCHANGED inbox ELSE inbox' = inbox \cup {msg}

\* The request queue is full: that is answered at once and not remembered.
EngineRefuses(t) ==
  /\ Reply(t, Replies[t][task[t].kind]["ERR_INTERNAL"])
  /\ doubts' = IF task[t].kind = "succeeded" THEN doubts \cup {"refused"} ELSE doubts
  /\ UNCHANGED <<cache, journal>>

\* A transaction: a key seen before gets the status it got then.  The reply may be
\* lost.
EngineTransacts(t) ==
  LET key == Keys[task[t].kind]
  IN  \E status \in Statuses \ {"ERR_INTERNAL"} :
        /\ IF key = <<>>
             THEN UNCHANGED <<cache, journal>>
             ELSE /\ key \in DOMAIN cache => status = cache[key]
                  /\ cache' = [k \in DOMAIN cache \cup {key} |->
                               IF k = key THEN status ELSE cache[k]]
                  /\ journal' = IF status = "OK" THEN journal \cup {key} ELSE journal
        /\ \E sent \in Routed :
             IF sent THEN Reply(t, Replies[t][task[t].kind][status]) ELSE UNCHANGED inbox
        /\ UNCHANGED doubts

Engine ==
  /\ engine = "up" /\ outbox # <<>>
  /\ outbox' = Tail(outbox)
  /\ LET t == Head(outbox)
     IN  IF task[t].kind \in DOMAIN Transactions
           THEN EngineRefuses(t) \/ EngineTransacts(t)
           ELSE /\ \E msg \in DirectAnswers[t][task[t].kind] : Reply(t, msg)
                /\ UNCHANGED <<cache, journal, doubts>>
  /\ UNCHANGED <<pending_requests, future, receiver, streaming, task, refunded, engine,
                 crashes>>

\* The engine dies with its cache, the requests on the wire and some answers.
EngineCrash ==
  /\ engine = "up" /\ crashes < MaxCrashes
  /\ engine' = "down" /\ crashes' = crashes + 1
  /\ cache' = <<>>
  /\ doubts' = doubts \cup {"forgotten"}
  /\ \E n \in 0 .. Len(outbox) :
       n <= PipeCapacity /\ outbox' = [i \in 1 .. Len(outbox) - n |-> outbox[i + n]]
  /\ \E lost \in SUBSET inbox : inbox' = inbox \ lost
  /\ UNCHANGED <<pending_requests, future, receiver, streaming, task, refunded,
                 journal>>

EngineStart ==
  /\ engine = "down"
  /\ engine' = "up"
  /\ UNCHANGED <<client, streaming, task, refunded, cache, journal,
                 doubts, crashes>>

-----------------------------------------------------------------------------
\* What the process does by itself.
EventLoop == Receiver \/ \E t \in Calls : Run(t)

GatewayNext ==
  \/ EventLoop
  \/ \E t \in Calls, kind \in Kinds : Start(t, kind)
  \/ Crash
  \/ Endpoint \/ StripeRefunds \/ MerchantRefunds
  \/ Engine \/ EngineCrash \/ EngineStart

GatewaySpec == GatewayInit /\ [][GatewayNext]_gateway

\* The event loop runs while anything can: tasks that are ready, timers that go
\* off, an exception of Stripe's library when nothing answers it.  The engine
\* works while it is up.  Webhooks, browsers and restarts owe nothing.
FairGatewaySpec ==
  /\ GatewaySpec
  /\ WF_gateway(EventLoop)
  /\ WF_gateway(Engine)

-----------------------------------------------------------------------------
(* Properties *)

GatewayTypeOK ==
  /\ pending_requests \subseteq Calls
  /\ \A t \in Calls :
       /\ task[t].kind \in Kinds \cup {"none"}
       /\ task[t].pc \in DOMAIN After \cup Final \cup {"idle", "call", "refund"}
       /\ future[t].state \in {"none", "waiting", "cancelled", "done"}
       /\ future[t].state = "done" /\ task[t].kind \in DOMAIN Transactions
            => future[t].msg.heard \in Statuses
       /\ cast[t].to \cup cast[t].left \cup cast[t].disconnected \subseteq Browsers
  /\ receiver \in {"running", "dead"}
  /\ outbox \in Seq(Calls)
  /\ clients \subseteq Browsers
  /\ browser \in [Browsers -> {"away", "open", "stalled", "gone"}]
  /\ refunded \in {"no", "saga", "merchant"} /\ engine \in {"up", "down"}
  /\ \A key \in DOMAIN cache : cache[key] \in Statuses
  /\ journal \subseteq {<<"charge">>, <<"reversal">>, <<"manual">>}
  /\ doubts \subseteq Doubts /\ crashes \in 0 .. MaxCrashes

\* The timeline tells the truth: COMMIT of a transfer in the journal, STRIPE_REFUND
\* SUCCESS of a refund Stripe has made, whatever was delivered twice, lost or cut
\* short by a crash of either process (saga.py:46-53, 95-108).
EventsAreTrue ==
  \A t \in Calls :
    /\ task[t].pc \in {"commit", "success"} => <<"charge">> \in journal
    /\ task[t].pc \in {"refunded", "compensated"} => refunded = "saga"

\* A charge is not both refunded by the saga and booked, unless a saga gave up
\* waiting and the transfer came through later, the full queue refused it and a
\* redelivered webhook tried again, or the engine lost its cache: webhooks that are
\* repeated or overtake each other, lost replies, failing broadcasts and crashes of
\* the gateway alone do not bring that about (saga.py:45-75, ledger.cpp:287).
RefundedIsNotBooked ==
  refunded = "saga" /\ doubts = {} => <<"charge">> \notin journal

\* Every task comes to its end, or is held up in one of the two places where the
\* gateway waits without a limit: a request its socket does not take while the
\* engine is down (zmq_client.py:202), and a browser that has stopped reading
\* (ws_streamer.py:21).  A call is answered or times out, a late, lost or misread
\* answer holds nobody up, and neither does another task (zmq_client.py:204-225).
\* (A task that is not at its end comes to it, or to such a place: again and again
\* it is not under way, or there.)
EveryTaskEnds ==
  \A t \in Calls :
    []<>(~Active(t) \/ Held(t) \/ (engine = "down" /\ Blocked(t)))

-----------------------------------------------------------------------------
(* What comments say that the code does not do *)

\* stripe_handler.py:40: "Reverse the ledger entry".  The reversal of a charge that
\* the engine rejected, and the saga refunded for it, undoes an entry of the ledger.
ReversalsReverse ==
  <<"reversal">> \in journal /\ refunded = "saga" /\ doubts = {}
    => <<"charge">> \in journal

\* zmq_client.py:216: an answer begins with "1 byte type + 16 bytes corr_id".  What
\* get_metrics returns is the sample the engine has put behind them (see SampleFor).
SamplesAreRead ==
  \A t \in Polls : Answered(t) => future[t].msg.heard = "sample"
==============================================================================

---------------------------- MODULE Gateway_proofs ----------------------------
(***************************************************************************)
(* Proofs about the gateway, for any number of tasks and browsers, all     *)
(* kinds of tasks and any number of crashes: the books of the ZMQ client   *)
(* and of the broadcaster stay exact however answers, timeouts, broadcasts *)
(* and connections cross; and what the saga tells of a charge is what the  *)
(* engine and Stripe have done with it.  The last part goes through the    *)
(* messages themselves, so it rests on what WireFormat_proofs says of them. *)
(***************************************************************************)
EXTENDS Gateway, WireFormat_proofs, TLAPS

-----------------------------------------------------------------------------
(* The ZMQ client *)

\* One registration per future and the receiver alive: neither is inductive
\* alone, because the receiver asks the books before it sets a result.
ClientInv ==
  /\ pending_requests \subseteq Calls
  /\ future = [c \in Calls |-> future[c]]
  /\ PendingIsExact
  /\ ReceiverSurvives

\* The states of a future tell it apart from all others.
LEMMA FuturesDiffer ==
  /\ Waiting # Cancelled /\ Waiting # NoFuture /\ Cancelled # NoFuture
  /\ \A msg : Done(msg) # Waiting /\ Done(msg) # Cancelled
  /\ \A f : f.state = "done" => f # Waiting /\ f # Cancelled
<1>1. /\ Waiting.state = "waiting" /\ Cancelled.state = "cancelled"
      /\ NoFuture.state = "none"
      /\ \A msg : Done(msg).state = "done"
  BY DEF Waiting, Cancelled, NoFuture, Done
<1> QED  BY <1>1

\* Every operation of the client preserves its invariant.
LEMMA CallsKeepBooks ==
  ASSUME ClientInv, NEW c \in Calls,
         BeginCall(c) \/ Expire(c) \/ RaiseTimeout(c) \/ Return(c)
  PROVE  ClientInv'
<1> USE DEF ClientInv, PendingIsExact, ReceiverSurvives
<1>1. CASE BeginCall(c)  BY <1>1, FuturesDiffer DEF BeginCall
<1>2. CASE Expire(c)  BY <1>2, FuturesDiffer DEF Expire
<1>3. CASE RaiseTimeout(c)  BY <1>3, FuturesDiffer DEF RaiseTimeout
<1>4. CASE Return(c)
  <2>1. c \notin pending_requests
    BY <1>4, FuturesDiffer DEF Return, Answered
  <2> QED  BY <1>4, <2>1, FuturesDiffer DEF Return
<1> QED  BY <1>1, <1>2, <1>3, <1>4

\* The receiver only ends a call that waits, so it never raises.
LEMMA ReceiveKeepsBooks ==
  ASSUME ClientInv, NEW corr, NEW msg, Receive(corr, msg)
  PROVE  ClientInv'
<1> USE DEF ClientInv, PendingIsExact, ReceiverSurvives
<1>1. CASE corr \in pending_requests /\ future[corr] = Waiting
  <2>1. /\ corr \in Calls
        /\ future' = [future EXCEPT ![corr] = Done(msg)]
        /\ pending_requests' = pending_requests \ {corr}
        /\ receiver' = receiver
    BY <1>1 DEF Receive, SetResult
  <2> QED  BY <2>1, FuturesDiffer
<1>2. CASE ~(corr \in pending_requests /\ future[corr] = Waiting)
  <2>1. /\ future' = future /\ receiver' = receiver
        /\ pending_requests' = pending_requests \ {corr}
    BY <1>2 DEF Receive
  <2> QED  BY <1>2, <2>1
<1> QED  BY <1>1, <1>2

\* A step that leaves the client's books alone.
LEMMA BooksUntouched ==
  ASSUME ClientInv, UNCHANGED <<pending_requests, future, receiver>>
  PROVE  ClientInv'
BY DEF ClientInv, PendingIsExact, ReceiverSurvives

LEMMA ClientInvInit == GatewayInit => ClientInv
BY FuturesDiffer
   DEF GatewayInit, ClientInit, ClientInv, PendingIsExact, ReceiverSurvives

LEMMA ClientInvNext == ClientInv /\ [GatewayNext]_gateway => ClientInv'
<1> SUFFICES ASSUME ClientInv, [GatewayNext]_gateway  PROVE ClientInv'
  OBVIOUS
<1>1. CASE Receiver
  BY <1>1, ReceiveKeepsBooks DEF Receiver
<1>2. ASSUME NEW t \in Calls, Run(t)  PROVE ClientInv'
  <2>1. CASE CallReturns(t)
    BY <2>1, CallsKeepBooks DEF CallReturns
  <2>2. CASE Waits(t)
    BY <2>2, CallsKeepBooks DEF Waits
  <2>3. CASE CallTimesOut(t)
    BY <2>3, CallsKeepBooks DEF CallTimesOut
  <2>4. CASE Broadcasting(t)
    BY <2>4, CallsKeepBooks, BooksUntouched DEF Broadcasting, client
  <2>5. CASE RefundReturns(t) \/ RefundRaises(t)
    BY <2>5, BooksUntouched DEF RefundReturns, RefundRaises, client
  <2> QED  BY <1>2, <2>1, <2>2, <2>3, <2>4, <2>5 DEF Run
<1>3. ASSUME NEW t \in Calls, NEW kind \in Kinds, Start(t, kind)  PROVE ClientInv'
  BY <1>3, CallsKeepBooks, BooksUntouched DEF Start, client
<1>4. CASE Crash
  BY <1>4, FuturesDiffer DEF Crash, ClientInv, PendingIsExact, ReceiverSurvives
<1>5. CASE Endpoint \/ StripeRefunds \/ MerchantRefunds
  BY <1>5, BooksUntouched DEF Endpoint, StripeRefunds, MerchantRefunds, client
<1>6. CASE Engine \/ EngineCrash \/ EngineStart
  BY <1>6, BooksUntouched DEF Engine, EngineCrash, EngineStart, client
<1>7. CASE UNCHANGED gateway
  BY <1>7, BooksUntouched DEF gateway, client
<1> QED
  BY <1>1, <1>2, <1>3, <1>4, <1>5, <1>6, <1>7 DEF GatewayNext, EventLoop

\* An answer can reach exactly the calls that wait (zmq_client.py:200-228).
THEOREM PendingIsExactHolds == GatewaySpec => []PendingIsExact
<1>1. ClientInv => PendingIsExact  BY DEF ClientInv
<1> QED  BY <1>1, ClientInvInit, ClientInvNext, PTL DEF GatewaySpec

\* The receiver never dies of a late or repeated answer (zmq_client.py:210-228).
THEOREM ReceiverSurvivesHolds == GatewaySpec => []ReceiverSurvives
<1>1. ClientInv => ReceiverSurvives  BY DEF ClientInv
<1> QED  BY <1>1, ClientInvInit, ClientInvNext, PTL DEF GatewaySpec

-----------------------------------------------------------------------------
(* The broadcaster *)

Sizes == {Cardinality(S) : S \in SUBSET Browsers} \cup {0}
Casts == [size : Sizes, to : SUBSET Browsers, left : SUBSET Browsers,
          disconnected : SUBSET Browsers]

\* The connections that have not broken.
Connected == {"open", "stalled"}

\* A broadcast remembers only connections that have broken since: a page that
\* came back is another object, which nobody disconnects by mistake.
StreamInv ==
  /\ browser \in [Browsers -> {"away", "open", "stalled", "gone"}]
  /\ cast \in [Broadcasts -> Casts]
  /\ clients \subseteq Browsers
  /\ ClientsAreConnected
  /\ \A t \in Broadcasts : \A b \in cast[t].disconnected : browser[b] \notin Connected

LEMMA EndpointKeepsStream ==
  ASSUME StreamInv, NEW b \in Browsers,
         Connect(b) \/ Stall(b) \/ Resume(b) \/ Leave(b) \/ EndpointEnds(b)
  PROVE  StreamInv'
<1> USE DEF StreamInv, ClientsAreConnected, Connected
<1>1. CASE Connect(b)
  <2>1. /\ browser' = [browser EXCEPT ![b] = "open"]
        /\ clients' = clients \cup {b}
        /\ cast' = [t \in Broadcasts |-> [cast[t] EXCEPT !.to = @ \ {b}, !.left = @ \ {b},
                                                         !.disconnected = @ \ {b}]]
    BY <1>1 DEF Connect
  <2>2. ASSUME NEW t \in Broadcasts
        PROVE  /\ cast'[t] \in Casts
               /\ cast'[t].disconnected = cast[t].disconnected \ {b}
    BY <2>1 DEF Casts
  <2>3. cast' \in [Broadcasts -> Casts]  BY <2>1, <2>2
  <2>4. \A t \in Broadcasts : \A c \in cast'[t].disconnected : browser'[c] \notin Connected
    BY <2>1, <2>2 DEF Casts
  <2> QED  BY <2>1, <2>3, <2>4
<1>2. CASE Leave(b)  BY <1>2 DEF Leave, Casts
<1>3. CASE EndpointEnds(b)  BY <1>3 DEF EndpointEnds, Casts
<1>4. CASE Stall(b) \/ Resume(b)  BY <1>4 DEF Stall, Resume, Casts
<1> QED  BY <1>1, <1>2, <1>3, <1>4

LEMMA CastKeepsStream ==
  ASSUME StreamInv, NEW t \in Broadcasts,
         \/ BeginCast(t) \/ EndCast(t) \/ AbortCast(t)
         \/ \E b \in Browsers : SendTo(t, b)
  PROVE  StreamInv'
<1> USE DEF StreamInv, ClientsAreConnected, Connected
<1>1. CASE BeginCast(t)
  <2>1. [size |-> Cardinality(clients), to |-> {}, left |-> clients,
         disconnected |-> {}] \in Casts
    BY DEF Casts, Sizes
  <2> QED  BY <1>1, <2>1 DEF BeginCast
<1>2. NoCast \in Casts  BY DEF NoCast, Casts, Sizes
<1>3. CASE EndCast(t)
  <2>1. PICK failed \in Failures(t) : clients' = clients \ (cast[t].disconnected \cup failed)
    BY <1>3 DEF EndCast
  <2>2. \A b \in Browsers : b \in cast[t].disconnected \cup failed => browser[b] \notin Connected
    BY <2>1 DEF Failures
  <2>3. cast' = [cast EXCEPT ![t] = NoCast] /\ browser' = browser
    BY <1>3 DEF EndCast
  <2>4. cast' \in [Broadcasts -> Casts] /\ NoCast.disconnected = {}
    BY <1>2, <2>3 DEF NoCast
  <2>5. \A s \in Broadcasts : \A b \in cast'[s].disconnected : browser'[b] \notin Connected
    BY <2>3, <2>4
  <2> QED  BY <2>1, <2>2, <2>3, <2>4, <2>5
<1>4. CASE AbortCast(t)  BY <1>2, <1>4 DEF AbortCast, NoCast
<1>5. ASSUME NEW b \in Browsers, SendTo(t, b)  PROVE StreamInv'
  <2>1. PICK failed \in Failures(t) :
          cast' = [cast EXCEPT ![t].to = {b}, ![t].left = @ \ {b},
                               ![t].disconnected = @ \cup failed]
    BY <1>5 DEF SendTo
  <2>2. \A c \in failed : c \in Browsers /\ browser[c] \notin Connected
    BY <2>1 DEF Failures, Casts
  <2>3. UNCHANGED <<clients, browser>>  BY <1>5 DEF SendTo
  <2>4. /\ cast' \in [Broadcasts -> Casts]
        /\ cast'[t].disconnected = cast[t].disconnected \cup failed
        /\ \A s \in Broadcasts \ {t} : cast'[s] = cast[s]
    <3>1. cast[t] \in Casts /\ cast[t].left \ {b} \subseteq Browsers
          /\ cast[t].disconnected \cup failed \subseteq Browsers
      BY <2>2 DEF Casts
    <3>2. [cast[t] EXCEPT !.to = {b}, !.left = @ \ {b},
                          !.disconnected = @ \cup failed] \in Casts
      BY <3>1 DEF Casts
    <3> QED  BY <2>1, <3>1, <3>2 DEF Casts
  <2>5. \A s \in Broadcasts : \A c \in cast'[s].disconnected : browser'[c] \notin Connected
    BY <2>2, <2>3, <2>4 DEF Casts
  <2> QED  BY <2>3, <2>4, <2>5
<1> QED  BY <1>1, <1>3, <1>4, <1>5

LEMMA StreamUntouched ==
  ASSUME StreamInv, UNCHANGED streaming
  PROVE  StreamInv'
BY DEF StreamInv, ClientsAreConnected, Connected, streaming

\* Going on is beginning a broadcast or leaving them alone.
LEMMA GoKeepsStream ==
  ASSUME StreamInv, NEW t \in Calls, NEW pc, Go(t, pc)
  PROVE  StreamInv'
BY GatewayAssumption, CastKeepsStream, StreamUntouched DEF Go

LEMMA StreamInvInit == GatewayInit => StreamInv
BY DEF GatewayInit, StreamInit, StreamInv, ClientsAreConnected, Connected, NoCast, Casts,
       Sizes

LEMMA StreamInvNext == StreamInv /\ [GatewayNext]_gateway => StreamInv'
<1> SUFFICES ASSUME StreamInv, [GatewayNext]_gateway  PROVE StreamInv'
  OBVIOUS
<1> USE GatewayAssumption
<1>1. CASE Receiver
  BY <1>1, StreamUntouched DEF Receiver
<1>2. ASSUME NEW t \in Calls, Run(t)  PROVE StreamInv'
  <2>1. CASE CallReturns(t)
    BY <2>1, GoKeepsStream DEF CallReturns
  <2>2. CASE Waits(t)
    BY <2>2, StreamUntouched DEF Waits
  <2>3. CASE CallTimesOut(t)
    BY <2>3, GoKeepsStream DEF CallTimesOut
  <2>4. CASE Broadcasting(t)
    BY <2>4, GoKeepsStream, CastKeepsStream DEF Broadcasting
  <2>5. CASE RefundReturns(t) \/ RefundRaises(t)
    BY <2>5, GoKeepsStream DEF RefundReturns, RefundRaises
  <2> QED  BY <1>2, <2>1, <2>2, <2>3, <2>4, <2>5 DEF Run
<1>3. ASSUME NEW t \in Calls, NEW kind \in Kinds, Start(t, kind)  PROVE StreamInv'
  BY <1>3, CastKeepsStream, StreamUntouched DEF Start
<1>4. CASE Crash
  BY <1>4 DEF Crash, StreamInv, ClientsAreConnected, Connected, NoCast, Casts, Sizes
<1>5. CASE Endpoint
  BY <1>5, EndpointKeepsStream DEF Endpoint
<1>6. CASE StripeRefunds \/ MerchantRefunds
  BY <1>6, StreamUntouched DEF StripeRefunds, MerchantRefunds
<1>7. CASE Engine \/ EngineCrash \/ EngineStart
  BY <1>7, StreamUntouched DEF Engine, EngineCrash, EngineStart, streaming
<1>8. CASE UNCHANGED gateway
  BY <1>8, StreamUntouched DEF gateway
<1> QED
  BY <1>1, <1>2, <1>3, <1>4, <1>5, <1>6, <1>7, <1>8 DEF GatewayNext, EventLoop

\* The set of clients is that of the connections (ws_streamer.py:10-26,
\* main.py:41-50), whatever broadcasts, endpoints and pages do meanwhile.
THEOREM ClientsAreConnectedHolds == GatewaySpec => []ClientsAreConnected
<1>1. StreamInv => ClientsAreConnected  BY DEF StreamInv
<1> QED  BY <1>1, StreamInvInit, StreamInvNext, PTL DEF GatewaySpec

-----------------------------------------------------------------------------
(* What the messages carry *)

\* What the engine makes of a transaction: nothing but the id differs.
LEMMA AskedIs ==
  ASSUME NEW t, NEW kind \in DOMAIN Transactions
  PROVE  /\ Asked(t, kind).corr = t
         /\ Asked(t, kind).key = CASE kind = "succeeded" -> <<"charge">>
                                   [] kind = "refunded" -> <<"reversal">>
                                   [] kind = "transfer" -> <<>>
                                   [] kind = "keyed" -> <<"manual">>
<1> DEFINE r == Transactions[kind]
<1>1. kind \in {"succeeded", "refunded", "transfer", "keyed"}
  BY DEF Transactions
<1>2. /\ Len(r.debit) = 1 /\ Len(r.credit) = 1 /\ Len(r.key) \in Nat
      /\ Len(r.description) = 0 /\ Len(r.currency) = 1 /\ Len(r.stripe_charge_id) = 1
  BY <1>1 DEF Transactions, Transfer
<1>3. r.key = CASE kind = "succeeded" -> <<"charge">>
                [] kind = "refunded" -> <<"reversal">>
                [] kind = "transfer" -> <<>>
                [] kind = "keyed" -> <<"manual">>
  BY <1>1 DEF Transactions, Transfer
<1> HIDE DEF r
<1>4. deserialize_request(send_transaction(t, r)) =
        [corr |-> t, amount |-> r.amount, debit |-> r.debit, credit |-> r.credit,
         key |-> r.key, description |-> r.description, currency |-> r.currency,
         stripe_charge_id |-> r.stripe_charge_id]
  BY <1>2, RequestRoundTrip
<1>5. Asked(t, kind) = deserialize_request(send_transaction(t, r))
  BY DEF Asked, r
<1>6. Asked(t, kind).corr = t /\ Asked(t, kind).key = r.key
  BY <1>4, <1>5
<1> QED
  BY <1>3, <1>6

\* The idempotency key the engine reads from each kind of transaction.
LEMMA KeysAre ==
  /\ Keys["succeeded"] = <<"charge">> /\ Keys["refunded"] = <<"reversal">>
  /\ Keys["transfer"] = <<>> /\ Keys["keyed"] = <<"manual">>
<1>1. DOMAIN Transactions = {"succeeded", "refunded", "transfer", "keyed"}
  BY DEF Transactions
<1>2. \A kind \in DOMAIN Transactions : Keys[kind] = Asked(0, kind).key
  BY DEF Keys
<1> QED
  BY <1>1, <1>2, AskedIs

\* An answer finds its task, and says what the engine said.
LEMMA ReplyIs ==
  ASSUME NEW t \in Calls, NEW kind \in DOMAIN Transactions, NEW status \in Statuses
  PROVE  /\ Replies[t][kind][status].corr = t
         /\ Replies[t][kind][status].heard = status
<1> DEFINE r == [corr |-> Asked(t, kind).corr, tx |-> "tx", status |-> status,
                 latency |-> 0, message |-> <<>>]
<1>1. Len(r.message) \in Nat /\ r.corr = t /\ r.status = status
  BY AskedIs
<1>2. ReplyTo(t, kind, status) =
        [corr |-> Read(serialize_response(r), 1, 16),
         heard |-> parse_transaction(serialize_response(r)).status]
  BY DEF ReplyTo, Arriving
<1> HIDE DEF r
<1>3. /\ Read(serialize_response(r), 1, 16) = r.corr
      /\ parse_transaction(serialize_response(r)) =
           [tx |-> r.tx, status |-> r.status, latency |-> r.latency, message |-> r.message]
  BY <1>1, ResponseRoundTrip
<1>4. Replies[t][kind][status] = ReplyTo(t, kind, status)
  BY DEF Replies
<1> QED
  BY <1>1, <1>2, <1>3, <1>4

\* An answer to a call that is no transaction carries the call's id.
LEMMA DirectAnswerIs ==
  ASSUME NEW t \in Calls, NEW kind \in {"create", "metrics", "balances"},
         NEW msg \in DirectAnswers[t][kind]
  PROVE  msg.corr = t
<1>1. ASSUME NEW status PROVE AccountFor(t, status).corr = t
  <2> DEFINE req == deserialize_create_account(send_create(t, <<"name">>, "Asset"))
             r == [corr |-> req.corr, status |-> status, account |-> <<"acc">>,
                   message |-> req.name]
  <2>1. req = [corr |-> t, name |-> <<"name">>, type |-> "Asset"]
    <3>1. Len(<<"name">>) \in Nat
      OBVIOUS
    <3> QED
      BY <3>1, CreateRoundTrip
  <2>2. AccountFor(t, status).corr = Read(serialize_create_account_response(r), 1, 16)
    BY DEF AccountFor, Arriving
  <2> HIDE DEF req
  <2>3. r.corr = t /\ Len(r.account) \in Nat /\ Len(r.message) \in Nat
    BY <2>1
  <2> HIDE DEF r
  <2>4. Read(serialize_create_account_response(r), 1, 16) = r.corr
    BY <2>3, CreatedRoundTrip
  <2> QED
    BY <2>2, <2>3, <2>4
<1>2. SampleFor(t).corr = t
  <2>1. SampleFor(t).corr = Read(serialize_metrics(To(t, Sample)), 1, 16)
    BY DEF SampleFor, Arriving
  <2>2. To(t, Sample).corr = t
    BY DEF To, Sample
  <2> QED
    BY <2>1, <2>2, MetricsCorr
<1>3. BalancesFor(t).corr = t
  <2>1. BalancesFor(t).corr = Read(serialize_balance_snapshot(To(t, Balances)), 1, 16)
    BY DEF BalancesFor, Arriving
  <2>2. To(t, Balances).corr = t /\ To(t, Balances).accounts = <<>>
    BY DEF To, Balances
  <2> QED
    BY <2>1, <2>2, BalancesCorr
<1>4. CASE kind = "create"
  <2>1. msg \in {AccountFor(t, status) : status \in {"OK", "ERR_INTERNAL"}}
    BY <1>4 DEF DirectAnswers
  <2> QED
    BY <1>1, <2>1
<1>5. CASE kind = "metrics"
  BY <1>2, <1>5 DEF DirectAnswers
<1>6. CASE kind = "balances"
  BY <1>3, <1>6 DEF DirectAnswers
<1> QED
  BY <1>4, <1>5, <1>6

-----------------------------------------------------------------------------
(* The saga *)

\* The answers to the call of t, on their way or handed over.
Answers(t) ==
  {msg \in inbox : msg.corr = t}
    \cup IF future[t].state = "done" THEN {future[t].msg} ELSE {}

\* What the engine remembers of the charge, as long as a saga can rely on it.
Remembers(status) ==
  doubts # {} \/ (<<"charge">> \in DOMAIN cache /\ cache[<<"charge">>] = status)
Rejected ==
  doubts # {} \/ (<<"charge">> \in DOMAIN cache /\ cache[<<"charge">>] # "OK")

\* What a task at pc claims: a saga that gave up says that the engine turned the
\* transfer down.
GivenUp == {"invalid", "expired", "refund", "refunded", "unrefunded",
            "compensated", "uncompensated"}
Claims(pc, booked, repaid, rejected) ==
  /\ pc \in {"commit", "success"} => booked
  /\ pc \in {"refunded", "compensated"} => repaid
  /\ pc \in GivenUp => rejected
Told(pc) == Claims(pc, <<"charge">> \in journal, refunded = "saga", Rejected)

PCs == DOMAIN After \cup Final \cup {"idle", "call", "refund"}
FutureStates == {"none", "waiting", "cancelled", "done"}

\* A request or an answer is that of a task that has begun, whose kind no longer
\* changes.
TrafficInv ==
  /\ task \in [Calls -> [kind : Kinds \cup {"none"}, pc : PCs]]
  /\ future = [t \in Calls |-> future[t]]
  /\ outbox \in Seq(Calls)
  /\ \A i \in 1 .. Len(outbox) : ~At(outbox[i], "idle")
  /\ \A msg \in inbox : msg.corr \in Calls
  /\ \A t \in Calls :
       /\ ~At(t, "idle") => task[t].kind \in Kinds
       /\ future[t].state \in FutureStates
       /\ \A msg \in Answers(t) :
            /\ ~At(t, "idle")
            /\ task[t].kind \in DOMAIN Transactions => msg.heard \in Statuses

\* Answers, tasks and refunds all say the same of the charge.
TruthInv ==
  /\ \A t \in Calls : task[t].kind = "succeeded" =>
       \A msg \in Answers(t) :
         /\ msg.heard = "OK" => <<"charge">> \in journal
         /\ Remembers(msg.heard)
  /\ \A t \in Calls : Told(task[t].pc)
  /\ <<"charge">> \in journal => Remembers("OK")
  /\ refunded = "saga" => Rejected

WorldInv ==
  /\ refunded \in {"no", "saga", "merchant"} /\ engine \in {"up", "down"}
  /\ \A key \in DOMAIN cache : cache[key] \in Statuses
  /\ journal \subseteq {<<"charge">>, <<"reversal">>, <<"manual">>}
  /\ doubts \subseteq Doubts /\ crashes \in 0 .. MaxCrashes

\* The steps that disturb none of this: tasks go on, answers are consumed.
TasksGoOn ==
  /\ task' \in [Calls -> [kind : Kinds \cup {"none"}, pc : PCs]]
  /\ \A s \in Calls : ~At(s, "idle") => ~At(s, "idle")' /\ task'[s].kind = task[s].kind
  /\ \A s \in Calls : ~At(s, "idle")' => task'[s].kind \in Kinds

AnswersGo ==
  /\ future' = [t \in Calls |-> future'[t]]
  /\ \A msg \in inbox' : msg.corr \in Calls
  /\ \A s \in Calls : future'[s].state \in FutureStates
  /\ \A s \in Calls : \A msg \in Answers(s)' : msg \in Answers(s)

\* Steps that only let tasks go on and answers go keep the traffic.
LEMMA TrafficKept ==
  ASSUME TrafficInv, TasksGoOn, AnswersGo, outbox' \in Seq(Calls),
         \A i \in 1 .. Len(outbox') : ~At(outbox[i], "idle")'
  PROVE  TrafficInv'
<1>1. ASSUME NEW s \in Calls, NEW msg \in Answers(s)'
      PROVE  /\ ~At(s, "idle")'
             /\ task'[s].kind \in DOMAIN Transactions => msg.heard \in Statuses
  <2>1. msg \in Answers(s)
    BY DEF AnswersGo
  <2>2. ~At(s, "idle") /\ (task[s].kind \in DOMAIN Transactions => msg.heard \in Statuses)
    BY <2>1 DEF TrafficInv
  <2> QED
    BY <2>2 DEF TasksGoOn
<1> QED
  BY <1>1 DEF TrafficInv, TasksGoOn, AnswersGo

\* The same for what the answers tell.
LEMMA TruthKept ==
  ASSUME TrafficInv, TruthInv, TasksGoOn, AnswersGo, \A s \in Calls : Told(task[s].pc)',
         UNCHANGED <<cache, journal>>, doubts \subseteq doubts',
         refunded' = "saga" => Rejected
  PROVE  TruthInv'
<1>1. (\A status : Remembers(status) => Remembers(status)') /\ (Rejected => Rejected')
  BY DEF Remembers, Rejected
<1>2. ASSUME NEW s \in Calls, task'[s].kind = "succeeded", NEW msg \in Answers(s)'
      PROVE  (msg.heard = "OK" => <<"charge">> \in journal') /\ Remembers(msg.heard)'
  <2>1. msg \in Answers(s)
    BY DEF AnswersGo
  <2>2. ~At(s, "idle")
    BY <2>1 DEF TrafficInv
  <2>3. task[s].kind = "succeeded"
    BY <1>2, <2>2 DEF TasksGoOn
  <2>4. (msg.heard = "OK" => <<"charge">> \in journal) /\ Remembers(msg.heard)
    BY <2>1, <2>3 DEF TruthInv
  <2> QED
    BY <1>1, <2>4
<1>3. <<"charge">> \in journal' => Remembers("OK")'
  BY <1>1 DEF TruthInv
<1> QED
  BY <1>1, <1>2, <1>3 DEF TruthInv

\* A step of one task.
LEMMA OneGoesOn ==
  ASSUME TrafficInv, NEW t \in Calls, NEW pc \in PCs, MoveTo(t, pc),
         ~At(t, "idle"), pc # "idle"
  PROVE  /\ TasksGoOn
         /\ task'[t].pc = pc /\ task'[t].kind = task[t].kind
         /\ \A s \in Calls \ {t} : task'[s] = task[s]
<1>1. task \in [Calls -> [kind : Kinds \cup {"none"}, pc : PCs]]
  BY DEF TrafficInv
<1>2. task' = [task EXCEPT ![t].pc = pc]
  BY DEF MoveTo
<1>3. task[t] \in [kind : Kinds \cup {"none"}, pc : PCs]
  BY <1>1
<1>4. task'[t].pc = pc /\ task'[t].kind = task[t].kind
  BY <1>1, <1>2, <1>3
<1>5. \A s \in Calls \ {t} : task'[s] = task[s]
  BY <1>1, <1>2
<1>6. task' \in [Calls -> [kind : Kinds \cup {"none"}, pc : PCs]]
  BY <1>1, <1>2, <1>3
<1>7. \A s \in Calls : ~At(s, "idle") => task[s].kind \in Kinds
  BY DEF TrafficInv
<1>8. ASSUME NEW s \in Calls
      PROVE  /\ ~At(s, "idle") => ~At(s, "idle")' /\ task'[s].kind = task[s].kind
             /\ ~At(s, "idle")' => task'[s].kind \in Kinds
  <2>1. CASE s = t
    BY <1>4, <1>7, <2>1 DEF At
  <2>2. CASE s # t
    <3>1. task'[s] = task[s]
      BY <1>5, <2>2
    <3> QED
      BY <1>7, <3>1 DEF At
  <2> QED
    BY <2>1, <2>2
<1> QED
  BY <1>4, <1>5, <1>6, <1>8 DEF TasksGoOn

\* Where a broadcast leads, no more is claimed than by the event it tells of.
LEMMA AfterTells ==
  ASSUME NEW pc \in DOMAIN After, NEW booked, NEW repaid, NEW rejected
  PROVE  /\ After[pc] \in PCs \ {"idle"} /\ Aborted[pc] \in PCs \ {"idle"}
         /\ Claims(pc, booked, repaid, rejected) =>
              /\ Claims(After[pc], booked, repaid, rejected)
              /\ Claims(Aborted[pc], booked, repaid, rejected)
<1>1. pc \in {"dispatch", "commit", "invalid", "expired", "refunded", "unrefunded", "sample"}
  BY DEF After
<1>2. /\ After[pc] = CASE pc = "dispatch" -> "call" [] pc = "commit" -> "success"
                       [] pc \in {"invalid", "expired"} -> "refund"
                       [] pc = "refunded" -> "compensated"
                       [] pc = "unrefunded" -> "uncompensated" [] pc = "sample" -> "answered"
  BY <1>1 DEF After
<1>3. Aborted[pc] \in {"failed", "unrefunded", "answered"}
      /\ (Aborted[pc] = "unrefunded" => pc = "refunded")
  BY <1>1 DEF Aborted
<1>4. PCs = {"dispatch", "commit", "invalid", "expired", "refunded", "unrefunded", "sample",
             "success", "compensated", "uncompensated", "answered", "failed", "dead",
             "idle", "call", "refund"}
  BY DEF PCs, After, Final
<1>5. After[pc] \in PCs \ {"idle"} /\ Aborted[pc] \in PCs \ {"idle"}
  BY <1>1, <1>2, <1>3, <1>4
<1>6. Claims(pc, booked, repaid, rejected) => Claims(After[pc], booked, repaid, rejected)
  BY <1>1, <1>2 DEF Claims, GivenUp
<1>7. Claims(pc, booked, repaid, rejected) => Claims(Aborted[pc], booked, repaid, rejected)
  BY <1>1, <1>3 DEF Claims, GivenUp
<1> QED
  BY <1>5, <1>6, <1>7
LEMMA NotIdle == "idle" \notin DOMAIN After /\ "dead" \notin DOMAIN After
BY DEF After

\* Going on at pc claims no more than pc does.
LEMMA GoTells ==
  ASSUME NEW t \in Calls, NEW pc \in PCs \ {"idle"}, Go(t, pc)
  PROVE  \E q \in PCs \ {"idle"} :
           MoveTo(t, q) /\ (Told(pc) => Told(q)) /\ (Told(pc)' => Told(q)')
<1>1. CASE pc \in DOMAIN After
  <2>1. MoveTo(t, IF clients = {} THEN After[pc] ELSE pc)
    BY <1>1 DEF Go
  <2>2. After[pc] \in PCs \ {"idle"}
    BY <1>1, AfterTells
  <2>3. (Told(pc) => Told(After[pc])) /\ (Told(pc)' => Told(After[pc])')
    BY <1>1, AfterTells DEF Told
  <2> QED
    BY <2>1, <2>2, <2>3
<1>2. CASE pc \notin DOMAIN After
  <2>1. MoveTo(t, pc)
    BY <1>2 DEF Go
  <2> QED
    BY <2>1
<1> QED
  BY <1>1, <1>2

\* What an operation of the client does to the answers.
LEMMA CallsConsume ==
  ASSUME TrafficInv, NEW c \in Calls, Expire(c) \/ RaiseTimeout(c) \/ Return(c)
  PROVE  AnswersGo /\ outbox' = outbox
<1>1. /\ inbox' = inbox /\ outbox' = outbox
      /\ future' = [future EXCEPT ![c] = NoFuture] \/ future' = [future EXCEPT ![c] = Cancelled]
  BY DEF Expire, RaiseTimeout, Return
<1>2. NoFuture.state = "none" /\ Cancelled.state = "cancelled"
  BY DEF NoFuture, Cancelled
<1>3. future = [s \in Calls |-> future[s]] /\ \A s \in Calls : future[s].state \in FutureStates
  BY DEF TrafficInv
<1>4. \A s \in Calls : future'[s] = future[s] \/ future'[s].state \in {"none", "cancelled"}
  BY <1>1, <1>2, <1>3
<1>5. \A s \in Calls : \A msg \in Answers(s)' : msg \in Answers(s)
  BY <1>1, <1>4 DEF Answers
<1>6. \A s \in Calls : future'[s].state \in FutureStates
  BY <1>3, <1>4 DEF FutureStates
<1>7. future' = [s \in Calls |-> future'[s]]
  BY <1>1, <1>3
<1> QED
  BY <1>1, <1>5, <1>6, <1>7 DEF AnswersGo, TrafficInv

\* A call adds its own request to the outbox, and nothing to the answers.
LEMMA CallBegins ==
  ASSUME TrafficInv, NEW c \in Calls, BeginCall(c)
  PROVE  /\ AnswersGo /\ outbox' \in Seq(Calls)
         /\ \A i \in 1 .. Len(outbox') :
              outbox'[i] = c \/ (i \in 1 .. Len(outbox) /\ outbox'[i] = outbox[i])
<1>1. /\ inbox' = inbox /\ outbox' = Append(outbox, c)
      /\ future' = [future EXCEPT ![c] = Waiting]
  BY DEF BeginCall
<1>2. Waiting.state = "waiting"
  BY DEF Waiting
<1>3. future = [s \in Calls |-> future[s]] /\ \A s \in Calls : future[s].state \in FutureStates
  BY DEF TrafficInv
<1>4. \A s \in Calls : future'[s] = future[s] \/ future'[s].state = "waiting"
  BY <1>1, <1>2, <1>3
<1>5. \A s \in Calls : \A msg \in Answers(s)' : msg \in Answers(s)
  BY <1>1, <1>4 DEF Answers
<1>6. \A s \in Calls : future'[s].state \in FutureStates
  BY <1>3, <1>4 DEF FutureStates
<1>7. future' = [s \in Calls |-> future'[s]]
  BY <1>1, <1>3
<1>8. AnswersGo
  BY <1>1, <1>5, <1>6, <1>7 DEF AnswersGo, TrafficInv
<1>9. outbox \in Seq(Calls)
  BY DEF TrafficInv
<1>10. /\ Append(outbox, c) \in Seq(Calls) /\ Len(Append(outbox, c)) = Len(outbox) + 1
       /\ \A i \in 1 .. Len(outbox) : Append(outbox, c)[i] = outbox[i]
       /\ Append(outbox, c)[Len(outbox) + 1] = c /\ Len(outbox) \in Nat
  BY <1>9, AppendProperties
<1>11. \A i \in 1 .. Len(Append(outbox, c)) : i \in 1 .. Len(outbox) \/ i = Len(outbox) + 1
  BY <1>10
<1> QED
  BY <1>1, <1>8, <1>10, <1>11

\* The receiver hands an answer to the call it is for, or drops it.
LEMMA ReceiverConsumes ==
  ASSUME TrafficInv, NEW msg \in inbox, Receive(msg.corr, msg)
  PROVE  AnswersGo /\ outbox' = outbox
<1> DEFINE c == msg.corr
<1>1. /\ inbox' = inbox \ {msg} /\ outbox' = outbox
      /\ future' = future \/ future' = [future EXCEPT ![c] = Done(msg)]
  BY DEF Receive, SetResult
<1>2. Done(msg).state = "done" /\ Done(msg).msg = msg
  BY DEF Done
<1>3. future = [s \in Calls |-> future[s]] /\ \A s \in Calls : future[s].state \in FutureStates
  BY DEF TrafficInv
<1>4. \A s \in Calls : future'[s] = future[s] \/ (s = c /\ future'[s].state = "done" /\ future'[s].msg = msg)
  BY <1>1, <1>2, <1>3
<1>5. \A s \in Calls : \A m \in Answers(s)' : m \in Answers(s)
  BY <1>1, <1>4 DEF Answers
<1>6. \A s \in Calls : future'[s].state \in FutureStates
  BY <1>3, <1>4 DEF FutureStates
<1>7. future' = [s \in Calls |-> future'[s]]
  BY <1>1, <1>3
<1> QED
  BY <1>1, <1>5, <1>6, <1>7 DEF AnswersGo, TrafficInv

\* Nobody touches the calls.
LEMMA CallsRest ==
  ASSUME TrafficInv, UNCHANGED <<future, inbox>>
  PROVE  AnswersGo
<1>1. \A s \in Calls : \A m \in Answers(s)' : m \in Answers(s)
  BY DEF Answers
<1> QED
  BY <1>1 DEF AnswersGo, TrafficInv

\* A step that leaves the tasks alone lets them go on ...
LEMMA TasksRest ==
  ASSUME TrafficInv, UNCHANGED task
  PROVE  TasksGoOn
BY DEF TrafficInv, TasksGoOn, At

\* ... or the requests.
LEMMA RequestsRest ==
  ASSUME TrafficInv, TasksGoOn, UNCHANGED outbox
  PROVE  /\ outbox' \in Seq(Calls)
         /\ \A i \in 1 .. Len(outbox') : ~At(outbox[i], "idle")'
<1>1. outbox \in Seq(Calls) /\ \A i \in 1 .. Len(outbox) : ~At(outbox[i], "idle")
  BY DEF TrafficInv
<1>2. \A i \in 1 .. Len(outbox) : outbox[i] \in Calls
  BY <1>1, ElementOfSeq
<1> QED
  BY <1>1, <1>2 DEF TasksGoOn, At

-----------------------------------------------------------------------------
(* Every step tells the truth *)

SagaInv == TrafficInv /\ TruthInv /\ WorldInv

\* A step that concerns no task.
LEMMA WorldStep ==
  ASSUME SagaInv, UNCHANGED <<task, outbox, cache, journal>>, AnswersGo,
         refunded' = "saga" => Rejected, doubts \subseteq doubts',
         refunded = "saga" => refunded' = "saga", WorldInv'
  PROVE  SagaInv'
<1>1. TasksGoOn
  BY TasksRest DEF SagaInv
<1>2. TrafficInv'
  BY <1>1, RequestsRest, TrafficKept DEF SagaInv
<1>3. \A s \in Calls : Told(task[s].pc)'
  BY DEF SagaInv, TruthInv, Told, Claims, Rejected
<1>4. TruthInv'
  BY <1>1, <1>3, TruthKept DEF SagaInv
<1> QED
  BY <1>2, <1>4 DEF SagaInv

\* A step of one task to a point where it claims no more than is true.
LEMMA TaskStep ==
  ASSUME SagaInv, NEW t \in Calls, NEW pc \in PCs \ {"idle"}, MoveTo(t, pc),
         ~At(t, "idle"), Told(pc)', AnswersGo, UNCHANGED <<refunded, outside, crashes>>,
         doubts \subseteq doubts', doubts' \subseteq Doubts, outbox' \in Seq(Calls),
         \A i \in 1 .. Len(outbox') :
           outbox'[i] = t \/ (i \in 1 .. Len(outbox) /\ outbox'[i] = outbox[i])
  PROVE  SagaInv'
<1>1. /\ TasksGoOn
      /\ task'[t].pc = pc /\ \A s \in Calls \ {t} : task'[s] = task[s]
  BY OneGoesOn DEF SagaInv
<1>2. \A i \in 1 .. Len(outbox') : ~At(outbox[i], "idle")'
  <2>1. outbox \in Seq(Calls) /\ \A i \in 1 .. Len(outbox) : ~At(outbox[i], "idle")
    BY DEF SagaInv, TrafficInv
  <2>2. \A i \in 1 .. Len(outbox) : outbox[i] \in Calls
    BY <2>1, ElementOfSeq
  <2>3. \A s \in Calls : ~At(s, "idle") => task'[s].pc # "idle"
    BY <1>1 DEF TasksGoOn, At
  <2> QED
    BY <2>1, <2>2, <2>3 DEF At
<1>3. TrafficInv'
  BY <1>1, <1>2, TrafficKept DEF SagaInv
<1>4. UNCHANGED <<cache, journal, refunded, engine, crashes>>
  BY DEF outside
<1>5. \A s \in Calls : Told(task[s].pc)'
  <2>1. ASSUME NEW s \in Calls, s # t  PROVE Told(task[s].pc)'
    <3>1. Told(task[s].pc) /\ task'[s].pc = task[s].pc
      BY <1>1, <2>1 DEF SagaInv, TruthInv
    <3> QED
      BY <1>4, <3>1 DEF Told, Claims, Rejected
  <2>2. Told(task[t].pc)'
    BY <1>1 DEF Told
  <2> QED
    BY <2>1, <2>2
<1>6. refunded' = "saga" => Rejected
  BY <1>4 DEF SagaInv, TruthInv
<1>7. TruthInv'
  BY <1>1, <1>4, <1>5, <1>6, TruthKept DEF SagaInv
<1>8. WorldInv'
  BY <1>4 DEF SagaInv, WorldInv
<1> QED
  BY <1>3, <1>7, <1>8 DEF SagaInv

\* Nothing added to the requests.
LEMMA SameRequests ==
  ASSUME TrafficInv, NEW t, UNCHANGED outbox
  PROVE  /\ outbox' \in Seq(Calls)
         /\ \A i \in 1 .. Len(outbox') :
              outbox'[i] = t \/ (i \in 1 .. Len(outbox) /\ outbox'[i] = outbox[i])
BY DEF TrafficInv

\* The points a task can stand at.
LEMMA PointsAre ==
  /\ {"commit", "invalid", "expired", "refunded", "unrefunded", "sample", "answered",
      "failed", "call", "dispatch"} \subseteq PCs \ {"idle"}
  /\ DOMAIN After \subseteq PCs \ {"idle"}
BY DEF PCs, After, Final

\* Where the saga goes with an answer, the answer justifies.
LEMMA VerdictTells ==
  ASSUME SagaInv, NEW t \in Calls, future[t].state = "done",
         NEW pc \in Verdict(t, future[t].msg.heard)
  PROVE  pc \in PCs \ {"idle"} /\ Told(pc)
<1> DEFINE msg == future[t].msg
<1>1. msg \in Answers(t)
  BY DEF Answers
<1> HIDE DEF msg
<1>2. task[t].kind \in Kinds
  BY <1>1 DEF SagaInv, TrafficInv
<1>3. task[t].kind \in {"succeeded", "refunded", "transfer", "keyed", "create", "balances",
                       "metrics"}
  BY <1>2, GatewayAssumption DEF KindNames
<1>4. pc \in Verdict(t, msg.heard)
  BY DEF msg
<1>5. CASE task[t].kind = "succeeded"
  <2>1. (msg.heard = "OK" => <<"charge">> \in journal) /\ Remembers(msg.heard)
    BY <1>1, <1>5 DEF SagaInv, TruthInv
  <2>2. pc = IF msg.heard = "OK" THEN "commit" ELSE "invalid"
    BY <1>4, <1>5 DEF Verdict
  <2> QED
    BY <2>1, <2>2, PointsAre DEF Told, Claims, GivenUp, Remembers, Rejected
<1>6. CASE task[t].kind # "succeeded"
  <2>1. pc \in {"answered", "failed", "sample"}
    BY <1>3, <1>4, <1>6 DEF Verdict
  <2> QED
    BY <2>1, PointsAre DEF Told, Claims, GivenUp
<1> QED
  BY <1>5, <1>6

\* What a task does with an answer is true if the answer was.
LEMMA AnswerTells ==
  ASSUME SagaInv, NEW t \in Calls, CallReturns(t)
  PROVE  SagaInv'
<1>1. PICK pc \in Verdict(t, future[t].msg.heard) : Go(t, pc)
  BY DEF CallReturns
<1>2. pc \in PCs \ {"idle"} /\ Told(pc)
  BY <1>1, VerdictTells DEF CallReturns, Return, Answered
<1>3. PICK q \in PCs \ {"idle"} : MoveTo(t, q) /\ (Told(pc) => Told(q))
  BY <1>1, <1>2, GoTells
<1>4. UNCHANGED <<refunded, engine, cache, journal, doubts, crashes>>
  BY DEF CallReturns, aside, outside
<1>5. Told(q)'
  BY <1>2, <1>3, <1>4 DEF Told, Claims, Rejected
<1>6. AnswersGo /\ outbox' = outbox
  BY CallsConsume DEF CallReturns, SagaInv
<1>7. ~At(t, "idle")
  BY DEF CallReturns, At
<1>8. doubts' \subseteq Doubts
  BY <1>4 DEF SagaInv, WorldInv
<1> QED
  BY <1>3, <1>4, <1>5, <1>6, <1>7, <1>8, SameRequests, TaskStep DEF SagaInv, outside

\* A timeout tells nothing: what follows it is in doubt.
LEMMA TimeoutTells ==
  ASSUME SagaInv, NEW t \in Calls, CallTimesOut(t)
  PROVE  SagaInv'
<1>1. PICK pc \in {"expired", "answered", "failed"} :
        Go(t, pc) /\ (pc = "expired" => task[t].kind = "succeeded")
  BY DEF CallTimesOut
<1>2. pc \in {"expired", "answered", "failed"} /\ (pc = "expired" => task[t].kind = "succeeded")
  BY <1>1
<1>3. PICK q \in PCs \ {"idle"} : MoveTo(t, q) /\ (Told(pc)' => Told(q)')
  <2>1. pc \in PCs \ {"idle"}
    BY <1>2, PointsAre
  <2>2. \E q \in PCs \ {"idle"} :
          MoveTo(t, q) /\ (Told(pc) => Told(q)) /\ (Told(pc)' => Told(q)')
    BY <1>1, <2>1, GoTells
  <2> QED
    BY <2>2
<1>4. /\ UNCHANGED <<refunded, engine, cache, journal, crashes>>
      /\ doubts' = IF task[t].kind = "succeeded" THEN doubts \cup {"timeout"} ELSE doubts
  BY DEF CallTimesOut, outside
<1>5. Told(pc)'
  <2>1. pc = "expired" => doubts' # {}
    BY <1>2, <1>4
  <2> QED
    BY <1>2, <2>1 DEF Told, Claims, Rejected, GivenUp
<1>6. AnswersGo /\ outbox' = outbox
  BY CallsConsume DEF CallTimesOut, SagaInv
<1>7. ~At(t, "idle")
  BY DEF CallTimesOut, At
<1>8. doubts' \subseteq Doubts /\ doubts \subseteq doubts'
  BY <1>4 DEF SagaInv, WorldInv, Doubts
<1> QED
  BY <1>3, <1>4, <1>5, <1>6, <1>7, <1>8, SameRequests, TaskStep DEF SagaInv, outside

\* A broadcast, finished or aborted, leaves a task at a point it may claim.
LEMMA BroadcastTells ==
  ASSUME SagaInv, NEW t \in Calls, Broadcasting(t)
  PROVE  SagaInv'
<1> DEFINE pc == task[t].pc
<1>1. pc \in DOMAIN After /\ Told(pc) /\ ~At(t, "idle")
  <2>1. pc \in DOMAIN After
    BY DEF Broadcasting
  <2> QED
    BY <2>1, NotIdle DEF SagaInv, TruthInv, At
<1>2. /\ After[pc] \in PCs \ {"idle"} /\ Told(After[pc])
      /\ Aborted[pc] \in PCs \ {"idle"} /\ Told(Aborted[pc])
  BY <1>1, AfterTells DEF Told
<1>3. UNCHANGED <<refunded, engine, cache, journal, doubts, crashes>>
  BY DEF Broadcasting, aside, outside
<1>4. doubts' \subseteq Doubts
  BY <1>3 DEF SagaInv, WorldInv
<1>5. \A q : Told(q) => Told(q)'
  BY <1>3 DEF Told, Claims, Rejected
<1>6. CASE UNCHANGED <<client, task>>
  <2>1. AnswersGo
    BY <1>6, CallsRest DEF SagaInv, client
  <2>2. WorldInv'
    BY <1>3 DEF SagaInv, WorldInv
  <2>3. refunded' = "saga" => Rejected
    BY <1>3 DEF SagaInv, TruthInv
  <2> QED
    BY <1>3, <1>6, <2>1, <2>2, <2>3, WorldStep DEF client
<1>7. CASE /\ MoveTo(t, After[pc])
           /\ IF At(t, "dispatch") THEN BeginCall(t) ELSE UNCHANGED client
  <2>1. /\ AnswersGo /\ outbox' \in Seq(Calls)
        /\ \A i \in 1 .. Len(outbox') :
             outbox'[i] = t \/ (i \in 1 .. Len(outbox) /\ outbox'[i] = outbox[i])
    <3>1. CASE BeginCall(t)
      BY <3>1, CallBegins DEF SagaInv
    <3>2. CASE UNCHANGED client
      BY <3>2, CallsRest, SameRequests DEF SagaInv, client
    <3> QED
      BY <1>7, <3>1, <3>2
  <2> QED
    BY <1>1, <1>2, <1>3, <1>4, <1>5, <1>7, <2>1, TaskStep DEF outside
<1>8. ASSUME UNCHANGED client, NEW q \in PCs \ {"idle"}, MoveTo(t, q), Told(q)
      PROVE  SagaInv'
  <2>1. /\ AnswersGo /\ outbox' \in Seq(Calls)
        /\ \A i \in 1 .. Len(outbox') :
             outbox'[i] = t \/ (i \in 1 .. Len(outbox) /\ outbox'[i] = outbox[i])
    BY <1>8, CallsRest, SameRequests DEF SagaInv, client
  <2> QED
    BY <1>1, <1>3, <1>4, <1>5, <1>8, <2>1, TaskStep DEF outside
<1>9. CASE UNCHANGED client /\ Go(t, Aborted[pc])
  <2>1. PICK q \in PCs \ {"idle"} : MoveTo(t, q) /\ (Told(Aborted[pc]) => Told(q))
    BY <1>2, <1>9, GoTells
  <2> QED
    BY <1>2, <1>8, <1>9, <2>1
<1>10. CASE UNCHANGED client /\ MoveTo(t, Aborted[pc])
  BY <1>2, <1>8, <1>10
<1> QED
  BY <1>6, <1>7, <1>9, <1>10 DEF Broadcasting

\* The refund has been made, or the saga only knows that it asked for it.
LEMMA RefundTells ==
  ASSUME SagaInv, NEW t \in Calls, RefundReturns(t) \/ RefundRaises(t)
  PROVE  SagaInv'
<1>1. PICK pc \in {"refunded", "unrefunded"} : Go(t, pc) /\ (pc = "refunded" => refunded = "saga")
  BY DEF RefundReturns, RefundRaises
<1>2. /\ At(t, "refund") /\ UNCHANGED client
      /\ UNCHANGED <<refunded, engine, cache, journal, doubts, crashes>>
  BY DEF RefundReturns, RefundRaises, aside, outside
<1>3. Rejected
  BY <1>2 DEF SagaInv, TruthInv, Told, Claims, GivenUp, At
<1>4. Told(pc)
  BY <1>1, <1>3 DEF Told, Claims
<1>5. PICK q \in PCs \ {"idle"} : MoveTo(t, q) /\ (Told(pc) => Told(q))
  <2>1. pc \in PCs \ {"idle"}
    BY <1>1, PointsAre
  <2> QED
    BY <1>1, <2>1, GoTells
<1>6. Told(q)'
  BY <1>2, <1>4, <1>5 DEF Told, Claims, Rejected
<1>7. AnswersGo /\ ~At(t, "idle")
  BY <1>2, CallsRest DEF SagaInv, client, At
<1>8. doubts' \subseteq Doubts /\ outbox' = outbox
  BY <1>2 DEF SagaInv, WorldInv, client
<1> QED
  BY <1>2, <1>5, <1>6, <1>7, <1>8, SameRequests, TaskStep DEF SagaInv, outside

\* A task begins: nothing was sent or answered under its id before.
LEMMA StartTells ==
  ASSUME SagaInv, NEW t \in Calls, NEW kind \in Kinds, Start(t, kind)
  PROVE  SagaInv'
<1>1. PICK pc \in {"dispatch", "call"} : task' = [task EXCEPT ![t] = [kind |-> kind, pc |-> pc]]
  BY DEF Start
<1>2. /\ At(t, "idle")
      /\ UNCHANGED <<refunded, engine, cache, journal, doubts, crashes>>
  BY DEF Start, aside, outside
<1>3. task \in [Calls -> [kind : Kinds \cup {"none"}, pc : PCs]]
  BY DEF SagaInv, TrafficInv
<1>4. /\ task'[t].kind = kind /\ task'[t].pc = pc
      /\ \A s \in Calls \ {t} : task'[s] = task[s]
  BY <1>1, <1>3
<1>5. pc \in PCs \ {"idle"}
  BY PointsAre
<1>6. TasksGoOn
  <2>1. task' \in [Calls -> [kind : Kinds \cup {"none"}, pc : PCs]]
    BY <1>1, <1>3, <1>5
  <2>2. ASSUME NEW s \in Calls
        PROVE  /\ ~At(s, "idle") => ~At(s, "idle")' /\ task'[s].kind = task[s].kind
               /\ ~At(s, "idle")' => task'[s].kind \in Kinds
    <3>1. CASE s = t
      BY <1>2, <1>4, <1>5, <3>1 DEF At
    <3>2. CASE s # t
      <4>1. task'[s] = task[s] /\ (~At(s, "idle") => task[s].kind \in Kinds)
        BY <1>4, <3>2 DEF SagaInv, TrafficInv
      <4> QED
        BY <4>1 DEF At
    <3> QED
      BY <3>1, <3>2
  <2> QED
    BY <2>1, <2>2 DEF TasksGoOn
<1>7. /\ AnswersGo /\ outbox' \in Seq(Calls)
      /\ \A i \in 1 .. Len(outbox') :
           outbox'[i] = t \/ (i \in 1 .. Len(outbox) /\ outbox'[i] = outbox[i])
  <2>1. CASE BeginCall(t)
    BY <2>1, CallBegins DEF SagaInv
  <2>2. CASE UNCHANGED client
    BY <2>2, CallsRest, SameRequests DEF SagaInv, client
  <2> QED
    BY <2>1, <2>2 DEF Start
<1>8. \A i \in 1 .. Len(outbox') : ~At(outbox[i], "idle")'
  <2>1. outbox \in Seq(Calls) /\ \A i \in 1 .. Len(outbox) : ~At(outbox[i], "idle")
    BY DEF SagaInv, TrafficInv
  <2>2. \A i \in 1 .. Len(outbox) : outbox[i] \in Calls
    BY <2>1, ElementOfSeq
  <2>3. \A s \in Calls : ~At(s, "idle") => task'[s].pc # "idle"
    BY <1>6 DEF TasksGoOn, At
  <2>4. task'[t].pc # "idle"
    BY <1>4, <1>5
  <2> QED
    BY <1>7, <2>1, <2>2, <2>3, <2>4 DEF At
<1>9. TrafficInv'
  BY <1>6, <1>7, <1>8, TrafficKept DEF SagaInv
<1>10. \A s \in Calls : Told(task[s].pc)'
  <2>1. ASSUME NEW s \in Calls, s # t  PROVE Told(task[s].pc)'
    <3>1. Told(task[s].pc) /\ task'[s].pc = task[s].pc
      BY <1>4, <2>1 DEF SagaInv, TruthInv
    <3> QED
      BY <1>2, <3>1 DEF Told, Claims, Rejected
  <2>2. Told(task[t].pc)'
    BY <1>4 DEF Told, Claims, GivenUp
  <2> QED
    BY <2>1, <2>2
<1>11. TruthInv'
  BY <1>2, <1>6, <1>7, <1>10, TruthKept DEF SagaInv, TruthInv
<1> QED
  BY <1>2, <1>9, <1>11 DEF SagaInv, WorldInv

\* A crash leaves the tasks that ran without a future, and a part of the requests.
LEMMA CrashTells ==
  ASSUME SagaInv, Crash
  PROVE  SagaInv'
<1>1. task' = [t \in Calls |-> [task[t] EXCEPT !.pc = IF Active(t) THEN "dead" ELSE @]]
  BY DEF Crash
<1>2. /\ future' = [c \in Calls |-> NoFuture] /\ inbox' = {}
      /\ UNCHANGED <<refunded, engine, cache, journal, doubts>>
      /\ crashes < MaxCrashes /\ crashes' = crashes + 1
  BY DEF Crash, outside
<1>3. task \in [Calls -> [kind : Kinds \cup {"none"}, pc : PCs]]
  BY DEF SagaInv, TrafficInv
<1>4. "dead" \in PCs
  BY DEF PCs, Final
<1>5. \A s \in Calls : /\ task'[s] \in [kind : Kinds \cup {"none"}, pc : PCs]
                       /\ task'[s].kind = task[s].kind
                       /\ task'[s].pc = IF Active(s) THEN "dead" ELSE task[s].pc
  BY <1>1, <1>3, <1>4
<1>6. TasksGoOn
  <2>1. task' \in [Calls -> [kind : Kinds \cup {"none"}, pc : PCs]]
    BY <1>1, <1>5
  <2>2. \A s \in Calls : /\ ~At(s, "idle") => task[s].kind \in Kinds
                         /\ Active(s) => ~At(s, "idle")
    BY DEF SagaInv, TrafficInv, Active, At
  <2> QED
    BY <1>5, <2>1, <2>2 DEF TasksGoOn, At
<1>7. AnswersGo
  <2>1. NoFuture.state = "none"
    BY DEF NoFuture
  <2> QED
    BY <1>2, <2>1 DEF AnswersGo, Answers, FutureStates
<1>8. PICK n \in 0 .. Len(outbox) : outbox' = [i \in 1 .. n |-> outbox[i]]
  BY DEF Crash, Prefix
<1>9. outbox \in Seq(Calls) /\ \A i \in 1 .. Len(outbox) : ~At(outbox[i], "idle")
  BY DEF SagaInv, TrafficInv
<1>10. \A i \in 1 .. Len(outbox) : outbox[i] \in Calls
  BY <1>9, ElementOfSeq
<1>11. outbox' \in Seq(Calls) /\ Len(outbox') = n /\ \A i \in 1 .. n : outbox'[i] = outbox[i]
  BY <1>8, <1>9, <1>10
<1>12. \A i \in 1 .. Len(outbox') : ~At(outbox[i], "idle")'
  <2>1. \A s \in Calls : ~At(s, "idle") => task'[s].pc # "idle"
    BY <1>6 DEF TasksGoOn, At
  <2>2. Len(outbox) \in Nat
    BY <1>9
  <2> QED
    BY <1>9, <1>10, <1>11, <2>1, <2>2 DEF At
<1>13. TrafficInv'
  BY <1>6, <1>7, <1>11, <1>12, TrafficKept DEF SagaInv
<1>14. \A s \in Calls : Told(task[s].pc)'
  <2>1. \A s \in Calls : Told(task[s].pc)
    BY DEF SagaInv, TruthInv
  <2> QED
    BY <1>2, <1>5, <2>1 DEF Told, Claims, Rejected, GivenUp
<1>15. TruthInv'
  BY <1>2, <1>6, <1>7, <1>14, TruthKept DEF SagaInv, TruthInv
<1>16. WorldInv'
  BY <1>2, GatewayAssumption DEF SagaInv, WorldInv
<1> QED
  BY <1>13, <1>15, <1>16 DEF SagaInv

\* A charge and its reversal have keys of their own.
LEMMA KeysDiffer ==
  /\ <<"charge">> # <<"reversal">> /\ <<"charge">> # <<"manual">>
  /\ <<"charge">> # <<>> /\ <<"reversal">> # <<>> /\ <<"manual">> # <<>>
<1>1. /\ <<"charge">>[1] = "charge" /\ <<"reversal">>[1] = "reversal"
      /\ <<"manual">>[1] = "manual"
  OBVIOUS
<1>2. /\ Len(<<"charge">>) = 1 /\ Len(<<"reversal">>) = 1 /\ Len(<<"manual">>) = 1
      /\ Len(<<>>) = 0
  OBVIOUS
<1> QED
  BY <1>1, <1>2

\* The engine answers the call of t with msg and comes to status: nothing it
\* remembers changes, and what it says of the charge is true.
Answering(t, status, msg) ==
  /\ inbox' \subseteq inbox \cup {msg}
  /\ \A k \in DOMAIN cache : k \in DOMAIN cache' /\ cache'[k] = cache[k]
  /\ \A k \in DOMAIN cache' : cache'[k] \in Statuses
  /\ journal \subseteq journal'
  /\ journal' \subseteq {<<"charge">>, <<"reversal">>, <<"manual">>}
  /\ doubts \subseteq doubts' /\ doubts' \subseteq Doubts
  /\ <<"charge">> \in journal' \ journal => Remembers("OK")'
  /\ task[t].kind = "succeeded" =>
       (status = "OK" => <<"charge">> \in journal') /\ Remembers(status)'

\* A refusal says nothing of the charge, and puts it in doubt ...
LEMMA RefusalTells ==
  ASSUME SagaInv, NEW t \in Calls, task[t].kind \in DOMAIN Transactions,
         EngineRefuses(t)
  PROVE  \E status \in Statuses : Answering(t, status, Replies[t][task[t].kind][status])
<1> DEFINE msg == Replies[t][task[t].kind]["ERR_INTERNAL"]
<1>1. /\ inbox' \subseteq inbox \cup {msg} /\ cache' = cache /\ journal' = journal
      /\ doubts' = IF task[t].kind = "succeeded" THEN doubts \cup {"refused"} ELSE doubts
  BY DEF EngineRefuses, Reply
<1> HIDE DEF msg
<1>2. /\ \A k \in DOMAIN cache : cache[k] \in Statuses
      /\ journal \subseteq {<<"charge">>, <<"reversal">>, <<"manual">>}
      /\ doubts \subseteq Doubts
  BY DEF SagaInv, WorldInv
<1>3. doubts \subseteq doubts' /\ doubts' \subseteq Doubts
  BY <1>1, <1>2 DEF Doubts
<1>4. task[t].kind = "succeeded" => doubts' # {}
  BY <1>1
<1>5. "ERR_INTERNAL" \in Statuses /\ "ERR_INTERNAL" # "OK"
  BY DEF Statuses
<1>6. Answering(t, "ERR_INTERNAL", msg)
  BY <1>1, <1>2, <1>3, <1>4, <1>5 DEF Answering, Remembers
<1> QED
  BY <1>5, <1>6 DEF msg

\* ... and whatever status it comes to otherwise, its answer carries it.
LEMMA TransactionTells ==
  ASSUME SagaInv, NEW t \in Calls, task[t].kind \in DOMAIN Transactions,
         EngineTransacts(t)
  PROVE  \E status \in Statuses : Answering(t, status, Replies[t][task[t].kind][status])
<1> DEFINE kind == task[t].kind
           key == Keys[kind]
<1>1. /\ kind \in {"succeeded", "refunded", "transfer", "keyed"}
      /\ key \in {<<"charge">>, <<"reversal">>, <<"manual">>, <<>>}
      /\ kind = "succeeded" => key = <<"charge">>
  <2>1. kind \in {"succeeded", "refunded", "transfer", "keyed"}
    BY DEF Transactions
  <2> QED
    BY <2>1, KeysAre
<1>2. PICK status \in Statuses :
        /\ IF key = <<>>
             THEN UNCHANGED <<cache, journal>>
             ELSE /\ key \in DOMAIN cache => status = cache[key]
                  /\ cache' = [k \in DOMAIN cache \cup {key} |->
                                 IF k = key THEN status ELSE cache[k]]
                  /\ journal' = IF status = "OK" THEN journal \cup {key} ELSE journal
        /\ \E sent \in Routed :
             IF sent THEN Reply(t, Replies[t][kind][status]) ELSE UNCHANGED inbox
        /\ UNCHANGED doubts
  BY DEF EngineTransacts
<1> HIDE DEF key
<1>3. inbox' \subseteq inbox \cup {Replies[t][kind][status]}
  BY <1>2 DEF Reply
<1>4. /\ \A k \in DOMAIN cache : cache[k] \in Statuses
      /\ journal \subseteq {<<"charge">>, <<"reversal">>, <<"manual">>}
      /\ doubts' = doubts /\ doubts \subseteq Doubts
  BY <1>2 DEF SagaInv, WorldInv
<1>5. CASE key = <<>>
  <2>1. cache' = cache /\ journal' = journal
    BY <1>2, <1>5
  <2>2. kind # "succeeded"
    BY <1>1, <1>5, KeysDiffer
  <2> QED
    BY <1>3, <1>4, <2>1, <2>2 DEF Answering
<1>6. CASE key # <<>>
  <2>1. /\ key \in DOMAIN cache => status = cache[key]
        /\ cache' = [k \in DOMAIN cache \cup {key} |->
                       IF k = key THEN status ELSE cache[k]]
        /\ journal' = IF status = "OK" THEN journal \cup {key} ELSE journal
    BY <1>2, <1>6
  <2>2. /\ \A k \in DOMAIN cache : k \in DOMAIN cache' /\ cache'[k] = cache[k]
        /\ \A k \in DOMAIN cache' : cache'[k] \in Statuses
        /\ key \in DOMAIN cache' /\ cache'[key] = status
    BY <1>4, <2>1
  <2>3. key \in {<<"charge">>, <<"reversal">>, <<"manual">>}
    BY <1>1, <1>6
  <2>4. /\ journal \subseteq journal'
        /\ journal' \subseteq {<<"charge">>, <<"reversal">>, <<"manual">>}
    BY <1>4, <2>1, <2>3
  <2>5. <<"charge">> \in journal' \ journal => key = <<"charge">> /\ status = "OK"
    BY <2>1
  <2>6. status = "OK" => key \in journal'
    BY <2>1
  <2> QED
    BY <1>1, <1>3, <1>4, <2>2, <2>4, <2>5, <2>6 DEF Remembers, Answering
<1> QED
  BY <1>5, <1>6

\* The engine takes a request: its task has begun.
LEMMA HeadIs ==
  ASSUME SagaInv, outbox # <<>>
  PROVE  /\ Head(outbox) \in Calls /\ ~At(Head(outbox), "idle")
         /\ task[Head(outbox)].kind \in Kinds
         /\ Tail(outbox) \in Seq(Calls)
         /\ \A i \in 1 .. Len(Tail(outbox)) : ~At(Tail(outbox)[i], "idle")
<1>1. outbox \in Seq(Calls) /\ \A i \in 1 .. Len(outbox) : ~At(outbox[i], "idle")
  BY DEF SagaInv, TrafficInv
<1>2. /\ 1 \in 1 .. Len(outbox) /\ Head(outbox) = outbox[1] /\ Head(outbox) \in Calls
      /\ Tail(outbox) \in Seq(Calls) /\ Len(Tail(outbox)) = Len(outbox) - 1
      /\ \A i \in 1 .. Len(Tail(outbox)) : Tail(outbox)[i] = outbox[i + 1]
      /\ Len(outbox) \in Nat
  BY <1>1, HeadTailProperties
<1>3. \A i \in 1 .. Len(Tail(outbox)) : i + 1 \in 1 .. Len(outbox)
  BY <1>2
<1> QED
  BY <1>1, <1>2, <1>3 DEF SagaInv, TrafficInv

\* Every answer of the engine, whatever it was asked, keeps the invariant.
LEMMA EngineTells ==
  ASSUME SagaInv, Engine
  PROVE  SagaInv'
<1> DEFINE t == Head(outbox)
<1>1. /\ t \in Calls /\ ~At(t, "idle") /\ task[t].kind \in Kinds
      /\ Tail(outbox) \in Seq(Calls)
      /\ \A i \in 1 .. Len(Tail(outbox)) : ~At(Tail(outbox)[i], "idle")
  BY HeadIs DEF Engine
<1>2. /\ outbox' = Tail(outbox) /\ future' = future /\ task' = task
      /\ refunded' = refunded /\ engine' = engine /\ crashes' = crashes
  BY DEF Engine
<1>3. \E msg : \E status \in Statuses :
        /\ Answering(t, status, msg) /\ msg.corr = t
        /\ task[t].kind \in DOMAIN Transactions => msg.heard = status
  <2>1. CASE task[t].kind \in DOMAIN Transactions
    <3>1. EngineRefuses(t) \/ EngineTransacts(t)
      BY <2>1 DEF Engine
    <3>2. PICK status \in Statuses : Answering(t, status, Replies[t][task[t].kind][status])
      BY <1>1, <2>1, <3>1, RefusalTells, TransactionTells
    <3>3. /\ Replies[t][task[t].kind][status].corr = t
          /\ Replies[t][task[t].kind][status].heard = status
      BY <1>1, <2>1, ReplyIs
    <3> QED
      BY <3>2, <3>3
  <2>2. CASE task[t].kind \notin DOMAIN Transactions
    <3>1. /\ \E msg \in DirectAnswers[t][task[t].kind] : Reply(t, msg)
          /\ UNCHANGED <<cache, journal, doubts>>
      BY <2>2 DEF Engine
    <3>2. PICK msg \in DirectAnswers[t][task[t].kind] : Reply(t, msg)
      BY <3>1
    <3>3. task[t].kind \in {"create", "metrics", "balances"}
      BY <1>1, <2>2, GatewayAssumption DEF KindNames, Transactions
    <3>4. msg.corr = t
      BY <1>1, <3>2, <3>3, DirectAnswerIs
    <3>5. inbox' \subseteq inbox \cup {msg}
      BY <3>2 DEF Reply
    <3>6. Answering(t, "OK", msg) /\ "OK" \in Statuses
      BY <3>1, <3>3, <3>5 DEF Answering, Statuses, SagaInv, WorldInv
    <3> QED
      BY <2>2, <3>4, <3>6
  <2> QED
    BY <2>1, <2>2
<1>4a. PICK msg : \E status \in Statuses :
         /\ Answering(t, status, msg) /\ msg.corr = t
         /\ task[t].kind \in DOMAIN Transactions => msg.heard = status
  BY <1>3
<1>4. PICK status \in Statuses :
        /\ Answering(t, status, msg) /\ msg.corr = t
        /\ task[t].kind \in DOMAIN Transactions => msg.heard = status
  BY <1>4a
<1> HIDE DEF t
<1>5. \A s \in Calls : \A m \in Answers(s)' : m \in Answers(s) \/ (m = msg /\ s = t)
  BY <1>2, <1>4 DEF Answers, Answering
<1>6. TrafficInv'
  <2>1. \A i \in 1 .. Len(outbox') : ~At(outbox[i], "idle")'
    BY <1>1, <1>2 DEF At
  <2>2. \A m \in inbox' : m.corr \in Calls
    BY <1>1, <1>4 DEF SagaInv, TrafficInv, Answering
  <2>3. ASSUME NEW s \in Calls, NEW m \in Answers(s)'
        PROVE  /\ ~At(s, "idle")'
               /\ task'[s].kind \in DOMAIN Transactions => m.heard \in Statuses
    <3>1. CASE m \in Answers(s)
      BY <1>2, <3>1 DEF SagaInv, TrafficInv, At
    <3>2. CASE m = msg /\ s = t
      BY <1>1, <1>2, <1>4, <3>2 DEF At
    <3> QED
      BY <1>5, <2>3, <3>1, <3>2
  <2> QED
    BY <1>1, <1>2, <2>1, <2>2, <2>3 DEF SagaInv, TrafficInv, At
<1>7. (\A st : Remembers(st) => Remembers(st)') /\ (Rejected => Rejected')
  BY <1>4 DEF Remembers, Rejected, Answering
<1>8. TruthInv'
  <2>1. ASSUME NEW s \in Calls, task'[s].kind = "succeeded", NEW m \in Answers(s)'
        PROVE  (m.heard = "OK" => <<"charge">> \in journal') /\ Remembers(m.heard)'
    <3>1. CASE m \in Answers(s)
      <4>1. (m.heard = "OK" => <<"charge">> \in journal) /\ Remembers(m.heard)
        BY <1>2, <2>1, <3>1 DEF SagaInv, TruthInv
      <4> QED
        BY <1>4, <1>7, <4>1 DEF Answering
    <3>2. CASE m = msg /\ s = t
      <4>1. msg.heard = status
        BY <1>2, <1>4, <2>1, <3>2 DEF Transactions
      <4> QED
        BY <1>2, <1>4, <2>1, <3>2, <4>1 DEF Answering
    <3> QED
      BY <1>5, <2>1, <3>1, <3>2
  <2>2. \A s \in Calls : Told(task[s].pc)'
    BY <1>2, <1>4, <1>7 DEF SagaInv, TruthInv, Told, Claims, Answering
  <2>3. <<"charge">> \in journal' => Remembers("OK")'
    BY <1>4, <1>7 DEF SagaInv, TruthInv, Answering
  <2>4. refunded' = "saga" => Rejected'
    BY <1>2, <1>7 DEF SagaInv, TruthInv
  <2> QED
    BY <2>1, <2>2, <2>3, <2>4 DEF TruthInv
<1>9. WorldInv'
  BY <1>2, <1>4 DEF SagaInv, WorldInv, Answering
<1> QED
  BY <1>6, <1>8, <1>9 DEF SagaInv

\* The engine dies: some answers and the oldest requests are lost with it.
LEMMA EngineCrashTells ==
  ASSUME SagaInv, EngineCrash
  PROVE  SagaInv'
<1>1. /\ future' = future /\ task' = task /\ refunded' = refunded /\ journal' = journal
      /\ engine' = "down" /\ crashes < MaxCrashes /\ crashes' = crashes + 1
      /\ cache' = <<>> /\ doubts' = doubts \cup {"forgotten"} /\ inbox' \subseteq inbox
  BY DEF EngineCrash
<1>2. PICK n \in 0 .. Len(outbox) : outbox' = [i \in 1 .. Len(outbox) - n |-> outbox[i + n]]
  BY DEF EngineCrash
<1>3. outbox \in Seq(Calls) /\ \A i \in 1 .. Len(outbox) : ~At(outbox[i], "idle")
  BY DEF SagaInv, TrafficInv
<1>4. Len(outbox) \in Nat /\ \A i \in 1 .. Len(outbox) : outbox[i] \in Calls
  BY <1>3, ElementOfSeq
<1>5. /\ \A i \in 1 .. Len(outbox) - n : i + n \in 1 .. Len(outbox)
      /\ Len(outbox) - n \in Nat
  BY <1>4
<1>6. /\ outbox' \in Seq(Calls) /\ Len(outbox') = Len(outbox) - n
      /\ \A i \in 1 .. Len(outbox) - n : outbox'[i] = outbox[i + n]
  BY <1>2, <1>4, <1>5
<1>7. \A i \in 1 .. Len(outbox') : ~At(outbox[i], "idle")'
  BY <1>1, <1>3, <1>5, <1>6 DEF At
<1>8. TasksGoOn /\ AnswersGo
  <2>1. \A s \in Calls : \A m \in Answers(s)' : m \in Answers(s)
    BY <1>1 DEF Answers
  <2>2. AnswersGo
    BY <1>1, <2>1 DEF AnswersGo, SagaInv, TrafficInv
  <2> QED
    BY <1>1, <2>2, TasksRest DEF SagaInv
<1>9. TrafficInv'
  BY <1>6, <1>7, <1>8, TrafficKept DEF SagaInv
<1>10. \A status : Remembers(status)' /\ Rejected'
  BY <1>1 DEF Remembers, Rejected
<1>11. TruthInv'
  <2>1. \A s \in Calls : Told(task[s].pc)'
    BY <1>1, <1>10 DEF SagaInv, TruthInv, Told, Claims
  <2>2. ASSUME NEW s \in Calls, task'[s].kind = "succeeded", NEW m \in Answers(s)'
        PROVE  m.heard = "OK" => <<"charge">> \in journal'
    BY <1>1, <1>8, <2>2 DEF SagaInv, TruthInv, AnswersGo
  <2> QED
    BY <1>10, <2>1, <2>2 DEF TruthInv
<1>12. WorldInv'
  <2>1. DOMAIN cache' = {}
    BY <1>1
  <2> QED
    BY <1>1, <2>1, GatewayAssumption DEF SagaInv, WorldInv, Doubts
<1> QED
  BY <1>9, <1>11, <1>12 DEF SagaInv

\* At the start nobody has been told anything ...
LEMMA SagaInvInit == GatewayInit => SagaInv
<1> SUFFICES ASSUME GatewayInit  PROVE SagaInv
  OBVIOUS
<1>1. /\ future = [c \in Calls |-> NoFuture] /\ inbox = {} /\ outbox = <<>>
      /\ task = [t \in Calls |-> [kind |-> "none", pc |-> "idle"]]
      /\ refunded = "no" /\ engine = "up" /\ cache = <<>> /\ journal = {}
      /\ doubts = {} /\ crashes = 0
  BY DEF GatewayInit, ClientInit
<1>2. NoFuture.state = "none"
  BY DEF NoFuture
<1>3. \A s \in Calls : Answers(s) = {}
  BY <1>1, <1>2 DEF Answers
<1>4. TrafficInv
  BY <1>1, <1>2, <1>3 DEF TrafficInv, At, PCs, FutureStates
<1>5. TruthInv
  BY <1>1, <1>3 DEF TruthInv, Told, Claims, GivenUp
<1>6. WorldInv
  <2>1. \A key \in DOMAIN cache : cache[key] \in Statuses
    BY <1>1
  <2>2. crashes \in 0 .. MaxCrashes
    BY <1>1, GatewayAssumption
  <2>3. doubts \subseteq Doubts /\ journal \subseteq {<<"charge">>, <<"reversal">>, <<"manual">>}
    BY <1>1
  <2>4. refunded \in {"no", "saga", "merchant"} /\ engine \in {"up", "down"}
    BY <1>1
  <2> QED
    BY <2>1, <2>2, <2>3, <2>4 DEF WorldInv
<1> QED
  BY <1>4, <1>5, <1>6 DEF SagaInv

\* ... and every step keeps the invariant.
LEMMA SagaInvNext == SagaInv /\ [GatewayNext]_gateway => SagaInv'
<1> SUFFICES ASSUME SagaInv, [GatewayNext]_gateway  PROVE SagaInv'
  OBVIOUS
<1>1. refunded = "saga" => Rejected
  BY DEF SagaInv, TruthInv
<1>2. CASE Receiver
  <2>1. PICK msg \in inbox : Receive(msg.corr, msg)
    BY <1>2 DEF Receiver
  <2>2. AnswersGo /\ outbox' = outbox
    BY <2>1, ReceiverConsumes DEF SagaInv
  <2>3. UNCHANGED <<task, refunded, engine, cache, journal, doubts, crashes>>
    BY <1>2 DEF Receiver, aside, outside
  <2>4. WorldInv'
    BY <2>3 DEF SagaInv, WorldInv
  <2> QED
    BY <1>1, <2>2, <2>3, <2>4, WorldStep
<1>3. ASSUME NEW t \in Calls, Run(t)  PROVE SagaInv'
  <2>1. CASE Waits(t)
    <3>1. AnswersGo /\ outbox' = outbox
      BY <2>1, CallsConsume DEF Waits, SagaInv
    <3>2. UNCHANGED <<task, refunded, engine, cache, journal, doubts, crashes>>
      BY <2>1 DEF Waits, aside, outside
    <3>3. WorldInv'
      BY <3>2 DEF SagaInv, WorldInv
    <3> QED
      BY <1>1, <3>1, <3>2, <3>3, WorldStep
  <2> QED
    BY <1>3, <2>1, AnswerTells, TimeoutTells, BroadcastTells, RefundTells DEF Run
<1>4. ASSUME NEW t \in Calls, NEW kind \in Kinds, Start(t, kind)  PROVE SagaInv'
  BY <1>4, StartTells
<1>5. CASE Crash
  BY <1>5, CrashTells
<1>6. CASE Endpoint \/ StripeRefunds \/ MerchantRefunds \/ EngineStart
  <2>1. UNCHANGED <<task, outbox, future, inbox, cache, journal, doubts, crashes>>
    BY <1>6 DEF Endpoint, StripeRefunds, MerchantRefunds, EngineStart, client, aside, outside
  <2>2. refunded' \in {"no", "saga", "merchant"} /\ engine' \in {"up", "down"}
    BY <1>6 DEF Endpoint, StripeRefunds, MerchantRefunds, EngineStart, aside, outside,
                SagaInv, WorldInv
  <2>3. refunded = "saga" => refunded' = "saga"
    BY <1>6 DEF Endpoint, StripeRefunds, MerchantRefunds, EngineStart, aside
  <2>4. refunded' = "saga" => Rejected
    <3>1. CASE StripeRefunds
      BY <3>1 DEF StripeRefunds, At, SagaInv, TruthInv, Told, Claims, GivenUp
    <3>2. CASE ~StripeRefunds
      <4>1. refunded' = refunded \/ refunded' = "merchant"
        BY <1>6, <3>2 DEF Endpoint, MerchantRefunds, EngineStart, aside
      <4> QED
        BY <1>1, <4>1
    <3> QED
      BY <3>1, <3>2
  <2>5. AnswersGo
    BY <2>1, CallsRest DEF SagaInv
  <2>6. WorldInv'
    BY <2>1, <2>2 DEF SagaInv, WorldInv
  <2> QED
    BY <2>1, <2>3, <2>4, <2>5, <2>6, WorldStep
<1>7. CASE Engine
  BY <1>7, EngineTells
<1>8. CASE EngineCrash
  BY <1>8, EngineCrashTells
<1>9. CASE UNCHANGED gateway
  <2>1. UNCHANGED <<task, outbox, future, inbox, refunded, engine, cache, journal,
                    doubts, crashes>>
    BY <1>9 DEF gateway, client, aside, outside
  <2>2. AnswersGo /\ WorldInv'
    BY <2>1, CallsRest DEF SagaInv, WorldInv
  <2> QED
    BY <1>1, <2>1, <2>2, WorldStep
<1> QED
  BY <1>2, <1>3, <1>4, <1>5, <1>6, <1>7, <1>8, <1>9 DEF GatewayNext, EventLoop

\* COMMIT and STRIPE_REFUND SUCCESS on the timeline are true (saga.py:46-53,
\* 95-108), for any number of webhooks, crashes of either process and lost answers.
THEOREM EventsAreTrueHolds == GatewaySpec => []EventsAreTrue
<1>1. SagaInv => EventsAreTrue
  BY DEF SagaInv, TruthInv, Told, Claims, EventsAreTrue
<1> QED
  BY <1>1, SagaInvInit, SagaInvNext, PTL DEF GatewaySpec

\* As long as no saga gave up waiting, none was refused by the full queue and the
\* engine kept its cache, a charge that a saga refunded is not booked, whatever was
\* redelivered, lost or cut short by a crash (saga.py:45-75, ledger.cpp:287).
THEOREM RefundedIsNotBookedHolds == GatewaySpec => []RefundedIsNotBooked
<1>1. SagaInv => RefundedIsNotBooked
  BY DEF SagaInv, TruthInv, Remembers, Rejected, RefundedIsNotBooked
<1> QED
  BY <1>1, SagaInvInit, SagaInvNext, PTL DEF GatewaySpec

\* The types of all the gateway's state, the statuses in the answers included.
THEOREM GatewayTypeOKHolds == GatewaySpec => []GatewayTypeOK
<1>1. ClientInv /\ StreamInv /\ SagaInv => GatewayTypeOK
  <2> SUFFICES ASSUME ClientInv, StreamInv, SagaInv  PROVE GatewayTypeOK
    OBVIOUS
  <2>1. pending_requests \subseteq Calls /\ receiver = "running"
    BY DEF ClientInv, ReceiverSurvives
  <2>2. /\ clients \subseteq Browsers /\ browser \in [Browsers -> {"away", "open", "stalled", "gone"}]
        /\ \A t \in Calls :
             cast[t].to \cup cast[t].left \cup cast[t].disconnected \subseteq Browsers
    BY GatewayAssumption DEF StreamInv, Casts
  <2>3. ASSUME NEW t \in Calls
        PROVE  /\ task[t].kind \in Kinds \cup {"none"}
               /\ task[t].pc \in DOMAIN After \cup Final \cup {"idle", "call", "refund"}
               /\ future[t].state \in {"none", "waiting", "cancelled", "done"}
               /\ future[t].state = "done" /\ task[t].kind \in DOMAIN Transactions
                    => future[t].msg.heard \in Statuses
    <3>1. task[t] \in [kind : Kinds \cup {"none"}, pc : PCs]
      BY DEF SagaInv, TrafficInv
    <3>2. future[t].state \in FutureStates
      BY DEF SagaInv, TrafficInv
    <3>3. future[t].state = "done" => future[t].msg \in Answers(t)
      BY DEF Answers
    <3>4. \A msg \in Answers(t) : task[t].kind \in DOMAIN Transactions => msg.heard \in Statuses
      BY DEF SagaInv, TrafficInv
    <3> QED
      BY <3>1, <3>2, <3>3, <3>4 DEF PCs, FutureStates
  <2>4. outbox \in Seq(Calls) /\ WorldInv
    BY DEF SagaInv, TrafficInv
  <2> QED
    BY <2>1, <2>2, <2>3, <2>4 DEF GatewayTypeOK, WorldInv
<1> QED
  BY <1>1, ClientInvInit, ClientInvNext, StreamInvInit, StreamInvNext, SagaInvInit,
     SagaInvNext, PTL DEF GatewaySpec
==============================================================================

-------------------------- MODULE EngineServer_proofs --------------------------
(***************************************************************************)
(* Proofs about the engine server.  Every behaviour of it is one of the    *)
(* ledger engine it extends, so that what is proved of the ledger holds    *)
(* behind the server, too; its own types and the finality of a refusal     *)
(* follow from where a message is: in the socket, in the handler, accepted *)
(* or answered.                                                            *)
(***************************************************************************)
EXTENDS EngineServer, LedgerRefinement_proofs

-----------------------------------------------------------------------------
(* The server is a ledger engine *)

LEMMA ServerStepIsALedgerStep == [ServerNext]_<<vars, server>> => [Next]_vars
<1> SUFFICES ASSUME [ServerNext]_<<vars, server>>  PROVE [Next]_vars
  OBVIOUS
<1>1. CASE RunEngine
  BY <1>1 DEF RunEngine, Next
<1>2. CASE io_loop
  <2>1. CASE TestServing \/ PollTimeout \/ Receive \/ HandleUnknown \/ DrainDone
    BY <2>1 DEF TestServing, PollTimeout, Receive, HandleUnknown, DrainDone
  <2>2. CASE RefuseTransaction \/ HandleBalance
    BY <2>2 DEF RefuseTransaction, HandleBalance
  <2>3. CASE AcceptTransaction
    BY <2>3 DEF AcceptTransaction, Next
  <2>4. CASE BeginCreate \/ EndCreate
    BY <2>4 DEF BeginCreate, EndCreate, create_account, Next
  <2>5. CASE BeginMetrics \/ SampleMetrics \/ SendMetrics \/ ResetMetrics
    BY <2>5 DEF BeginMetrics, SampleMetrics, SendMetrics, ResetMetrics, poll_metrics, Next
  <2>6. CASE DrainReply
    BY <2>6 DEF DrainReply, Next
  <2> QED  BY <1>2, <2>1, <2>2, <2>3, <2>4, <2>5, <2>6 DEF io_loop
<1>3. CASE BeginStop \/ stop
  BY <1>3 DEF BeginStop, stop, ShutDownEngine, Joined, Next
<1>4. ASSUME NEW client \in Clients, NEW kind \in Kinds, Send(client, kind)
      PROVE  [Next]_vars
  BY <1>4 DEF Send
<1>5. CASE UNCHANGED <<vars, server>>
  BY <1>5
<1> QED  BY <1>1, <1>2, <1>3, <1>4, <1>5 DEF ServerNext

\* The server drives the ledger only in the ways LedgerEngine allows: it feeds,
\* drains, polls and stops it one call at a time (server.cpp:254-407).
THEOREM ServerIsALedger == ServerSpec => Spec
<1>1. ServerInit => Init  BY DEF ServerInit
<1> QED  BY <1>1, ServerStepIsALedgerStep, PTL DEF ServerSpec, Spec

\* What this is for: behind the server, too, no key commits twice, replies are
\* truthful, and the ledger is an atomic one (ledger.cpp:224-300).
THEOREM ServedLedgerIsCorrect ==
  ServerSpec => [](TypeOK /\ KeyCommitsOnce /\ RepliesAreTruthful) /\ RefinesAtomicLedger
BY ServerIsALedger, TypeCorrect, KeyCommitsOnceHolds, RepliesAreTruthfulHolds,
   ImplementsAtomicLedger, PTL

-----------------------------------------------------------------------------
(* Types *)

AnswersOfClients ==
  \A a \in answers :
    /\ a.to \in Clients /\ a.id \in 1 .. MaxMessages
    /\ a.what \in {"full", "account", "metrics", "balances", "reply"}

\* The map the drain loop searches stays empty: nothing is ever stored in it.
ServerInv ==
  /\ serving \in BOOLEAN
  /\ mpc \in {"waiting", "shutdown", "join", "stopped"}
  /\ iopos \in {"top", "poll", "handle", "create", "metrics", "drain", "done"}
  /\ inbox \in Seq(Message) /\ messages \in 0 .. MaxMessages
  /\ iopos \in {"handle", "create", "metrics"} => message \in Message
  /\ stored_identities \in Seq(Clients)
  /\ drain_identities = <<>>
  /\ origin \in Seq(Message)
  /\ AnswersOfClients

LEMMA ServerInvInit == ServerInit => ServerInv
BY MessageAssumption DEF ServerInit, ServerInv, AnswersOfClients

\* An answer to the message being handled.
LEMMA AnswerIsTyped ==
  ASSUME ServerInv, message \in Message,
         NEW what \in {"full", "account", "metrics", "balances", "reply"},
         answers' = answers \cup {Answer(what)}
  PROVE  AnswersOfClients'
BY DEF ServerInv, AnswersOfClients, Answer, Message

\* With an empty map, draining answers nobody.
LEMMA DrainIsSilent ==
  ASSUME ServerInv, DrainReply
  PROVE  UNCHANGED <<answers, drain_identities>>
<1>1. DOMAIN drain_identities = {}  BY DEF ServerInv
<1> QED  BY <1>1 DEF DrainReply

LEMMA ServerInvNext ==
  ServerInv /\ [ServerNext]_<<vars, server>> => ServerInv'
<1> SUFFICES ASSUME ServerInv, [ServerNext]_<<vars, server>>  PROVE ServerInv'
  OBVIOUS
<1> USE DEF socket, identities
<1>1. CASE RunEngine
  BY <1>1 DEF RunEngine, server, ServerInv, AnswersOfClients
<1>2. CASE io_loop
  <2>1. CASE TestServing \/ PollTimeout \/ HandleUnknown \/ DrainDone
    BY <2>1 DEF TestServing, PollTimeout, HandleUnknown, DrainDone, ServerInv,
                AnswersOfClients
  <2>2. CASE Receive
    BY <2>2 DEF Receive, ServerInv, AnswersOfClients
  <2>3. CASE AcceptTransaction
    <3>1. message \in Message /\ message.client \in Clients
      BY <2>3 DEF AcceptTransaction, Handling, ServerInv, Message
    <3> QED  BY <2>3, <3>1 DEF AcceptTransaction, ServerInv, AnswersOfClients
  <2>4. CASE RefuseTransaction \/ HandleBalance
    <3>1. message \in Message
      BY <2>4 DEF RefuseTransaction, HandleBalance, Handling, ServerInv
    <3>2. AnswersOfClients'
      BY <2>4, <3>1, AnswerIsTyped DEF RefuseTransaction, HandleBalance
    <3> QED  BY <2>4, <3>2 DEF RefuseTransaction, HandleBalance, ServerInv
  <2>5. CASE BeginCreate \/ BeginMetrics \/ SampleMetrics \/ ResetMetrics
    BY <2>5 DEF BeginCreate, BeginMetrics, SampleMetrics, ResetMetrics, Handling,
                ServerInv, AnswersOfClients
  <2>6. CASE EndCreate \/ SendMetrics
    <3>1. message \in Message
      BY <2>6 DEF EndCreate, SendMetrics, ServerInv
    <3>2. AnswersOfClients'
      BY <2>6, <3>1, AnswerIsTyped DEF EndCreate, SendMetrics
    <3> QED  BY <2>6, <3>2 DEF EndCreate, SendMetrics, ServerInv
  <2>7. CASE DrainReply
    BY <2>7, DrainIsSilent DEF DrainReply, ServerInv, AnswersOfClients
  <2> QED
    BY <1>2, <2>1, <2>2, <2>3, <2>4, <2>5, <2>6, <2>7 DEF io_loop
<1>3. CASE BeginStop \/ stop
  BY <1>3 DEF BeginStop, stop, ShutDownEngine, Joined, ServerInv, AnswersOfClients
<1>4. ASSUME NEW client \in Clients, NEW kind \in Kinds, Send(client, kind)
      PROVE  ServerInv'
  <2>1. [client |-> client, kind |-> kind, id |-> messages'] \in Message
    BY <1>4, MessageAssumption DEF Send, Message, ServerInv
  <2> QED  BY <1>4, <2>1, MessageAssumption DEF Send, ServerInv, AnswersOfClients
<1>5. CASE UNCHANGED <<vars, server>>
  BY <1>5 DEF server, ServerInv, AnswersOfClients
<1> QED  BY <1>1, <1>2, <1>3, <1>4, <1>5 DEF ServerNext

LEMMA ServerInvHolds == ServerSpec => []ServerInv
BY ServerInvInit, ServerInvNext, PTL DEF ServerSpec

\* Every variable of the server and of its ledger keeps its type.
THEOREM ServerTypeCorrect == ServerSpec => []ServerTypeOK
<1>1. TypeOK /\ ServerInv => ServerTypeOK
  BY DEF ServerInv, ServerTypeOK, AnswersOfClients
<1> QED  BY <1>1, ServerIsALedger, TypeCorrect, ServerInvHolds, PTL

-----------------------------------------------------------------------------
(* A refusal is final *)

\* Nothing has come of a message yet.
Fresh(id) == ~Accepted(id) /\ \A a \in answers : a.id # id

\* The handler may still answer its message.
Open == iopos \in {"handle", "create"} \/ (iopos = "metrics" /\ iopc \in {"sample", "check"})

\* A message in the socket or open in the handler is fresh, and no two of them
\* are the same: without this a step before the second answer looks harmless.
OriginIsKnown == \A k \in 1 .. Len(origin) : origin[k].id <= messages
SocketIsFresh ==
  \A k \in 1 .. Len(inbox) : inbox[k].id <= messages /\ Fresh(inbox[k].id)
SocketIsOrdered ==
  \A j, k \in 1 .. Len(inbox) : j < k => inbox[j].id # inbox[k].id
HandlerIsFresh ==
  Open => /\ message.id <= messages /\ Fresh(message.id)
          /\ \A k \in 1 .. Len(inbox) : inbox[k].id # message.id
AnswersAreKnown == \A a \in answers : a.id <= messages

FinalInv ==
  /\ ServerInv
  /\ OriginIsKnown /\ SocketIsFresh /\ SocketIsOrdered
  /\ HandlerIsFresh /\ AnswersAreKnown
  /\ RefusalIsFinal

LEMMA FinalInvInit == ServerInit => FinalInv
BY ServerInvInit
   DEF ServerInit, FinalInv, OriginIsKnown, SocketIsFresh, SocketIsOrdered,
       HandlerIsFresh, AnswersAreKnown, RefusalIsFinal, Open

\* Steps that neither answer, accept, read nor send.
LEMMA NothingHappens ==
  ASSUME FinalInv, ServerInv', UNCHANGED <<inbox, messages, origin, answers, message>>,
         Open' => Open
  PROVE  FinalInv'
BY DEF FinalInv, OriginIsKnown, SocketIsFresh, SocketIsOrdered, HandlerIsFresh,
       AnswersAreKnown, RefusalIsFinal, Fresh, Accepted

\* The handler answers its message and closes it.
LEMMA HandlerAnswers ==
  ASSUME FinalInv, ServerInv', UNCHANGED <<inbox, messages, origin, message>>,
         Open, ~Open', NEW what, answers' = answers \cup {Answer(what)}
  PROVE  FinalInv'
<1>1. Answer(what).id = message.id  BY DEF Answer
<1>2. Fresh(message.id)  BY DEF FinalInv, HandlerIsFresh
<1>3. SocketIsFresh'
  BY <1>1 DEF FinalInv, SocketIsFresh, HandlerIsFresh, Fresh, Accepted
<1>4. AnswersAreKnown'
  BY <1>1 DEF FinalInv, AnswersAreKnown, HandlerIsFresh
<1>5. RefusalIsFinal'
  BY <1>1, <1>2 DEF FinalInv, RefusalIsFinal, Fresh, Accepted
<1> QED
  BY <1>3, <1>4, <1>5 DEF FinalInv, OriginIsKnown, SocketIsOrdered, HandlerIsFresh

LEMMA FinalInvNext ==
  FinalInv /\ ServerInv' /\ [ServerNext]_<<vars, server>> => FinalInv'
<1> SUFFICES ASSUME FinalInv, ServerInv', [ServerNext]_<<vars, server>>
             PROVE  FinalInv'
  OBVIOUS
<1> USE DEF socket, identities
<1>0. inbox \in Seq(Message) /\ origin \in Seq(Message) /\ messages \in Nat
  BY DEF FinalInv, ServerInv
<1>1. CASE RunEngine
  <2>1. iopc' = iopc
    BY <1>1 DEF RunEngine, run, io, TestRunning, PopRequest, ReplyFromCache,
       Validate, Log, Debit, Credit, Reply, CountTotal, CountWindow, CountLatency, Count
  <2> QED  BY <1>1, <2>1, NothingHappens DEF RunEngine, server, Open
<1>2. CASE io_loop
  <2>1. CASE TestServing \/ PollTimeout \/ HandleUnknown \/ DrainDone
    BY <2>1, NothingHappens
       DEF TestServing, PollTimeout, HandleUnknown, DrainDone, Open
  <2>2. CASE Receive
    <3>1. /\ message' = inbox[1] /\ Len(inbox) > 0
          /\ Len(inbox') = Len(inbox) - 1
          /\ \A k \in 1 .. Len(inbox') : inbox'[k] = inbox[k + 1]
          /\ UNCHANGED <<messages, origin, answers>>
      BY <1>0, <2>2 DEF Receive
    <3>2. \A k \in 1 .. Len(inbox') : k + 1 \in 1 .. Len(inbox) /\ 1 < k + 1
      BY <1>0, <3>1
    <3>3. SocketIsFresh'
      BY <3>1, <3>2 DEF FinalInv, SocketIsFresh, Fresh, Accepted
    <3>4. SocketIsOrdered'
      <4>1. ASSUME NEW j \in 1 .. Len(inbox'), NEW k \in 1 .. Len(inbox'), j < k
            PROVE  inbox'[j].id # inbox'[k].id
        <5>1. /\ j + 1 \in 1 .. Len(inbox) /\ k + 1 \in 1 .. Len(inbox) /\ j + 1 < k + 1
              /\ inbox'[j] = inbox[j + 1] /\ inbox'[k] = inbox[k + 1]
          BY <3>1, <3>2, <4>1
        <5> QED  BY <5>1 DEF FinalInv, SocketIsOrdered
      <4> QED  BY <4>1 DEF SocketIsOrdered
    <3>5. 1 \in 1 .. Len(inbox)  BY <1>0, <3>1
    <3>6. \A k \in 1 .. Len(inbox') : inbox'[k].id # message'.id
      BY <3>1, <3>2, <3>5 DEF FinalInv, SocketIsOrdered
    <3>7. HandlerIsFresh'
      BY <3>1, <3>5, <3>6 DEF FinalInv, SocketIsFresh, HandlerIsFresh, Fresh, Accepted
    <3> QED
      BY <3>1, <3>3, <3>4, <3>7
         DEF FinalInv, OriginIsKnown, AnswersAreKnown, RefusalIsFinal, Accepted
  <2>3. CASE AcceptTransaction
    <3>1. /\ Open /\ ~Open' /\ origin' = Append(origin, message)
          /\ UNCHANGED <<inbox, messages, answers>>
      BY <2>3 DEF AcceptTransaction, Handling, Open
    <3>2. message \in Message
      BY <2>3 DEF AcceptTransaction, Handling, FinalInv, ServerInv
    <3>3. /\ message.id <= messages /\ Fresh(message.id)
          /\ \A k \in 1 .. Len(inbox) : inbox[k].id # message.id
      BY <3>1 DEF FinalInv, HandlerIsFresh
    <3>4. \A k \in 1 .. Len(origin') :
            origin'[k] = message \/ (k \in 1 .. Len(origin) /\ origin'[k] = origin[k])
      BY <1>0, <3>1, <3>2
    <3>5. \A id : Accepted(id)' => Accepted(id) \/ id = message.id
      BY <3>4 DEF Accepted
    <3>6. OriginIsKnown'  BY <3>1, <3>3, <3>4 DEF FinalInv, OriginIsKnown
    <3>7. SocketIsFresh'
      BY <3>1, <3>3, <3>5 DEF FinalInv, SocketIsFresh, Fresh
    <3>8. RefusalIsFinal'
      BY <3>1, <3>3, <3>5 DEF FinalInv, RefusalIsFinal, Fresh
    <3> QED
      BY <3>1, <3>6, <3>7, <3>8
         DEF FinalInv, SocketIsOrdered, HandlerIsFresh, AnswersAreKnown
  <2>4. CASE RefuseTransaction \/ HandleBalance
    BY <2>4, HandlerAnswers
       DEF RefuseTransaction, HandleBalance, Handling, Open
  <2>5. CASE BeginCreate \/ BeginMetrics
    BY <2>5, NothingHappens DEF BeginCreate, BeginMetrics, Handling, Open
  <2>6. CASE SampleMetrics \/ ResetMetrics
    <3>1. Open' => Open
      BY <2>6 DEF SampleMetrics, SampleCount, SampleLatency, Load, ResetMetrics,
                  ResetCount, ResetLatency, Clear, Open
    <3> QED  BY <2>6, <3>1, NothingHappens DEF SampleMetrics, ResetMetrics
  <2>7. CASE EndCreate
    BY <2>7, HandlerAnswers DEF EndCreate, Open
  <2>8. CASE SendMetrics
    BY <2>8, HandlerAnswers DEF SendMetrics, CheckInvariant, Open
  <2>9. CASE DrainReply
    <3>1. ServerInv  BY DEF FinalInv
    <3> QED  BY <2>9, <3>1, DrainIsSilent, NothingHappens DEF DrainReply, Open
  <2> QED
    BY <1>2, <2>1, <2>2, <2>3, <2>4, <2>5, <2>6, <2>7, <2>8, <2>9 DEF io_loop
<1>3. CASE BeginStop \/ stop
  <2>1. iopc' = iopc
    BY <1>3 DEF BeginStop, stop, ShutDownEngine, Joined, shutdown, vars, io
  <2> QED
    BY <1>3, <2>1, NothingHappens DEF BeginStop, stop, ShutDownEngine, Joined, Open
<1>4. ASSUME NEW client \in Clients, NEW kind \in Kinds, Send(client, kind)
      PROVE  FinalInv'
  <2>0. PICK m : m = [client |-> client, kind |-> kind, id |-> messages']
    OBVIOUS
  <2>1. /\ messages' = messages + 1 /\ inbox' = Append(inbox, m)
        /\ UNCHANGED <<origin, answers, message, iopos, iopc>>
    BY <1>4, <2>0 DEF Send, vars, io
  <2>2. m \in Message
    BY <1>4, <2>0, <2>1, MessageAssumption DEF Send, Message, FinalInv, ServerInv
  <2>3. m.id = messages + 1  BY <2>0, <2>1
  <2>4. \A k \in 1 .. Len(inbox') :
          \/ k = Len(inbox) + 1 /\ inbox'[k] = m
          \/ k \in 1 .. Len(inbox) /\ inbox'[k] = inbox[k]
    BY <1>0, <2>1, <2>2
  <2>5. \A a \in answers : a.id \in Int /\ a.id <= messages
    BY DEF FinalInv, AnswersAreKnown, ServerInv, AnswersOfClients
  <2>6. \A k \in 1 .. Len(origin) : origin[k].id \in Int /\ origin[k].id <= messages
    <3>1. \A k \in 1 .. Len(origin) : origin[k] \in Message  BY <1>0
    <3>2. \A k \in 1 .. Len(origin) : origin[k].id \in Int  BY <3>1 DEF Message
    <3> QED  BY <3>2 DEF FinalInv, OriginIsKnown
  <2>7. \A k \in 1 .. Len(inbox) : inbox[k].id \in Int /\ inbox[k].id <= messages
    <3>1. \A k \in 1 .. Len(inbox) : inbox[k] \in Message  BY <1>0
    <3>2. \A k \in 1 .. Len(inbox) : inbox[k].id \in Int  BY <3>1 DEF Message
    <3> QED  BY <3>2 DEF FinalInv, SocketIsFresh
  <2>8. Fresh(m.id)
    BY <1>0, <2>3, <2>5, <2>6 DEF Fresh, Accepted
  <2>9. SocketIsFresh'
    <3>1. \A k \in 1 .. Len(inbox') : inbox'[k].id <= messages' /\ Fresh(inbox'[k].id)
      BY <1>0, <2>1, <2>3, <2>4, <2>7, <2>8 DEF FinalInv, SocketIsFresh
    <3> QED  BY <2>1, <3>1 DEF SocketIsFresh, Fresh, Accepted
  <2>10. SocketIsOrdered'
    <3>1. ASSUME NEW j \in 1 .. Len(inbox'), NEW k \in 1 .. Len(inbox'), j < k
          PROVE  inbox'[j].id # inbox'[k].id
      <4>1. Len(inbox) \in Nat /\ messages \in Int  BY <1>0
      <4>2. j \in 1 .. Len(inbox) /\ inbox'[j] = inbox[j]
        BY <2>4, <3>1, <4>1, <2>1
      <4>3. CASE inbox'[k] = m  BY <2>3, <2>7, <4>1, <4>2, <4>3
      <4>4. CASE k \in 1 .. Len(inbox) /\ inbox'[k] = inbox[k]
        BY <3>1, <4>2, <4>4 DEF FinalInv, SocketIsOrdered
      <4> QED  BY <2>4, <4>3, <4>4
    <3> QED  BY <3>1 DEF SocketIsOrdered
  <2>11. Open => message.id \in Int
    BY DEF FinalInv, ServerInv, Open, Message
  <2>12. HandlerIsFresh'
    BY <1>0, <2>1, <2>3, <2>4, <2>11
       DEF FinalInv, HandlerIsFresh, Open, Fresh, Accepted
  <2>13. OriginIsKnown' /\ AnswersAreKnown'
    <3>1. \A n \in Int : n <= messages => n <= messages'  BY <1>0, <2>1
    <3>2. \A k \in 1 .. Len(origin) : origin[k].id <= messages'  BY <2>6, <3>1
    <3>3. \A a \in answers : a.id <= messages'  BY <2>5, <3>1
    <3> QED  BY <2>1, <3>2, <3>3 DEF OriginIsKnown, AnswersAreKnown
  <2>14. RefusalIsFinal'  BY <2>1 DEF FinalInv, RefusalIsFinal, Accepted
  <2> QED  BY <2>9, <2>10, <2>12, <2>13, <2>14 DEF FinalInv
<1>5. CASE UNCHANGED <<vars, server>>
  BY <1>5, NothingHappens DEF server, Open, vars, io
<1> QED  BY <1>1, <1>2, <1>3, <1>4, <1>5 DEF ServerNext

\* One answer to a message at the most, and none to one that was accepted after
\* its refusal was sent (server.cpp:305-375).
THEOREM RefusalIsFinalHolds == ServerSpec => []RefusalIsFinal
<1>1. FinalInv => RefusalIsFinal  BY DEF FinalInv
<1> QED  BY <1>1, FinalInvInit, FinalInvNext, ServerInvHolds, PTL DEF ServerSpec
=============================================================================

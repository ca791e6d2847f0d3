---------------------------- MODULE EngineServer ----------------------------
(***************************************************************************)
(* The ZeroMQ server of engine/src/server.cpp around the ledger engine:    *)
(* its I/O thread polls the ROUTER socket, hands each message to the       *)
(* ledger and drains the reply queue after every poll; the main thread     *)
(* stops it.  The ledger's own thread and data are those of LedgerEngine,  *)
(* whose actions are taken here one by one, over one life of the process.  *)
(*                                                                         *)
(* A message is its kind and its sender; the contents of a transaction or  *)
(* of an account are chosen when it is handled.  Clients and the socket    *)
(* are external: messages arrive whole and in some order.                  *)
(***************************************************************************)
EXTENDS LedgerEngine

CONSTANTS
  Clients,     \* ZMQ identities of the clients
  MaxMessages  \* bound: messages the clients send

\* One message takes at most one place of each of the ledger's own bounds.
ASSUME MessageAssumption ==
  /\ MaxMessages \in Nat
  /\ MaxMessages <= MaxRequests /\ MaxMessages <= MaxPolls /\ MaxMessages <= IdBound

VARIABLES
  serving,            \* running_ of the server
  mpc,                \* where the main thread is in stop()
  iopos,              \* where the I/O thread is in io_loop()
  inbox,              \* messages the ROUTER socket holds
  message,            \* the message being handled
  stored_identities,  \* pending_identities of the TX_REQUEST branch
  drain_identities,   \* pending_identities of the drain loop
  origin,             \* history: the messages of the requests accepted, in order
  answers,            \* history: the answers sent
  messages            \* history: messages sent by the clients

socket == <<inbox, messages>>
identities == <<stored_identities, drain_identities>>
server == <<serving, mpc, iopos, socket, message, identities, origin, answers>>

Kinds == {"transaction", "create", "metrics", "balance", "unknown", "empty"}
Message == [client : Clients, kind : Kinds, id : 1 .. MaxMessages]

Answer(what) == [to |-> message.client, id |-> message.id, what |-> what]

-----------------------------------------------------------------------------
\* The server is constructed and started.
ServerInit ==
  /\ Init
  /\ serving = TRUE /\ mpc = "waiting" /\ iopos = "top"
  /\ inbox = <<>> /\ message = <<>> /\ messages = 0
  /\ stored_identities = <<>> /\ drain_identities = <<>>
  /\ origin = <<>> /\ answers = {}

(* The clients *)

Send(client, kind) ==
  /\ messages < MaxMessages
  /\ messages' = messages + 1
  /\ inbox' = Append(inbox, [client |-> client, kind |-> kind, id |-> messages'])
  /\ UNCHANGED <<vars, serving, mpc, iopos, message, identities, origin, answers>>

(* The I/O thread *)

\* while (running_.load())
TestServing ==
  /\ iopos = "top"
  /\ iopos' = IF serving THEN "poll" ELSE "done"
  /\ UNCHANGED <<vars, serving, mpc, socket, message, identities, origin, answers>>

\* The poll times out.
PollTimeout ==
  /\ iopos = "poll"
  /\ inbox = <<>>
  /\ iopos' = "drain"
  /\ UNCHANGED <<vars, serving, mpc, socket, message, identities, origin, answers>>

\* A message is read; an empty one starts the loop again without draining.
Receive ==
  /\ iopos = "poll"
  /\ inbox # <<>>
  /\ message' = Head(inbox)
  /\ inbox' = Tail(inbox)
  /\ iopos' = IF message'.kind = "empty" THEN "top" ELSE "handle"
  /\ UNCHANGED <<vars, serving, mpc, messages, identities, origin, answers>>

Handling(kind) == iopos = "handle" /\ message.kind = kind

\* MSG_TX_REQUEST, accepted: the client is stored under the correlation id.
AcceptTransaction ==
  /\ Handling("transaction")
  /\ \E r \in TransactionRequest : PushRequest(r)
  /\ stored_identities' = Append(stored_identities, message.client)
  /\ origin' = Append(origin, message)
  /\ iopos' = "drain"
  /\ UNCHANGED <<serving, mpc, socket, message, drain_identities, answers>>

\* Mutant: the refused request is tried again after the error was sent.
RefuseAndRetry ==
  /\ Handling("transaction")
  /\ MayLookFull(Len(sent))
  /\ answers' = answers \cup {Answer("full")}
  /\ UNCHANGED <<vars, serving, mpc, iopos, socket, message, identities, origin>>

\* MSG_TX_REQUEST, refused: "Engine queue full" is sent at once.
RefuseTransaction ==
  /\ Handling("transaction")
  /\ MayLookFull(Len(sent))
  /\ answers' = answers \cup {Answer("full")}
  /\ iopos' = "drain"
  /\ UNCHANGED <<vars, serving, mpc, socket, message, identities, origin>>

\* MSG_CREATE_ACCOUNT: create_account ...
BeginCreate ==
  /\ Handling("create")
  /\ \E name \in Names, type \in Types : ReserveAccountId(name, type)
  /\ iopos' = "create"
  /\ UNCHANGED <<serving, mpc, socket, message, identities, origin, answers>>

\* ... and its answer.
EndCreate ==
  /\ iopos = "create"
  /\ InsertAccount
  /\ answers' = answers \cup {Answer("account")}
  /\ iopos' = "drain"
  /\ UNCHANGED <<serving, mpc, socket, message, identities, origin>>

\* MSG_METRICS_REQUEST: take the sample, send it, reset the window.
BeginMetrics ==
  /\ Handling("metrics")
  /\ BeginSample
  /\ iopos' = "metrics"
  /\ UNCHANGED <<serving, mpc, socket, message, identities, origin, answers>>

SampleMetrics ==
  /\ iopos = "metrics"
  /\ SampleCount \/ SampleLatency
  /\ UNCHANGED <<serving, mpc, iopos, socket, message, identities, origin, answers>>

SendMetrics ==
  /\ iopos = "metrics"
  /\ CheckInvariant
  /\ answers' = answers \cup {Answer("metrics")}
  /\ UNCHANGED <<serving, mpc, iopos, socket, message, identities, origin>>

ResetMetrics ==
  /\ iopos = "metrics"
  /\ ResetCount \/ ResetLatency
  /\ iopos' = IF iopc' = "idle" THEN "drain" ELSE "metrics"
  /\ UNCHANGED <<serving, mpc, socket, message, identities, origin, answers>>

\* MSG_BALANCE_REQUEST: the snapshot is taken under accounts_mutex_.
HandleBalance ==
  /\ Handling("balance")
  /\ AccountsMutexFree
  /\ answers' = answers \cup {Answer("balances")}
  /\ iopos' = "drain"
  /\ UNCHANGED <<vars, serving, mpc, socket, message, identities, origin>>

\* Any other type byte is logged and ignored.
HandleUnknown ==
  /\ Handling("unknown")
  /\ iopos' = "drain"
  /\ UNCHANGED <<vars, serving, mpc, socket, message, identities, origin, answers>>

\* A reply is sent to the client found under its correlation id; without one it
\* is dropped.
DrainReply ==
  /\ iopos = "drain"
  /\ PopReply
  /\ LET corr == Head(replies).corr
     IN  IF corr \in DOMAIN drain_identities
           THEN /\ answers' = answers \cup {[to |-> drain_identities[corr],
                                             id |-> origin[corr].id, what |-> "reply"]}
                /\ drain_identities' = Restrict(drain_identities,
                                                DOMAIN drain_identities \ {corr})
           ELSE UNCHANGED <<answers, drain_identities>>
  /\ UNCHANGED <<serving, mpc, iopos, socket, message, stored_identities, origin>>

\* Mutant: the drain goes on until every accepted request was answered.
DrainWhileBusy ==
  /\ iopos = "drain"
  /\ replies = <<>> /\ requests = <<>>
  /\ iopos' = "top"
  /\ UNCHANGED <<vars, serving, mpc, socket, message, identities, origin, answers>>

DrainDone ==
  /\ iopos = "drain"
  /\ replies = <<>>
  /\ iopos' = "top"
  /\ UNCHANGED <<vars, serving, mpc, socket, message, identities, origin, answers>>

io_loop ==
  \/ TestServing \/ PollTimeout \/ Receive
  \/ AcceptTransaction \/ RefuseTransaction \/ BeginCreate \/ EndCreate
  \/ BeginMetrics \/ SampleMetrics \/ SendMetrics \/ ResetMetrics
  \/ HandleBalance \/ HandleUnknown
  \/ DrainReply \/ DrainDone

-----------------------------------------------------------------------------
(* The main thread *)

\* A signal ends the wait in main(); stop() clears running_ ...
BeginStop ==
  /\ mpc = "waiting"
  /\ mpc' = "shutdown"
  /\ serving' = FALSE
  /\ UNCHANGED <<vars, iopos, socket, message, identities, origin, answers>>

\* Mutant: stop() forgets the engine.
StopServerOnly ==
  /\ mpc = "shutdown"
  /\ mpc' = "join"
  /\ UNCHANGED <<vars, serving, iopos, socket, message, identities, origin, answers>>

\* ... shuts the engine down ...
ShutDownEngine ==
  /\ mpc = "shutdown"
  /\ shutdown
  /\ mpc' = "join"
  /\ UNCHANGED <<serving, iopos, socket, message, identities, origin, answers>>

\* ... and joins both threads.
Joined ==
  /\ mpc = "join"
  /\ epc = "stopped" /\ iopos = "done"
  /\ mpc' = "stopped"
  /\ UNCHANGED <<vars, serving, iopos, socket, message, identities, origin, answers>>

stop == ShutDownEngine \/ Joined

RunEngine == run /\ UNCHANGED server

ServerNext ==
  \/ RunEngine
  \/ io_loop
  \/ BeginStop
  \/ stop
  \/ \E client \in Clients, kind \in Kinds : Send(client, kind)

ServerSpec == ServerInit /\ [][ServerNext]_<<vars, server>>

\* Every thread that can go on does; the signal and the clients owe nothing.
FairServerSpec ==
  /\ ServerSpec
  /\ WF_<<vars, server>>(RunEngine)
  /\ WF_<<vars, server>>(io_loop)
  /\ WF_<<vars, server>>(stop)

-----------------------------------------------------------------------------
(* Properties *)

\* Types of the server's own variables, and of the ledger's.
ServerTypeOK ==
  /\ TypeOK
  /\ serving \in BOOLEAN
  /\ mpc \in {"waiting", "shutdown", "join", "stopped"}
  /\ iopos \in {"top", "poll", "handle", "create", "metrics", "drain", "done"}
  /\ inbox \in Seq(Message) /\ messages \in 0 .. MaxMessages
  /\ iopos \in {"handle", "create", "metrics"} => message \in Message
  /\ stored_identities \in Seq(Clients)
  /\ \A corr \in DOMAIN drain_identities : drain_identities[corr] \in Clients
  /\ origin \in Seq(Message)
  /\ \A a \in answers :
       a.to \in Clients /\ a.id \in 1 .. MaxMessages
       /\ a.what \in {"full", "account", "metrics", "balances", "reply"}

\* A message gets at most one answer, and a client that is told the queue was
\* full can safely send the request again: the first copy was not accepted.
Accepted(id) == \E k \in 1 .. Len(origin) : origin[k].id = id
RefusalIsFinal ==
  \A a, b \in answers :
    /\ a.id = b.id => a = b
    /\ a.what = "full" => ~Accepted(a.id)

\* The operations answered by the I/O thread itself are answered, unless the
\* server stops first.
Waiting(id, kinds) ==
  \/ \E k \in 1 .. Len(inbox) : inbox[k].id = id /\ inbox[k].kind \in kinds
  \/ iopos = "handle" /\ message.id = id /\ message.kind \in kinds
DirectAnswers ==
  \A id \in 1 .. MaxMessages :
    Waiting(id, {"create", "metrics", "balance"}) ~>
      (iopos = "done" \/ \E a \in answers : a.id = id)

\* stop() returns: the two threads it joins never wait for each other for ever.
StopReturns == mpc = "shutdown" ~> mpc = "stopped"

-----------------------------------------------------------------------------
(* What comments say that the code does not do *)

\* server.hpp:10-12: "Pops TransactionResponse envelopes from the LedgerEngine's
\* reply ring buffer, serializes them, and sends them back through the ROUTER
\* socket to the correct Python client identity."
RepliesReachTheirClients ==
  \A corr \in delivered :
    \E a \in answers : a.what = "reply" /\ a.id = origin[corr].id
                       /\ a.to = origin[corr].client
==============================================================================

------------------------------ MODULE ZMQClient ------------------------------
(***************************************************************************)
(* The client of gateway/zmq_client.py.  Every task of the gateway makes   *)
(* at most one call, under a correlation id of its own.  All of it runs on *)
(* one asyncio loop: what a coroutine does between two awaits is one step. *)
(*                                                                         *)
(* Requests leave through the DEALER socket in order.  Its pipe holds      *)
(* PipeCapacity of them; the sends behind those are still awaited, and a   *)
(* send has no timeout.  The engine takes requests off the outbox and puts *)
(* answers into the inbox (Gateway says when); they may cross.             *)
(***************************************************************************)
EXTENDS Integers, Sequences, FiniteSets

CONSTANTS
  Calls,        \* correlation ids
  PipeCapacity  \* requests the socket takes without blocking

ASSUME PipeAssumption == PipeCapacity \in Nat \ {0}

VARIABLES
  pending_requests,  \* the correlation ids of pending_requests
  future,            \* the state of each call's future, or its result
  receiver,          \* the receiver task
  outbox,            \* requests sent or waiting to be sent, oldest first
  inbox              \* answers on their way to the receiver

client == <<pending_requests, future, receiver, outbox, inbox>>

NoFuture == [state |-> "none"]
Waiting == [state |-> "waiting"]
Cancelled == [state |-> "cancelled"]
Done(msg) == [state |-> "done", msg |-> msg]

\* connect()
ClientInit ==
  /\ pending_requests = {}
  /\ future = [c \in Calls |-> NoFuture]
  /\ receiver = "running"
  /\ outbox = <<>> /\ inbox = {}

-----------------------------------------------------------------------------
(* _send_and_wait *)

\* Register a future and send.
BeginCall(c) ==
  /\ pending_requests' = pending_requests \cup {c}
  /\ future' = [future EXCEPT ![c] = Waiting]
  /\ outbox' = Append(outbox, c)
  /\ UNCHANGED <<receiver, inbox>>

\* The send is still awaited: the timeout has not begun.
Blocked(c) == \E i \in PipeCapacity + 1 .. Len(outbox) : outbox[i] = c

\* Mutant: nothing limits the wait.
WaitForEver(c) == FALSE /\ UNCHANGED client

\* wait_for gives up: it cancels the future and waits one turn of the loop.
Expire(c) ==
  /\ future[c] = Waiting
  /\ ~Blocked(c)
  /\ future' = [future EXCEPT ![c] = Cancelled]
  /\ UNCHANGED <<pending_requests, receiver, outbox, inbox>>

\* Mutant: a request that timed out stays registered.
RaiseWithoutPop(c) ==
  /\ future[c] = Cancelled
  /\ future' = [future EXCEPT ![c] = NoFuture]
  /\ UNCHANGED <<pending_requests, receiver, outbox, inbox>>

\* ... then unregisters the request and raises ZMQTimeoutError.
RaiseTimeout(c) ==
  /\ future[c] = Cancelled
  /\ pending_requests' = pending_requests \ {c}
  /\ future' = [future EXCEPT ![c] = NoFuture]
  /\ UNCHANGED <<receiver, outbox, inbox>>

\* The future has its result and the send has been awaited: both return.
Answered(c) == future[c].state = "done" /\ ~Blocked(c)
Return(c) ==
  /\ Answered(c)
  /\ future' = [future EXCEPT ![c] = NoFuture]
  /\ UNCHANGED <<pending_requests, receiver, outbox, inbox>>

-----------------------------------------------------------------------------
(* _receiver_loop *)

\* set_result raises InvalidStateError when the future is done, and the
\* exception ends the receiver.
SetResult(c, msg) ==
  IF future[c] = Waiting
    THEN future' = [future EXCEPT ![c] = Done(msg)] /\ UNCHANGED receiver
    ELSE receiver' = "dead" /\ UNCHANGED future

\* Mutant: the future is not asked whether it is done.
ReceiveUnchecked(corr, msg) ==
  /\ receiver = "running"
  /\ pending_requests' = pending_requests \ {corr}
  /\ IF corr \in pending_requests THEN SetResult(corr, msg)
                                  ELSE UNCHANGED <<future, receiver>>
  /\ inbox' = inbox \ {msg}
  /\ UNCHANGED outbox

\* An answer is handed to the call that registered its correlation id, unless
\* that has gone or is going; then it is dropped.
Receive(corr, msg) ==
  /\ receiver = "running"
  /\ pending_requests' = pending_requests \ {corr}
  /\ IF corr \in pending_requests /\ future[corr] = Waiting
       THEN SetResult(corr, msg)
       ELSE UNCHANGED <<future, receiver>>
  /\ inbox' = inbox \ {msg}
  /\ UNCHANGED outbox

-----------------------------------------------------------------------------
(* Properties *)

\* pending_requests holds exactly the calls an answer can still reach: none is
\* forgotten while its future waits, none is kept when its call has ended
\* (zmq_client.py:200, 207, 223), however the answer and the timeout cross.
PendingIsExact ==
  \A c \in Calls :
    /\ future[c] = Waiting => c \in pending_requests
    /\ c \in pending_requests => future[c] \in {Waiting, Cancelled}

\* The receiver outlives every crossing of an answer and a timeout: one dead
\* receiver would make all later calls time out (zmq_client.py:211, 224).
ReceiverSurvives == receiver = "running"
==============================================================================

---------------------------- MODULE WSBroadcaster ----------------------------
(***************************************************************************)
(* The broadcaster of gateway/ws_streamer.py and the WebSocket endpoint of *)
(* gateway/main.py.  broadcast() awaits a send to one client after the     *)
(* other inside a loop over the set of clients, which endpoints change     *)
(* meanwhile; Python's set iterator raises a RuntimeError when it finds    *)
(* the size of its set changed.  A send to a browser that has stopped      *)
(* reading waits until it reads again or is gone: there is no timeout.     *)
(*                                                                         *)
(* A browser has one connection at a time.  A new connection is a new      *)
(* object: broadcasts under way forget the old one's.                      *)
(***************************************************************************)
EXTENDS FiniteSets

CONSTANTS
  Browsers,
  Broadcasts  \* the tasks that may broadcast, one broadcast at a time each

VARIABLES
  clients,  \* clients of the broadcaster
  browser,  \* "away", "open", "stalled", or "gone" before its endpoint has noticed
  cast      \* the broadcast each task is inside

streaming == <<clients, browser, cast>>

NoCast == [size |-> 0, to |-> {}, left |-> {}, disconnected |-> {}]

StreamInit ==
  /\ clients = {}
  /\ browser = [b \in Browsers |-> "away"]
  /\ cast = [t \in Broadcasts |-> NoCast]

(* The endpoint *)

\* connect(): accept, then add to the set.  A loop under way may come across the
\* new connection or not: not.
Connect(b) ==
  /\ browser[b] = "away"
  /\ browser' = [browser EXCEPT ![b] = "open"]
  /\ clients' = clients \cup {b}
  /\ cast' = [t \in Broadcasts |-> [cast[t] EXCEPT !.to = @ \ {b}, !.left = @ \ {b},
                                                   !.disconnected = @ \ {b}]]

\* The browser stops reading and its connection takes no more; or reads again.
Stall(b) ==
  /\ browser[b] = "open"
  /\ browser' = [browser EXCEPT ![b] = "stalled"]
  /\ UNCHANGED <<clients, cast>>

Resume(b) ==
  /\ browser[b] = "stalled"
  /\ browser' = [browser EXCEPT ![b] = "open"]
  /\ UNCHANGED <<clients, cast>>

\* The page is closed or the connection breaks.
Leave(b) ==
  /\ browser[b] \in {"open", "stalled"}
  /\ browser' = [browser EXCEPT ![b] = "gone"]
  /\ UNCHANGED <<clients, cast>>

\* Mutant: the endpoint ends without disconnect().
EndWithoutDisconnect(b) ==
  /\ browser[b] = "gone"
  /\ browser' = [browser EXCEPT ![b] = "away"]
  /\ UNCHANGED <<clients, cast>>

\* receive_text() raises in the endpoint, which disconnects.
EndpointEnds(b) ==
  /\ browser[b] = "gone"
  /\ browser' = [browser EXCEPT ![b] = "away"]
  /\ clients' = clients \ {b}
  /\ UNCHANGED cast

(* broadcast() *)

\* With no clients it returns at once.  (The first send is a step of its own: clients
\* that change during it may change before it here, which comes to the same.)
BeginCast(t) ==
  /\ cast' = [cast EXCEPT ![t] = [size |-> Cardinality(clients), to |-> {},
                                  left |-> clients, disconnected |-> {}]]
  /\ UNCHANGED <<clients, browser>>

SizeChanged(t) == Cardinality(clients) # cast[t].size

\* The send under way waits for a browser that does not read.
Held(t) == \E b \in cast[t].to : browser[b] = "stalled"

\* It returns; to a browser that is gone it may have failed.
Failures(t) == SUBSET {b \in cast[t].to : browser[b] = "gone"}

\* The loop goes on to the next client ...
SendTo(t, b) ==
  /\ ~Held(t) /\ ~SizeChanged(t)
  /\ b \in cast[t].left \cap clients
  /\ \E failed \in Failures(t) :
       cast' = [cast EXCEPT ![t].to = {b}, ![t].left = @ \ {b},
                            ![t].disconnected = @ \cup failed]
  /\ UNCHANGED <<clients, browser>>

\* ... or is over: those a send failed to are disconnected ...
EndCast(t) ==
  /\ ~Held(t) /\ ~SizeChanged(t)
  /\ cast[t].left \cap clients = {}
  /\ \E failed \in Failures(t) : clients' = clients \ (cast[t].disconnected \cup failed)
  /\ cast' = [cast EXCEPT ![t] = NoCast]
  /\ UNCHANGED browser

\* ... or raises RuntimeError: Set changed size during iteration.
AbortCast(t) ==
  /\ ~Held(t) /\ SizeChanged(t)
  /\ cast' = [cast EXCEPT ![t] = NoCast]
  /\ UNCHANGED <<clients, browser>>

-----------------------------------------------------------------------------
(* Properties *)

\* The set holds the connections the endpoints hold: a page that is open is
\* never dropped and none stays whose endpoint has ended, although a broadcast
\* and the endpoint both remove a client and its page may be back before either
\* does (ws_streamer.py:25-26, main.py:48-49, useWebSocket.ts:28-30).
ClientsAreConnected ==
  \A b \in Browsers : /\ browser[b] \in {"open", "stalled"} => b \in clients
                      /\ b \in clients => browser[b] # "away"
==============================================================================

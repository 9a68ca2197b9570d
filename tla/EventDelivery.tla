--------------------------- MODULE EventDelivery ---------------------------
(***************************************************************************)
(* How responses and events reach the clients of liz-app-server: EventBus  *)
(* (events/mod.rs), the thread and the event forwarder of each connection  *)
(* (server/websocket.rs) and the socket loop of the CLI (app_client.rs).   *)
(*                                                                         *)
(* A connection thread alone writes to its socket.  It flushes the events  *)
(* its forwarder has queued, then reads; a request is served under the     *)
(* mutex of AppServer, and its response is written by that same thread.    *)
(***************************************************************************)
EXTENDS Naturals, Sequences, FiniteSetsExt

CONSTANTS
  Conn,         \* connections
  None,         \* nobody holds the mutex of AppServer
  MaxRequests,  \* bound: frames a client sends
  MaxFrames,    \* bound: frames the clients send together
  MaxEvents     \* bound: events published

ASSUME EventDeliveryAssumption ==
  None \notin Conn /\ MaxRequests \in Nat /\ MaxFrames \in Nat /\ MaxEvents \in Nat

VARIABLES
  lock,         \* holder of the mutex of AppServer
  subscribers,  \* connections with a sender in the bus
  published,    \* events in the order of their sequence numbers
  pc,           \* Conn -> where the connection thread stands
  serving,      \* Conn -> number of the request it serves or answers
  receiver,     \* Conn -> events in its event_rx
  forwarder,    \* Conn -> its forwarder thread
  outbound,     \* Conn -> frames in its outbound channel
  inbox,        \* Conn -> frames from client to server
  wire,         \* Conn -> frames from server to client
  link,         \* Conn -> whether the client still holds its socket
  sent,         \* Conn -> frames its client has sent
  events,       \* Conn -> events its client has read, as they go to its screen
  got,          \* history: Conn -> frames its client has read
  since         \* history: Conn -> events published before it subscribed

server  == <<lock, subscribers, published>>
threads == <<pc, serving, forwarder>>
queues  == <<receiver, outbound, inbox, wire>>
client  == <<link, sent, events, got>>
vars    == <<server, threads, queues, client, since>>

-----------------------------------------------------------------------------
Number == 1..MaxRequests
Event    == [kind : {"event"}, conn : Conn, num : Number, id : 1..MaxEvents]
Response == [kind : {"response"}, conn : Conn, num : Number]

EventOf(c, n, id) == [kind |-> "event", conn |-> c, num |-> n, id |-> id]
ResponseTo(c, n)  == [kind |-> "response", conn |-> c, num |-> n]

Place == {"accepted", "flush", "read", "serve", "reply", "join", "ended"}

(* The loop of the connection is over and its end of the outbound channel  *)
(* is dropped.                                                             *)
Over(c) == pc[c] \in {"join", "ended"}

Init ==
  /\ lock        = None
  /\ subscribers = {}
  /\ published   = <<>>
  /\ pc          = [c \in Conn |-> "accepted"]
  /\ serving     = [c \in Conn |-> 0]
  /\ receiver    = [c \in Conn |-> <<>>]
  /\ forwarder   = [c \in Conn |-> "none"]
  /\ outbound    = [c \in Conn |-> <<>>]
  /\ inbox       = [c \in Conn |-> <<>>]
  /\ wire        = [c \in Conn |-> <<>>]
  /\ link        = [c \in Conn |-> "up"]
  /\ sent        = [c \in Conn |-> 0]
  /\ events      = [c \in Conn |-> <<>>]
  /\ got         = [c \in Conn |-> <<>>]
  /\ since       = [c \in Conn |-> 0]

-----------------------------------------------------------------------------
(* The event bus *)

(* A connection subscribes under the mutex, between two requests.          *)
Subscribe(c) ==
  /\ pc[c] = "accepted"
  /\ lock = None
  /\ subscribers' = subscribers \cup {c}
  /\ since' = [since EXCEPT ![c] = Len(published)]
  /\ forwarder' = [forwarder EXCEPT ![c] = "running"]
  /\ pc' = [pc EXCEPT ![c] = "flush"]
  /\ UNCHANGED <<lock, published, serving, queues, client>>

(* A send succeeds while the forwarder keeps the receiving end.            *)
Reachable(c) == c \in subscribers /\ forwarder[c] = "running"

NextId == Len(published) + 1

(* The request c serves publishes an event; the bus forgets a subscriber   *)
(* whose receiver is gone.                                                 *)
Publish(c) ==
  /\ pc[c] = "serve"
  /\ Len(published) < MaxEvents
  /\ LET e == EventOf(c, serving[c], NextId) IN
       /\ published' = Append(published, e)
       /\ receiver' = [d \in Conn |-> IF Reachable(d) THEN Append(receiver[d], e)
                                                      ELSE receiver[d]]
  /\ subscribers' = {d \in subscribers : Reachable(d)}
  /\ UNCHANGED <<lock, threads, outbound, inbox, wire, client, since>>

-----------------------------------------------------------------------------
(* The forwarder thread *)

Forward_Newest(c) ==
  /\ forwarder[c] = "running"
  /\ receiver[c] # <<>>
  /\ ~Over(c)
  /\ LET n == Len(receiver[c]) IN
       /\ outbound' = [outbound EXCEPT ![c] = Append(@, receiver[c][n])]
       /\ receiver' = [receiver EXCEPT ![c] = SubSeq(@, 1, n - 1)]
  /\ UNCHANGED <<server, threads, inbox, wire, client, since>>

Forward(c) ==
  /\ forwarder[c] = "running"
  /\ receiver[c] # <<>>
  /\ ~Over(c)
  /\ outbound' = [outbound EXCEPT ![c] = Append(@, Head(receiver[c]))]
  /\ receiver' = [receiver EXCEPT ![c] = Tail(@)]
  /\ UNCHANGED <<server, threads, inbox, wire, client, since>>

(* is_running is off, or nobody takes from the outbound channel any more.  *)
StopForwarder_Never(c) == FALSE /\ UNCHANGED vars
StopForwarder(c) ==
  /\ forwarder[c] = "running"
  /\ Over(c)
  /\ forwarder' = [forwarder EXCEPT ![c] = "stopped"]
  /\ receiver' = [receiver EXCEPT ![c] = <<>>]
  /\ UNCHANGED <<server, pc, serving, outbound, inbox, wire, client, since>>

-----------------------------------------------------------------------------
(* The connection thread *)

(* The loop returns: the socket and the outbound channel go with it.       *)
Leave(c) ==
  /\ pc' = [pc EXCEPT ![c] = "join"]
  /\ outbound' = [outbound EXCEPT ![c] = <<>>]

(* A frame written to a client that is gone is lost, or fails the write.   *)
Write(c, frame) ==
  wire' = [wire EXCEPT ![c] = IF link[c] = "up" THEN Append(@, frame) ELSE @]

FlushOutbound(c) ==
  /\ pc[c] = "flush"
  /\ outbound[c] # <<>>
  /\ Write(c, Head(outbound[c]))
  /\ outbound' = [outbound EXCEPT ![c] = Tail(@)]
  /\ UNCHANGED <<server, threads, receiver, inbox, client, since>>

FlushDone(c) ==
  /\ pc[c] = "flush"
  /\ outbound[c] = <<>>
  /\ pc' = [pc EXCEPT ![c] = "read"]
  /\ UNCHANGED <<server, serving, forwarder, queues, client, since>>

ReadTimesOut_Never(c) == FALSE /\ UNCHANGED vars

(* The read times out after READ_POLL_INTERVAL.                            *)
ReadTimesOut(c) ==
  /\ pc[c] = "read"
  /\ inbox[c] = <<>> /\ link[c] = "up"
  /\ outbound[c] # <<>>      \* a turn of the loop that flushes nothing is no step
  /\ pc' = [pc EXCEPT ![c] = "flush"]
  /\ UNCHANGED <<server, serving, forwarder, queues, client, since>>

TakeRequest(c) ==
  /\ pc[c] = "read"
  /\ inbox[c] # <<>> /\ Head(inbox[c]) # 0
  /\ lock = None
  /\ lock' = c
  /\ serving' = [serving EXCEPT ![c] = Head(inbox[c])]
  /\ inbox' = [inbox EXCEPT ![c] = Tail(@)]
  /\ pc' = [pc EXCEPT ![c] = "serve"]
  /\ UNCHANGED <<subscribers, published, forwarder, receiver, outbound, wire, client, since>>

(* handle_request returns and the mutex is released.                       *)
FinishRequest_KeepsLock(c) ==
  /\ pc[c] = "serve"
  /\ pc' = [pc EXCEPT ![c] = "reply"]
  /\ UNCHANGED <<server, serving, forwarder, queues, client, since>>

FinishRequest(c) ==
  /\ pc[c] = "serve"
  /\ lock' = None
  /\ pc' = [pc EXCEPT ![c] = "reply"]
  /\ UNCHANGED <<subscribers, published, serving, forwarder, queues, client, since>>

Reply_FlushesFirst(c) ==
  /\ pc[c] = "reply"
  /\ wire' = [wire EXCEPT ![c] =
       IF link[c] = "up" THEN @ \o outbound[c] \o <<ResponseTo(c, serving[c])>> ELSE @]
  /\ outbound' = [outbound EXCEPT ![c] = <<>>]
  /\ pc' = [pc EXCEPT ![c] = "flush"]
  /\ UNCHANGED <<server, serving, forwarder, receiver, inbox, client, since>>

Reply(c) ==
  /\ pc[c] = "reply"
  /\ Write(c, ResponseTo(c, serving[c]))
  /\ pc' = [pc EXCEPT ![c] = "flush"]
  /\ UNCHANGED <<server, serving, forwarder, receiver, outbound, inbox, client, since>>

(* A frame that is no request ends the connection.                         *)
RejectFrame(c) ==
  /\ pc[c] = "read"
  /\ inbox[c] # <<>> /\ Head(inbox[c]) = 0
  /\ Leave(c)
  /\ UNCHANGED <<server, serving, forwarder, receiver, inbox, wire, client, since>>

(* The client is gone and the read finds out.                              *)
PeerGone(c) ==
  /\ pc[c] = "read"
  /\ inbox[c] = <<>> /\ link[c] = "down"
  /\ Leave(c)
  /\ UNCHANGED <<server, serving, forwarder, receiver, inbox, wire, client, since>>

(* The client is gone and a write finds out.                               *)
WriteFails(c) ==
  /\ link[c] = "down"
  /\ pc[c] = "reply" \/ (pc[c] = "flush" /\ outbound[c] # <<>>)
  /\ Leave(c)
  /\ UNCHANGED <<server, serving, forwarder, receiver, inbox, wire, client, since>>

JoinForwarder(c) ==
  /\ pc[c] = "join"
  /\ forwarder[c] = "stopped"
  /\ pc' = [pc EXCEPT ![c] = "ended"]
  /\ UNCHANGED <<server, serving, forwarder, queues, client, since>>

-----------------------------------------------------------------------------
(* The client *)

(* A request, numbered, or a frame the server cannot parse, 0.             *)
SendRequest(c) ==
  /\ link[c] = "up"
  /\ sent[c] < MaxRequests
  /\ MapThenSumSet(LAMBDA d : sent[d], Conn) < MaxFrames
  /\ sent' = [sent EXCEPT ![c] = @ + 1]
  /\ \E frame \in {0, sent[c] + 1} : inbox' = [inbox EXCEPT ![c] = Append(@, frame)]
  /\ UNCHANGED <<server, threads, receiver, outbound, wire, link, events, got, since>>

ReadFrame(c) ==
  /\ link[c] = "up"
  /\ wire[c] # <<>>
  /\ got' = [got EXCEPT ![c] = Append(@, Head(wire[c]))]
  /\ events' = [events EXCEPT ![c] =
                   IF Head(wire[c]).kind = "event" THEN Append(@, Head(wire[c])) ELSE @]
  /\ wire' = [wire EXCEPT ![c] = Tail(@)]
  /\ UNCHANGED <<server, threads, receiver, outbound, inbox, link, sent, since>>

Disconnect(c) ==
  /\ link[c] = "up"
  /\ link' = [link EXCEPT ![c] = "down"]
  /\ wire' = [wire EXCEPT ![c] = <<>>]
  /\ UNCHANGED <<server, threads, receiver, outbound, inbox, sent, events, got, since>>

-----------------------------------------------------------------------------
Thread(c) ==
  \/ Subscribe(c)
  \/ FlushOutbound(c) \/ FlushDone(c) \/ ReadTimesOut(c)
  \/ TakeRequest(c) \/ FinishRequest(c) \/ Reply(c)
  \/ RejectFrame(c) \/ PeerGone(c) \/ WriteFails(c) \/ JoinForwarder(c)

Forwarder(c) == Forward(c) \/ StopForwarder(c)

Next ==
  \E c \in Conn :
    \/ Thread(c) \/ Forwarder(c) \/ Publish(c)
    \/ SendRequest(c) \/ ReadFrame(c) \/ Disconnect(c)

Spec == Init /\ [][Next]_vars

(* Threads that can run do, and a client that stays reads its socket.  A   *)
(* request publishes as many events as it likes, then returns.             *)
FairSpec ==
  /\ Spec
  /\ \A c \in Conn : WF_vars(Thread(c)) /\ WF_vars(Forwarder(c)) /\ WF_vars(ReadFrame(c))

-----------------------------------------------------------------------------
(* Properties *)

TypeOK ==
  /\ lock \in Conn \cup {None}
  /\ subscribers \subseteq Conn
  /\ published \in Seq(Event)
  /\ pc \in [Conn -> Place]
  /\ serving \in [Conn -> 0..MaxRequests]
  /\ receiver \in [Conn -> Seq(Event)]
  /\ forwarder \in [Conn -> {"none", "running", "stopped"}]
  /\ outbound \in [Conn -> Seq(Event)]
  /\ inbox \in [Conn -> Seq(0..MaxRequests)]
  /\ wire \in [Conn -> Seq(Event \cup Response)]
  /\ link \in [Conn -> {"up", "down"}]
  /\ sent \in [Conn -> 0..MaxRequests]
  /\ events \in [Conn -> Seq(Event)]
  /\ got \in [Conn -> Seq(Event \cup Response)]
  /\ since \in [Conn -> Nat]

(* A connection that opens while a request runs elsewhere sees all of its  *)
(* events or none: it cannot subscribe in the middle.                      *)
WholeRequests ==
  \A c \in Conn : LET n == since[c] IN
    c \in subscribers /\ n \in 1..(Len(published) - 1) =>
      <<published[n].conn, published[n].num>> # <<published[n + 1].conn, published[n + 1].num>>

(* A client never reads an event of its own request before the response    *)
(* to it, although every event is published before the response is made.   *)
ResponseFirst ==
  \A c \in Conn : LET frames == got[c] \o wire[c] IN
    \A i \in DOMAIN frames :
      frames[i].kind = "event" /\ frames[i].conn = c =>
        \E j \in 1..(i - 1) : frames[j] = ResponseTo(c, frames[i].num)

(* A client reads one response per request, in the order it asked.         *)
ResponsesInOrder ==
  \A c \in Conn : LET frames == got[c] \o wire[c] IN
    \A i, j \in DOMAIN frames :
      i < j /\ frames[i].kind = "response" /\ frames[j].kind = "response" =>
        frames[i].num < frames[j].num

(* What a client reads, against what the server did, and the types.        *)
DeliveryInv ==
  /\ TypeOK
  /\ WholeRequests
  /\ ResponseFirst
  /\ ResponsesInOrder

(* EventBroadcast, with the events a client has read as those it has seen. *)
Broadcast == INSTANCE EventBroadcast WITH
  posts  <- published,
  joined <- since,
  member <- {c \in Conn : forwarder[c] # "none"},
  seen   <- events

(* Every client sees the events published since it subscribed, each once   *)
(* and in order, whatever the other connections do.                        *)
ImplementsBroadcast == Broadcast!Spec

(* An event published for a connection that stays reaches its client.      *)
EventsArrive ==
  \A c \in Conn : \A id \in 1..MaxEvents :
    (id \in DOMAIN published /\ forwarder[c] = "running" /\ since[c] < id)
      ~> (Over(c) \/ link[c] = "down" \/
              \E i \in DOMAIN got[c] : got[c][i].kind = "event" /\ got[c][i].id = id)

(* A request on a connection that stays is answered.                       *)
RequestsAnswered ==
  \A c \in Conn : \A n \in Number :
    (\E i \in DOMAIN inbox[c] : inbox[c][i] = n)
      ~> (Over(c) \/ link[c] = "down" \/ \E i \in DOMAIN got[c] : got[c][i] = ResponseTo(c, n))

(* A client that leaves takes its two threads with it.                     *)
ThreadsEnd == \A c \in Conn : link[c] = "down" ~> pc[c] = "ended" /\ forwarder[c] = "stopped"

=============================================================================

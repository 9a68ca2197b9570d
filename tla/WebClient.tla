------------------------------ MODULE WebClient ------------------------------
(***************************************************************************)
(* The web client's connection to the app server: class ProtocolClient of  *)
(* apps/liz-web/src/protocol/client.ts, over the WebSocket of a browser.   *)
(*                                                                         *)
(* A socket is known by the order of its creation.  Its handlers stay      *)
(* attached after the client replaced it, so that events of an old socket  *)
(* reach a client that uses a newer one.  The socket itself follows the    *)
(* browser: messages are delivered only while it is open; after close() it *)
(* is closing until the browser reports the close event, preceded by an    *)
(* error event when it never opened.                                       *)
(***************************************************************************)
EXTENDS Naturals, FiniteSets

CONSTANTS
  MaxSockets,   \* bound: sockets the client opens
  MaxRequests,  \* bound: requests the application makes
  MaxTimers     \* bound: reconnect timers that may be running at once

ASSUME WebClientBounds ==
  /\ MaxSockets \in Nat
  /\ MaxRequests \in Nat
  /\ MaxTimers \in Nat

NoSocket == 0
Sockets  == 1 .. MaxSockets
Requests == 1 .. MaxRequests

VARIABLES
  state,          \* #state
  socket,         \* #socket, NoSocket for null
  closedByClient, \* #closedByClient
  ready,          \* readyState of each socket; "none" before it exists
  failing,        \* sockets whose error event is to come before their close
  asked,          \* the socket each request was sent on, NoSocket before
  fate,           \* what became of each request's promise
  answers,        \* requests whose response is on its way, in any order
  timers,         \* reconnect timers that are running
  stray           \* responses given to the listeners for unknown messages

vars == <<state, socket, closedByClient, ready, failing, asked, fate, answers,
          timers, stray>>

ConnectionStates ==
  {"idle", "connecting", "connected", "reconnecting", "closed"}
ReadyStates == {"none", "connecting", "open", "closing", "closed"}

(* A promise is pending while its request is in #pending. *)
Fates == {"none", "pending", "answered", "request_timeout", "client_closed",
          "connection_closed", "send_failed", "not_connected"}

TypeOK ==
  /\ state \in ConnectionStates
  /\ socket \in Sockets \cup {NoSocket}
  /\ closedByClient \in BOOLEAN
  /\ ready \in [Sockets -> ReadyStates]
  /\ failing \subseteq Sockets
  /\ asked \in [Requests -> Sockets \cup {NoSocket}]
  /\ fate \in [Requests -> Fates]
  /\ answers \subseteq Requests
  /\ timers \in 0 .. MaxTimers
  /\ stray \subseteq Requests

Opened  == {s \in Sockets : ready[s] # "none"}
Fresh   == Cardinality(Opened) + 1
Pending == {r \in Requests : fate[r] = "pending"}

Init ==
  /\ state = "idle"
  /\ socket = NoSocket
  /\ closedByClient = FALSE
  /\ ready = [s \in Sockets |-> "none"]
  /\ failing = {}
  /\ asked = [r \in Requests |-> NoSocket]
  /\ fate = [r \in Requests |-> "none"]
  /\ answers = {}
  /\ timers = 0
  /\ stray = {}

-----------------------------------------------------------------------------
(* close() of a browser socket: it has no effect on one that is closing or *)
(* closed, and a socket that was still connecting reports an error first.  *)
Closed(rs, s) ==
  IF s # NoSocket /\ rs[s] \in {"connecting", "open"}
  THEN [rs EXCEPT ![s] = "closing"] ELSE rs

FailsWhenClosed(s) == IF s # NoSocket /\ ready[s] = "connecting" THEN {s} ELSE {}

(* #rejectPending: every pending promise is rejected with the code, one of *)
(* a socket that was replaced too.                                         *)
Rejected_OfSocket(code) ==
  [r \in Requests |-> IF fate[r] = "pending" /\ asked[r] = socket THEN code ELSE fate[r]]

Rejected(code) ==
  [r \in Requests |-> IF fate[r] = "pending" THEN code ELSE fate[r]]

(* #openSocket: the old socket is closed, the new one takes its place. *)
Reopened_KeepsOld(rs, s) == [rs EXCEPT ![s] = "connecting"]

Reopened(rs, s) == [Closed(rs, socket) EXCEPT ![s] = "connecting"]

OpenSocket(next) ==
  /\ Fresh <= MaxSockets
  /\ ready' = Reopened(ready, Fresh)
  /\ failing' = failing \cup FailsWhenClosed(socket)
  /\ socket' = Fresh
  /\ state' = next

-----------------------------------------------------------------------------
(* What the application calls. *)

Connect ==
  /\ closedByClient' = FALSE
  /\ OpenSocket("connecting")
  /\ UNCHANGED <<asked, fate, answers, timers, stray>>

Close ==
  /\ closedByClient' = TRUE
  /\ ready' = Closed(ready, socket)
  /\ failing' = failing \cup FailsWhenClosed(socket)
  /\ socket' = NoSocket
  /\ fate' = Rejected("client_closed")
  /\ state' = "closed"
  /\ UNCHANGED <<asked, answers, timers, stray>>

MayRequest == socket # NoSocket /\ ready[socket] = "open"

(* The frame is written, or the browser throws and the promise is rejected. *)
Request(r) ==
  /\ asked[r] = NoSocket
  /\ fate[r] = "none"
  /\ \/ /\ MayRequest
        /\ asked' = [asked EXCEPT ![r] = socket]
        /\ \E outcome \in {"pending", "send_failed"} :
              fate' = [fate EXCEPT ![r] = outcome]
     \/ /\ ~MayRequest
        /\ fate' = [fate EXCEPT ![r] = "not_connected"]
        /\ UNCHANGED asked
  /\ UNCHANGED <<state, socket, closedByClient, ready, failing, answers,
                 timers, stray>>

-----------------------------------------------------------------------------
(* Timers. *)

RequestTimesOut_WhileConnected(r) ==
  /\ fate[r] = "pending"
  /\ state = "connected"
  /\ fate' = [fate EXCEPT ![r] = "request_timeout"]
  /\ UNCHANGED <<state, socket, closedByClient, ready, failing, asked, answers,
                 timers, stray>>

RequestTimesOut(r) ==
  /\ fate[r] = "pending"
  /\ fate' = [fate EXCEPT ![r] = "request_timeout"]
  /\ UNCHANGED <<state, socket, closedByClient, ready, failing, asked, answers,
                 timers, stray>>

(* The timer of #handleClose; nothing cancels it. *)
MayReconnect_IfClosed == closedByClient

MayReconnect == ~closedByClient

ReconnectTimer ==
  /\ timers > 0
  /\ timers' = timers - 1
  /\ \/ /\ MayReconnect
        /\ OpenSocket("reconnecting")
     \/ /\ ~MayReconnect
        /\ UNCHANGED <<state, socket, ready, failing>>
  /\ UNCHANGED <<closedByClient, asked, fate, answers, stray>>

-----------------------------------------------------------------------------
(* What the browser reports of a socket, the client's or one it replaced. *)

SocketOpens(s) ==
  /\ ready[s] = "connecting"
  /\ ready' = [ready EXCEPT ![s] = "open"]
  /\ state' = "connected"
  /\ UNCHANGED <<socket, closedByClient, failing, asked, fate, answers, timers,
                 stray>>

(* The connection cannot be made, or is lost: an error, then a close. *)
ConnectionBreaks(s) ==
  /\ ready[s] \in {"connecting", "open"}
  /\ ready' = [ready EXCEPT ![s] = "closing"]
  /\ failing' = failing \cup {s}
  /\ UNCHANGED <<state, socket, closedByClient, asked, fate, answers, timers,
                 stray>>

(* The server goes away in order: no error event. *)
ServerCloses(s) ==
  /\ ready[s] = "open"
  /\ ready' = [ready EXCEPT ![s] = "closing"]
  /\ UNCHANGED <<state, socket, closedByClient, failing, asked, fate, answers,
                 timers, stray>>

SocketError(s) ==
  /\ s \in failing
  /\ failing' = failing \ {s}
  /\ state' = IF state = "connected" THEN "reconnecting" ELSE state
  /\ UNCHANGED <<socket, closedByClient, ready, asked, fate, answers, timers,
                 stray>>

(* #handleClose begins by leaving out the sockets the client replaced. *)
IsCurrent(s) == s = socket

SocketClosed(s) ==
  /\ ready[s] = "closing"
  /\ s \notin failing
  /\ ready' = [ready EXCEPT ![s] = "closed"]
  /\ \/ /\ ~IsCurrent(s)
        /\ UNCHANGED <<state, socket, fate, timers>>
     \/ /\ IsCurrent(s)
        /\ socket' = NoSocket
        /\ fate' = Rejected("connection_closed")
        /\ \/ /\ closedByClient
              /\ state' = "closed"
              /\ UNCHANGED timers
           \/ /\ ~closedByClient
              /\ timers < MaxTimers
              /\ state' = "reconnecting"
              /\ timers' = timers + 1
  /\ UNCHANGED <<closedByClient, failing, asked, answers, stray>>

(* The server answers on the socket the request came on. *)
ServerAnswers(r) ==
  /\ asked[r] # NoSocket
  /\ fate[r] # "send_failed"
  /\ r \notin answers
  /\ answers' = answers \cup {r}
  /\ UNCHANGED <<state, socket, closedByClient, ready, failing, asked, fate,
                 timers, stray>>

(* #resolveResponse: a request that is pending no more makes the response  *)
(* an unknown message.                                                     *)
Resolve(r) ==
  \/ /\ fate[r] = "pending"
     /\ fate' = [fate EXCEPT ![r] = "answered"]
     /\ UNCHANGED stray
  \/ /\ fate[r] # "pending"
     /\ stray' = stray \cup {r}
     /\ UNCHANGED fate

ResponseArrives(r) ==
  /\ r \in answers
  /\ r \notin stray
  /\ fate[r] # "answered"
  /\ ready[asked[r]] = "open"
  /\ Resolve(r)
  /\ UNCHANGED <<state, socket, closedByClient, ready, failing, asked, answers,
                 timers>>

-----------------------------------------------------------------------------
Browser(s) ==
  SocketOpens(s) \/ ConnectionBreaks(s) \/ ServerCloses(s) \/ SocketError(s)
    \/ SocketClosed(s)

Next ==
  \/ Connect
  \/ Close
  \/ ReconnectTimer
  \/ \E r \in Requests :
       Request(r) \/ RequestTimesOut(r) \/ ServerAnswers(r) \/ ResponseArrives(r)
  \/ \E s \in Sockets : Browser(s)

Spec == Init /\ [][Next]_vars

(* Timers of the browser fire, and it reports the end of a socket it was   *)
(* told to close.  Nothing obliges a server to answer or a link to hold.   *)
Fairness ==
  /\ WF_vars(ReconnectTimer)
  /\ \A r \in Requests : WF_vars(RequestTimesOut(r))
  /\ \A s \in Sockets : WF_vars(SocketError(s)) /\ WF_vars(SocketClosed(s))

FairSpec == Spec /\ Fairness

-----------------------------------------------------------------------------
(* Properties. *)

(* The state "connected" is shown only while the client's own socket has   *)
(* opened and was not yet reported closed: connect() and the timer close   *)
(* the socket they replace before it can open.                             *)
ConnectedHasSocket ==
  state = "connected" => socket # NoSocket /\ ready[socket] \in {"open", "closing"}

(* The client never has two connections to the server, and none after it   *)
(* was told to close, whatever timers were running: a second connection    *)
(* would deliver every event twice.                                        *)
OneConnection ==
  /\ \A s \in Sockets : ready[s] \in {"connecting", "open"} => s = socket
  /\ closedByClient => socket = NoSocket

ConnectionInv == TypeOK /\ ConnectedHasSocket /\ OneConnection

(* A client without a socket has left nothing behind: no request waits,    *)
(* one asked on a socket that connect() or a timer replaced neither, which *)
(* no close event of its own rejects, and unless the application closed it *)
(* (or never connected it) a timer runs that connects it again, however    *)
(* many were running and did nothing (client.ts:85-95, 159-202).           *)
NoneStranded ==
  socket = NoSocket =>
    /\ Pending = {}
    /\ state # "idle" => closedByClient \/ timers > 0

(* Every promise settles, even one whose socket was replaced by connect(), *)
(* which rejects nothing: its timer stays.                                 *)
RequestsSettle ==
  \A r \in Requests : fate[r] = "pending" ~> fate[r] # "pending"

(* A client that lost its connection tries again, unless it was closed.    *)
Reconnects ==
  state = "reconnecting" /\ socket = NoSocket
    ~> socket # NoSocket \/ closedByClient \/ Fresh > MaxSockets

=============================================================================

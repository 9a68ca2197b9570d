--------------------------- MODULE WebClientProofs ---------------------------
(***************************************************************************)
(* Theorems about WebClient, for every number of sockets, requests and     *)
(* reconnect timers.                                                       *)
(***************************************************************************)
EXTENDS WebClient, TLAPS, FiniteSetTheorems

(* Sockets are numbered in the order of their creation.                    *)
Numbered == Opened = 1 .. Cardinality(Opened)

ConnectionIInv == ConnectionInv /\ Numbered

Live == {"connecting", "open"}

-----------------------------------------------------------------------------
LEMMA OpenedCount ==
  /\ IsFiniteSet(Opened)
  /\ Cardinality(Opened) \in Nat
  /\ Fresh \in Nat \ {0}
<1>1. IsFiniteSet(Sockets)
  BY FS_Interval, WebClientBounds DEF Sockets
<1>2. IsFiniteSet(Opened)
  BY <1>1, FS_Subset DEF Opened
<1>3. QED
  BY <1>2, FS_CardinalityType DEF Fresh

(* Closing the client's socket leaves no live socket but the others that   *)
(* were live before, and none of them is created or forgotten.             *)
LEMMA ClosedKeeps ==
  ASSUME TypeOK
  PROVE  /\ Closed(ready, socket) \in [Sockets -> ReadyStates]
         /\ FailsWhenClosed(socket) \subseteq Sockets
         /\ \A s \in Sockets :
              /\ Closed(ready, socket)[s] \in Live => ready[s] \in Live /\ s # socket
              /\ Closed(ready, socket)[s] = "none" <=> ready[s] = "none"
BY DEF Closed, FailsWhenClosed, TypeOK, ReadyStates, Live, NoSocket, Sockets

LEMMA RejectedType ==
  ASSUME TypeOK, NEW code \in Fates
  PROVE  Rejected(code) \in [Requests -> Fates]
BY DEF Rejected, TypeOK

(* #openSocket: the new socket is the only live one.                       *)
LEMMA OpenedOne ==
  ASSUME ConnectionIInv, NEW next \in ConnectionStates \ {"connected"},
         OpenSocket(next), closedByClient' = FALSE,
         UNCHANGED <<asked, fate, answers, stray>>, timers' \in 0 .. MaxTimers
  PROVE  ConnectionIInv'
<1>1. TypeOK /\ OneConnection /\ Numbered
  BY DEF ConnectionIInv, ConnectionInv
<1>2. Fresh \in Sockets /\ Fresh # NoSocket
  BY OpenedCount, WebClientBounds DEF OpenSocket, Sockets, NoSocket
<1>3. ready' = [Closed(ready, socket) EXCEPT ![Fresh] = "connecting"]
  BY DEF OpenSocket, Reopened
<1>4. TypeOK'
  <2>1. ready' \in [Sockets -> ReadyStates]
    BY <1>1, <1>2, <1>3, ClosedKeeps DEF ReadyStates
  <2>2. failing' \subseteq Sockets
    BY <1>1, ClosedKeeps DEF OpenSocket, TypeOK
  <2>3. QED
    BY <1>1, <1>2, <2>1, <2>2 DEF TypeOK, OpenSocket
<1>5. OneConnection'
  <2>1. ASSUME NEW s \in Sockets, ready'[s] \in Live
        PROVE  s = socket'
    <3>1. CASE s = Fresh
      BY <3>1 DEF OpenSocket
    <3>2. CASE s # Fresh
      <4>1. Closed(ready, socket)[s] \in Live
        BY <1>1, <1>2, <1>3, <2>1, <3>2, ClosedKeeps
      <4>2. ready[s] \in Live /\ s # socket
        BY <1>1, <4>1, ClosedKeeps
      <4>3. QED
        BY <1>1, <4>2 DEF OneConnection, Live
    <3>3. QED
      BY <3>1, <3>2
  <2>2. QED
    BY <2>1 DEF OneConnection, Live
<1>6. ConnectedHasSocket'
  BY DEF OpenSocket, ConnectedHasSocket
<1>7. Numbered'
  <2> DEFINE n == Cardinality(Opened)
  <2>1. n \in Nat /\ Fresh = n + 1 /\ Opened = 1 .. n
    BY <1>1, OpenedCount DEF Numbered, Fresh
  <2>2. Opened' = Opened \cup {Fresh}
    <3>1. \A s \in Sockets : ready'[s] = "none" <=> ready[s] = "none" /\ s # Fresh
      BY <1>1, <1>2, <1>3, ClosedKeeps
    <3>2. QED
      BY <1>2, <3>1 DEF Opened
  <2>3. Opened' = 1 .. (n + 1)
    BY <2>1, <2>2
  <2>4. Cardinality(Opened') = n + 1
    BY <2>1, <2>3, FS_Interval
  <2>5. QED
    BY <2>3, <2>4 DEF Numbered
<1>8. QED
  BY <1>4, <1>5, <1>6, <1>7 DEF ConnectionIInv, ConnectionInv

(* A step that ends sockets, creates none and keeps the client's.          *)
LEMMA EndedSome ==
  ASSUME ConnectionIInv, TypeOK',
         UNCHANGED <<socket, closedByClient, state>>,
         \A s \in Sockets :
           /\ ready'[s] \in Live => ready[s] \in Live
           /\ ready'[s] = "none" <=> ready[s] = "none"
           /\ s = socket /\ ready[s] \in {"open", "closing"} => ready'[s] \in {"open", "closing"}
  PROVE  ConnectionIInv'
<1>1. Opened' = Opened
  BY DEF Opened
<1>2. OneConnection'
  BY DEF ConnectionIInv, ConnectionInv, OneConnection, Live
<1>3. ConnectedHasSocket'
  BY DEF ConnectionIInv, ConnectionInv, ConnectedHasSocket, TypeOK
<1>4. Numbered'
  BY <1>1 DEF ConnectionIInv, Numbered
<1>5. QED
  BY <1>2, <1>3, <1>4 DEF ConnectionIInv, ConnectionInv

-----------------------------------------------------------------------------
LEMMA InitConnection == Init => ConnectionIInv
<1> SUFFICES ASSUME Init PROVE ConnectionIInv
  OBVIOUS
<1>1. TypeOK
  <2>1. timers \in 0 .. MaxTimers
    BY WebClientBounds DEF Init
  <2>2. fate \in [Requests -> Fates] /\ ready \in [Sockets -> ReadyStates]
    BY DEF Init, Fates, ReadyStates
  <2>3. QED
    BY <2>1, <2>2 DEF Init, TypeOK, ConnectionStates, NoSocket
<1>2. ConnectedHasSocket /\ OneConnection
  BY DEF Init, ConnectedHasSocket, OneConnection
<1>3. Opened = {}
  BY DEF Init, Opened
<1>4. Numbered
  BY <1>3, FS_EmptySet DEF Numbered
<1>5. QED
  BY <1>1, <1>2, <1>4 DEF ConnectionIInv, ConnectionInv

LEMMA CallsKeep ==
  ASSUME ConnectionIInv,
         Connect \/ Close \/ ReconnectTimer
  PROVE  ConnectionIInv'
<1>1. TypeOK /\ OneConnection /\ ConnectedHasSocket /\ Numbered
  BY DEF ConnectionIInv, ConnectionInv
<1>2. CASE Connect
  BY <1>1, <1>2, OpenedOne DEF Connect, TypeOK, ConnectionStates
<1>3. CASE Close
  <2>1. ready' \in [Sockets -> ReadyStates] /\ failing' \subseteq Sockets
    BY <1>1, <1>3, ClosedKeeps DEF Close, TypeOK
  <2>2. TypeOK'
    BY <1>1, <1>3, <2>1, RejectedType DEF Close, TypeOK, ConnectionStates, Fates
  <2>3. Opened' = Opened
    BY <1>1, <1>3, ClosedKeeps DEF Close, Opened
  <2>4. OneConnection'
    BY <1>1, <1>3, ClosedKeeps DEF Close, OneConnection, Live
  <2>5. QED
    BY <1>1, <1>3, <2>2, <2>3, <2>4
    DEF Close, ConnectionIInv, ConnectionInv, Numbered, ConnectedHasSocket
<1>4. CASE ReconnectTimer
  <2>1. timers' \in 0 .. MaxTimers
    BY <1>1, <1>4, WebClientBounds DEF ReconnectTimer, TypeOK
  <2>2. CASE MayReconnect /\ OpenSocket("reconnecting")
    <3>1. closedByClient' = FALSE
      BY <1>1, <1>4, <2>2 DEF ReconnectTimer, MayReconnect, TypeOK
    <3>2. UNCHANGED <<asked, fate, answers, stray>>
      BY <1>4 DEF ReconnectTimer
    <3>3. QED
      BY <2>1, <2>2, <3>1, <3>2, OpenedOne DEF ConnectionStates
  <2>3. CASE UNCHANGED <<state, socket, ready, failing>>
    <3>1. TypeOK'
      BY <1>1, <1>4, <2>1, <2>3 DEF ReconnectTimer, TypeOK
    <3>2. QED
      BY <1>4, <2>3, <3>1, EndedSome DEF ReconnectTimer
  <2>4. QED
    BY <1>4, <2>2, <2>3 DEF ReconnectTimer
<1>5. QED
  BY <1>2, <1>3, <1>4

LEMMA RequestsKeep ==
  ASSUME ConnectionIInv, NEW r \in Requests,
         Request(r) \/ RequestTimesOut(r) \/ ServerAnswers(r) \/ ResponseArrives(r)
  PROVE  ConnectionIInv'
<1>1. TypeOK
  BY DEF ConnectionIInv, ConnectionInv
<1>2. UNCHANGED <<state, socket, closedByClient, ready, failing, timers>>
  BY DEF Request, RequestTimesOut, ServerAnswers, ResponseArrives
<1>3. fate' \in [Requests -> Fates] /\ answers' \subseteq Requests /\ stray' \subseteq Requests
  BY <1>1 DEF Request, RequestTimesOut, ServerAnswers, ResponseArrives, Resolve, TypeOK, Fates
<1>4. asked' \in [Requests -> Sockets \cup {NoSocket}]
  BY <1>1 DEF Request, RequestTimesOut, ServerAnswers, ResponseArrives, TypeOK
<1>5. TypeOK'
  BY <1>1, <1>2, <1>3, <1>4 DEF TypeOK
<1>6. QED
  BY <1>2, <1>5, EndedSome

LEMMA BrowserKeeps ==
  ASSUME ConnectionIInv, NEW s \in Sockets, Browser(s)
  PROVE  ConnectionIInv'
<1>1. TypeOK /\ OneConnection /\ ConnectedHasSocket /\ Numbered
  BY DEF ConnectionIInv, ConnectionInv
<1>2. CASE SocketOpens(s)
  <2>1. s = socket /\ s # NoSocket
    BY <1>1, <1>2 DEF SocketOpens, OneConnection, Sockets, NoSocket
  <2>2. TypeOK' /\ Opened' = Opened
    BY <1>1, <1>2 DEF SocketOpens, TypeOK, ReadyStates, ConnectionStates, Opened
  <2>3. OneConnection' /\ ConnectedHasSocket'
    BY <1>1, <1>2, <2>1 DEF SocketOpens, OneConnection, ConnectedHasSocket, TypeOK
  <2>4. QED
    BY <1>1, <2>2, <2>3 DEF ConnectionIInv, ConnectionInv, Numbered
<1>3. CASE ConnectionBreaks(s) \/ ServerCloses(s)
  <2>1. TypeOK'
    BY <1>1, <1>3 DEF ConnectionBreaks, ServerCloses, TypeOK, ReadyStates
  <2>2. ready' = [ready EXCEPT ![s] = "closing"] /\ ready[s] \in Live
    BY <1>3 DEF ConnectionBreaks, ServerCloses, Live
  <2>3. UNCHANGED <<socket, closedByClient, state>>
    BY <1>3 DEF ConnectionBreaks, ServerCloses
  <2>4. QED
    BY <1>1, <2>1, <2>2, <2>3, EndedSome DEF TypeOK, Live
<1>4. CASE SocketError(s)
  <2>1. TypeOK' /\ Opened' = Opened
    BY <1>1, <1>4 DEF SocketError, TypeOK, ConnectionStates, Opened
  <2>2. OneConnection' /\ ConnectedHasSocket'
    BY <1>1, <1>4 DEF SocketError, OneConnection, ConnectedHasSocket
  <2>3. QED
    BY <1>1, <2>1, <2>2 DEF ConnectionIInv, ConnectionInv, Numbered
<1>5. CASE SocketClosed(s)
  <2>1. ready' = [ready EXCEPT ![s] = "closed"] /\ ready[s] = "closing"
    BY <1>5 DEF SocketClosed
  <2>2. Opened' = Opened
    BY <1>1, <2>1 DEF TypeOK, Opened
  <2>3. TypeOK'
    <3>1. ready' \in [Sockets -> ReadyStates]
      BY <1>1, <2>1 DEF TypeOK, ReadyStates
    <3>2. fate' \in [Requests -> Fates]
      BY <1>1, <1>5, RejectedType DEF SocketClosed, TypeOK, Fates
    <3>3. timers' \in 0 .. MaxTimers /\ state' \in ConnectionStates
      BY <1>1, <1>5, WebClientBounds DEF SocketClosed, TypeOK, ConnectionStates
    <3>4. socket' \in Sockets \cup {NoSocket}
      BY <1>1, <1>5 DEF SocketClosed, TypeOK
    <3>5. QED
      BY <1>1, <1>5, <3>1, <3>2, <3>3, <3>4 DEF SocketClosed, TypeOK
  <2>4. OneConnection'
    BY <1>1, <1>5, <2>1 DEF SocketClosed, IsCurrent, OneConnection, TypeOK
  <2>5. ConnectedHasSocket'
    BY <1>1, <1>5, <2>1 DEF SocketClosed, IsCurrent, ConnectedHasSocket, TypeOK
  <2>6. QED
    BY <1>1, <2>2, <2>3, <2>4, <2>5 DEF ConnectionIInv, ConnectionInv, Numbered
<1>6. QED
  BY <1>2, <1>3, <1>4, <1>5 DEF Browser

LEMMA NextConnection ==
  ASSUME ConnectionIInv, [Next]_vars
  PROVE  ConnectionIInv'
<1>1. CASE UNCHANGED vars
  <2>1. TypeOK'
    BY <1>1 DEF ConnectionIInv, ConnectionInv, TypeOK, vars
  <2>2. QED
    BY <1>1, <2>1, EndedSome DEF vars
<1>2. CASE Next
  BY <1>2, CallsKeep, RequestsKeep, BrowserKeeps DEF Next
<1>3. QED
  BY <1>1, <1>2

-----------------------------------------------------------------------------
(* However often the application connects and closes, whatever timers run  *)
(* and whenever a socket it replaced reports an event: the client has at   *)
(* most one live connection, none after it was closed, and shows           *)
(* "connected" only while its own socket is open or not yet reported       *)
(* closed.                                                                 *)
THEOREM OneConnectionAtATime == Spec => []ConnectionInv
<1>1. Init => ConnectionIInv
  BY InitConnection
<1>2. ConnectionIInv /\ [Next]_vars => ConnectionIInv'
  BY NextConnection
<1>3. ConnectionIInv => ConnectionInv
  BY DEF ConnectionIInv
<1>4. QED
  BY <1>1, <1>2, <1>3, PTL DEF Spec

-----------------------------------------------------------------------------
(* An idle client was never connected: it has no socket.                   *)
NothingWaits == socket = NoSocket => Pending = {}

ComesBack == socket = NoSocket /\ state # "idle" => closedByClient \/ timers > 0

IdleIsUnconnected == state = "idle" => socket = NoSocket

StrandedIInv == NothingWaits /\ ComesBack /\ IdleIsUnconnected

(* A step that sets a socket strands nothing.                              *)
LEMMA OpenedNothingStranded ==
  ASSUME TypeOK, NEW next \in {"connecting", "reconnecting"}, OpenSocket(next)
  PROVE  StrandedIInv'
<1>1. socket' # NoSocket
  BY OpenedCount DEF OpenSocket, NoSocket
<1>2. state' # "idle"
  BY DEF OpenSocket
<1>3. QED
  BY <1>1, <1>2 DEF StrandedIInv, NothingWaits, ComesBack, IdleIsUnconnected

(* Rejecting every pending request leaves none.                            *)
LEMMA RejectedAll ==
  ASSUME NEW code \in Fates \ {"pending"}, fate' = Rejected(code)
  PROVE  Pending' = {}
BY DEF Pending, Rejected

LEMMA NextStranded ==
  ASSUME ConnectionIInv, StrandedIInv, [Next]_vars
  PROVE  StrandedIInv'
<1>1. TypeOK /\ OneConnection /\ ConnectedHasSocket
  BY DEF ConnectionIInv, ConnectionInv
<1> USE DEF StrandedIInv, NothingWaits, ComesBack, IdleIsUnconnected
<1>2. CASE UNCHANGED vars
  BY <1>2 DEF vars, Pending
<1>3. CASE Connect
  BY <1>1, <1>3, OpenedNothingStranded DEF Connect
<1>4. CASE Close
  <2>1. Pending' = {}
    BY <1>4, RejectedAll DEF Close, Fates
  <2>2. QED
    BY <1>4, <2>1 DEF Close
<1>5. CASE ReconnectTimer
  <2>1. CASE MayReconnect /\ OpenSocket("reconnecting")
    BY <1>1, <2>1, OpenedNothingStranded
  <2>2. CASE ~MayReconnect /\ UNCHANGED <<state, socket>>
    BY <1>5, <2>2 DEF ReconnectTimer, MayReconnect, Pending
  <2>3. QED
    BY <1>5, <2>1, <2>2 DEF ReconnectTimer
<1>6. ASSUME NEW r \in Requests,
             Request(r) \/ RequestTimesOut(r) \/ ServerAnswers(r) \/ ResponseArrives(r)
      PROVE  StrandedIInv'
  <2>1. UNCHANGED <<state, socket, closedByClient, timers>>
    BY <1>6 DEF Request, RequestTimesOut, ServerAnswers, ResponseArrives
  <2>2. socket = NoSocket => Pending' \subseteq Pending
    BY <1>1, <1>6
    DEF Request, MayRequest, RequestTimesOut, ServerAnswers, ResponseArrives, Resolve, Pending,
        TypeOK
  <2>3. QED
    BY <2>1, <2>2
<1>7. ASSUME NEW s \in Sockets, Browser(s)
      PROVE  StrandedIInv'
  <2>1. CASE SocketOpens(s)
    <3>1. s = socket /\ s # NoSocket
      BY <1>1, <2>1 DEF SocketOpens, OneConnection, Sockets, NoSocket
    <3>2. QED
      BY <2>1, <3>1 DEF SocketOpens
  <2>2. CASE ConnectionBreaks(s) \/ ServerCloses(s)
    BY <2>2 DEF ConnectionBreaks, ServerCloses, Pending
  <2>3. CASE SocketError(s)
    BY <1>1, <2>3 DEF SocketError, ConnectedHasSocket, Pending
  <2>4. CASE SocketClosed(s) /\ ~IsCurrent(s)
    BY <2>4 DEF SocketClosed, Pending
  <2>5. CASE SocketClosed(s) /\ IsCurrent(s)
    <3>1. Pending' = {}
      BY <2>5, RejectedAll DEF SocketClosed, Fates
    <3>2. closedByClient' \/ timers' > 0
      BY <1>1, <2>5 DEF SocketClosed, TypeOK
    <3>3. state' # "idle"
      BY <2>5 DEF SocketClosed
    <3>4. QED
      BY <3>1, <3>2, <3>3
  <2>6. QED
    BY <1>7, <2>1, <2>2, <2>3, <2>4, <2>5 DEF Browser
<1>8. QED
  BY <1>2, <1>3, <1>4, <1>5, <1>6, <1>7 DEF Next

(* Whenever the client has no socket, no request waits, whichever socket   *)
(* it was asked on, and unless the application closed the client or never  *)
(* connected it, a reconnect timer runs.                                   *)
THEOREM NoneLeftStranded == Spec => []NoneStranded
<1>1. Init => ConnectionIInv /\ StrandedIInv
  BY InitConnection
  DEF Init, StrandedIInv, NothingWaits, ComesBack, IdleIsUnconnected, Pending
<1>2. ConnectionIInv /\ StrandedIInv /\ [Next]_vars => (ConnectionIInv /\ StrandedIInv)'
  BY NextConnection, NextStranded
<1>3. StrandedIInv => NoneStranded
  BY DEF StrandedIInv, NothingWaits, ComesBack, NoneStranded
<1>4. QED
  BY <1>1, <1>2, <1>3, PTL DEF Spec

=============================================================================

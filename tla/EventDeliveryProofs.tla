------------------------ MODULE EventDeliveryProofs ------------------------
(***************************************************************************)
(* Theorems about EventDelivery, for every set of connections and every    *)
(* number of requests, frames and events.                                  *)
(***************************************************************************)
EXTENDS EventDelivery, SequenceTheorems, TLAPS

Busy == {"serve", "reply"}
Live == {"flush", "read"} \cup Busy
Frame == Event \cup Response

(* What a client has read and will read, and what is on its way to the     *)
(* thread that writes to its socket.                                       *)
Frames(c)  == got[c] \o wire[c]
Backlog(c) == outbound[c] \o receiver[c]

-----------------------------------------------------------------------------
(* The two threads of a connection, the bus and the mutex.                 *)
Placed(c) ==
  /\ pc[c] = "serve" => lock = c
  /\ pc[c] = "accepted" <=> forwarder[c] = "none"
  /\ pc[c] \in Live => forwarder[c] = "running" /\ c \in subscribers
  /\ pc[c] = "accepted" => /\ outbound[c] = <<>> /\ receiver[c] = <<>>
                           /\ wire[c] = <<>> /\ events[c] = <<>>

(* Requests come in the order of their numbers, after the one in service.  *)
Asking(c) ==
  /\ serving[c] <= sent[c]
  /\ pc[c] \in Busy => serving[c] # 0
  /\ \A i \in DOMAIN inbox[c] :
       inbox[c][i] # 0 => serving[c] < inbox[c][i] /\ inbox[c][i] <= sent[c]
  /\ \A i, j \in DOMAIN inbox[c] :
       i < j /\ inbox[c][i] # 0 /\ inbox[c][j] # 0 => inbox[c][i] < inbox[c][j]

(* An event was published by a request that had been taken by then.        *)
Logged == \A n \in DOMAIN published :
  published[n].id = n /\ published[n].num <= serving[published[n].conn]

(* A connection subscribed between two requests.                           *)
Between(c, d) ==
  since[c] # 0 /\ since[c] = Len(published) /\ pc[d] = "serve" =>
    published[since[c]].conn # d \/ published[since[c]].num # serving[d]

Joined(c) ==
  /\ since[c] <= Len(published)
  /\ since[c] \in 1..(Len(published) - 1) =>
       \/ published[since[c]].conn # published[since[c] + 1].conn
       \/ published[since[c]].num # published[since[c] + 1].num
  /\ \A d \in Conn : Between(c, d)

(* The frames of a client c, the events waiting for it and the request n   *)
(* its thread is at: responses go out in order, and an event of a request  *)
(* of c's own is behind the response to it, or waits and will be.          *)
Answered(c, frames, n) == \E j \in DOMAIN frames : frames[j] = ResponseTo(c, n)

Ordered(frames) == \A i, j \in DOMAIN frames :
  i < j /\ frames[i].kind = "response" /\ frames[j].kind = "response" =>
    frames[i].num < frames[j].num

OwnFollow(c, frames) == \A i \in DOMAIN frames :
  frames[i].kind = "event" /\ frames[i].conn = c =>
    \E j \in 1..(i - 1) : frames[j] = ResponseTo(c, frames[i].num)

UpTo(frames, n, place) == \A i \in DOMAIN frames : frames[i].kind = "response" =>
  frames[i].num <= n /\ (place \in Busy => frames[i].num < n)

OwnWait(c, frames, backlog, n, place) == \A i \in DOMAIN backlog :
  backlog[i].conn = c =>
    Answered(c, frames, backlog[i].num) \/ (place \in Busy /\ backlog[i].num = n)

Answering(c, frames, backlog, n, place, up) ==
  /\ Ordered(frames)
  /\ OwnFollow(c, frames)
  /\ UpTo(frames, n, place)
  /\ up = "up" => OwnWait(c, frames, backlog, n, place)

(* The stream of a client that has all events up to next: those on its     *)
(* wire follow without a gap, and so do those that wait for the wire.      *)
OnWire(frames, m) == \E i \in DOMAIN frames : frames[i].kind = "event" /\ frames[i].id = m

FromLog(frames, next, log) == \A i \in DOMAIN frames : frames[i].kind = "event" =>
  next < frames[i].id /\ frames[i].id <= Len(log) /\ frames[i] = log[frames[i].id]

Rising(frames) == \A i, j \in DOMAIN frames :
  i < j /\ frames[i].kind = "event" /\ frames[j].kind = "event" => frames[i].id < frames[j].id

Gapless(frames, next) == \A i \in DOMAIN frames : frames[i].kind = "event" =>
  \A m \in (next + 1)..(frames[i].id) : OnWire(frames, m)

Waiting(backlog, log) ==
  /\ Len(backlog) <= Len(log)
  /\ \A i \in DOMAIN backlog : backlog[i] = log[Len(log) - Len(backlog) + i]

(* The wire holds the events from next to w, and no other.                 *)
FilledTo(frames, next, w) ==
  /\ next <= w
  /\ \A m \in (next + 1)..w : OnWire(frames, m)
  /\ \A i \in DOMAIN frames : frames[i].kind = "event" => frames[i].id <= w

Streaming(frames, next, backlog, log, place, up) ==
  /\ FromLog(frames, next, log)
  /\ Rising(frames)
  /\ Gapless(frames, next)
  /\ place \in Live =>
       /\ Waiting(backlog, log)
       /\ up = "up" => FilledTo(frames, next, Len(log) - Len(backlog))

Seen(c) == since[c] + Len(events[c])

Answers(c) == Answering(c, Frames(c), Backlog(c), serving[c], pc[c], link[c])
Streams(c) == Streaming(wire[c], Seen(c), Backlog(c), published, pc[c], link[c])

DeliveryIInv ==
  /\ TypeOK
  /\ Logged
  /\ \A c \in Conn : Placed(c) /\ Asking(c) /\ Joined(c) /\ Answers(c) /\ Streams(c)

-----------------------------------------------------------------------------
(* Sequences *)

LEMMA MoveAcross ==
  ASSUME NEW S, NEW p \in Seq(S), NEW q \in Seq(S), q # <<>>
  PROVE  Append(p, Head(q)) \o Tail(q) = p \o q
<1> DEFINE l == Append(p, Head(q)) \o Tail(q)
           r == p \o q
<1>1. Head(q) \in S /\ Tail(q) \in Seq(S) /\ Len(Tail(q)) = Len(q) - 1
      /\ (\A i \in 1..Len(Tail(q)) : Tail(q)[i] = q[i + 1]) /\ Head(q) = q[1]
  BY HeadTailProperties
<1>2. Append(p, Head(q)) \in Seq(S) /\ Len(Append(p, Head(q))) = Len(p) + 1
      /\ (\A i \in 1..Len(p) : Append(p, Head(q))[i] = p[i])
      /\ Append(p, Head(q))[Len(p) + 1] = q[1]
  BY <1>1, AppendProperties
<1>3. Len(p) \in Nat /\ Len(q) \in Nat /\ Len(q) # 0
  BY LenProperties, EmptySeq
<1>4. l \in Seq(S) /\ r \in Seq(S) /\ Len(l) = Len(r) /\ Len(r) = Len(p) + Len(q)
  BY <1>1, <1>2, <1>3, ConcatProperties
<1>5. ASSUME NEW i \in 1..Len(l) PROVE l[i] = r[i]
  <2>1. r[i] = IF i <= Len(p) THEN p[i] ELSE q[i - Len(p)]
    BY <1>3, <1>4, ConcatProperties
  <2>2. l[i] = IF i <= Len(p) + 1 THEN Append(p, Head(q))[i] ELSE Tail(q)[i - (Len(p) + 1)]
    BY <1>1, <1>2, <1>3, <1>4, ConcatProperties
  <2>3. CASE i <= Len(p)
    BY <1>2, <1>3, <2>1, <2>2, <2>3
  <2>4. CASE i = Len(p) + 1
    BY <1>2, <1>3, <2>1, <2>2, <2>4
  <2>5. CASE i > Len(p) + 1
    <3>1. i - (Len(p) + 1) \in 1..Len(Tail(q)) /\ (i - (Len(p) + 1)) + 1 = i - Len(p)
      BY <1>1, <1>3, <1>4, <2>5
    <3>2. QED
      BY <1>1, <1>3, <2>1, <2>2, <2>5, <3>1
  <2>6. QED
    BY <1>3, <1>4, <2>3, <2>4, <2>5
<1> HIDE DEF l, r
<1>6. l = r
  BY <1>4, <1>5, SeqEqual
<1>7. QED
  BY <1>6 DEF l, r

LEMMA AppendAcross ==
  ASSUME NEW S, NEW p \in Seq(S), NEW q \in Seq(S), NEW e \in S
  PROVE  p \o Append(q, e) = Append(p \o q, e)
<1>1. Append(q, e) = q \o <<e>> /\ Append(p \o q, e) = (p \o q) \o <<e>>
  BY AppendIsConcat, ConcatProperties
<1>2. <<e>> \in Seq(S)
  OBVIOUS
<1>3. QED
  BY <1>1, <1>2, ConcatAssociative

LEMMA TailAcross ==
  ASSUME NEW S, NEW p \in Seq(S), NEW q \in Seq(S), p # <<>>
  PROVE  p \o q # <<>> /\ Head(p \o q) = Head(p) /\ Tail(p \o q) = Tail(p) \o q
<1> DEFINE l == Tail(p \o q)
           r == Tail(p) \o q
<1>1. Len(p) \in Nat \ {0} /\ Len(q) \in Nat
  BY LenProperties, EmptySeq
<1>2. p \o q \in Seq(S) /\ Len(p \o q) = Len(p) + Len(q)
      /\ (\A i \in 1..(Len(p) + Len(q)) :
            (p \o q)[i] = IF i <= Len(p) THEN p[i] ELSE q[i - Len(p)])
  BY ConcatProperties
<1>3. p \o q # <<>>
  BY <1>1, <1>2
<1>4. Tail(p) \in Seq(S) /\ Len(Tail(p)) = Len(p) - 1
      /\ \A i \in 1..Len(Tail(p)) : Tail(p)[i] = p[i + 1]
  BY HeadTailProperties
<1>5. l \in Seq(S) /\ Len(l) = Len(p) + Len(q) - 1
      /\ \A i \in 1..Len(l) : l[i] = (p \o q)[i + 1]
  BY <1>1, <1>2, <1>3, HeadTailProperties
<1>6. r \in Seq(S) /\ Len(r) = Len(p) + Len(q) - 1
      /\ (\A i \in 1..Len(r) :
            r[i] = IF i <= Len(p) - 1 THEN Tail(p)[i] ELSE q[i - (Len(p) - 1)])
  BY <1>1, <1>4, ConcatProperties
<1>7. ASSUME NEW i \in 1..Len(l) PROVE l[i] = r[i]
  <2>1. l[i] = IF i + 1 <= Len(p) THEN p[i + 1] ELSE q[(i + 1) - Len(p)]
    BY <1>1, <1>2, <1>5
  <2>2. r[i] = IF i <= Len(p) - 1 THEN p[i + 1] ELSE q[(i + 1) - Len(p)]
    BY <1>1, <1>4, <1>5, <1>6
  <2>3. QED
    BY <1>1, <1>5, <2>1, <2>2
<1> HIDE DEF l, r
<1>8. l = r
  BY <1>5, <1>6, <1>7, SeqEqual
<1>9. Head(p \o q) = Head(p)
  BY <1>1, <1>2, <1>3
<1>10. QED
  BY <1>3, <1>8, <1>9 DEF l, r

-----------------------------------------------------------------------------
(* Kinds of frames *)

LEMMA Kinds ==
  /\ \A e \in Event : e.kind = "event" /\ e.conn \in Conn /\ e.num \in Nat /\ e.id \in Nat
  /\ \A r \in Response : r.kind = "response" /\ r.num \in Nat
  /\ \A f \in Frame : f.num \in Nat /\ (f.kind = "event" => f \in Event)
                                    /\ (f.kind = "response" => f \in Response)
  /\ \A c \in Conn, n \in Number : ResponseTo(c, n) \in Response /\ ResponseTo(c, n).num = n
<1>1. MaxRequests \in Nat /\ MaxEvents \in Nat
  BY EventDeliveryAssumption
<1>2. \A e \in Event : e.kind = "event" /\ e.conn \in Conn /\ e.num \in Nat /\ e.id \in Nat
  BY <1>1 DEF Event, Number
<1>3. \A r \in Response : r.kind = "response" /\ r.num \in Nat
  BY <1>1 DEF Response, Number
<1>4. \A c \in Conn, n \in Number : ResponseTo(c, n) \in Response /\ ResponseTo(c, n).num = n
  BY <1>1 DEF Response, ResponseTo
<1>5. QED
  BY <1>2, <1>3, <1>4 DEF Frame

LEMMA Places ==
  /\ Live = {"flush", "read", "serve", "reply"} /\ Busy = {"serve", "reply"}
BY DEF Live, Busy

-----------------------------------------------------------------------------
(* Answers in order, an event of one's own after the answer to it *)

(* An event of another connection, or of the request in service, queues up. *)
LEMMA AnsweringQueued ==
  ASSUME NEW c, NEW frames, NEW backlog \in Seq(Event), NEW n, NEW place, NEW up,
         Answering(c, frames, backlog, n, place, up), NEW e \in Event,
         e.conn # c \/ (place \in Busy /\ e.num = n)
  PROVE  Answering(c, frames, Append(backlog, e), n, place, up)
<1>1. SUFFICES ASSUME up = "up" PROVE OwnWait(c, frames, Append(backlog, e), n, place)
  BY DEF Answering
<1>2. OwnWait(c, frames, backlog, n, place)
  BY <1>1 DEF Answering
<1>3. DOMAIN Append(backlog, e) = 1..(Len(backlog) + 1) /\ DOMAIN backlog = 1..Len(backlog)
      /\ Len(backlog) \in Nat
      /\ (\A i \in 1..Len(backlog) : Append(backlog, e)[i] = backlog[i])
      /\ Append(backlog, e)[Len(backlog) + 1] = e
  BY AppendProperties, LenProperties
<1>4. ASSUME NEW i \in DOMAIN Append(backlog, e), Append(backlog, e)[i].conn = c
      PROVE  \/ Answered(c, frames, Append(backlog, e)[i].num)
             \/ place \in Busy /\ Append(backlog, e)[i].num = n
  <2>1. CASE i \in 1..Len(backlog)
    BY <1>2, <1>3, <1>4, <2>1 DEF OwnWait
  <2>2. CASE i = Len(backlog) + 1
    BY <1>3, <1>4, <2>2
  <2>3. QED
    BY <1>3, <2>1, <2>2
<1>5. QED
  BY <1>4 DEF OwnWait

LEMMA AppendedFrame ==
  ASSUME NEW frames \in Seq(Frame), NEW f \in Frame
  PROVE  /\ Len(frames) \in Nat
         /\ DOMAIN frames = 1..Len(frames)
         /\ DOMAIN Append(frames, f) = 1..(Len(frames) + 1)
         /\ \A i \in 1..Len(frames) : Append(frames, f)[i] = frames[i]
         /\ Append(frames, f)[Len(frames) + 1] = f
BY AppendProperties, LenProperties

(* The first event that waits goes out between two requests. *)
LEMMA AnsweringFlushed ==
  ASSUME NEW c, NEW frames \in Seq(Frame), NEW backlog \in Seq(Event), NEW n,
         Answering(c, frames, backlog, n, "flush", "up"), backlog # <<>>
  PROVE  Answering(c, Append(frames, Head(backlog)), Tail(backlog), n, "flush", "up")
<1> DEFINE e == Head(backlog)
           more == Append(frames, e)
<1>1. e \in Event /\ e \in Frame /\ e.kind = "event"
      /\ 1 \in DOMAIN backlog /\ e = backlog[1]
      /\ (\A i \in DOMAIN Tail(backlog) : i + 1 \in DOMAIN backlog
                                          /\ Tail(backlog)[i] = backlog[i + 1])
  <2>1. e \in Event /\ Tail(backlog) \in Seq(Event) /\ Len(Tail(backlog)) = Len(backlog) - 1
        /\ \A i \in 1..Len(Tail(backlog)) : Tail(backlog)[i] = backlog[i + 1]
    BY HeadTailProperties
  <2>2. Len(backlog) \in Nat \ {0} /\ DOMAIN backlog = 1..Len(backlog)
        /\ DOMAIN Tail(backlog) = 1..Len(Tail(backlog))
    BY <2>1, LenProperties, EmptySeq
  <2>3. e = backlog[1]
    BY <2>2
  <2>4. QED
    BY <2>1, <2>2, <2>3, Kinds DEF Frame
<1> HIDE DEF e
<1>2. /\ Len(frames) \in Nat
      /\ DOMAIN frames = 1..Len(frames)
      /\ DOMAIN more = 1..(Len(frames) + 1)
      /\ \A i \in 1..Len(frames) : more[i] = frames[i]
      /\ more[Len(frames) + 1] = e
  BY <1>1, AppendedFrame
<1>3. Ordered(frames) /\ OwnFollow(c, frames) /\ UpTo(frames, n, "flush")
      /\ OwnWait(c, frames, backlog, n, "flush")
  BY DEF Answering
<1>4. "flush" \notin Busy
  BY Places
<1> HIDE DEF more
<1>5. Ordered(more)
  BY <1>1, <1>2, <1>3 DEF Ordered
<1>6. OwnFollow(c, more)
  <2>1. ASSUME NEW i \in DOMAIN more, more[i].kind = "event", more[i].conn = c
        PROVE  \E j \in 1..(i - 1) : more[j] = ResponseTo(c, more[i].num)
    <3>1. CASE i \in DOMAIN frames
      <4>1. PICK j \in 1..(i - 1) : frames[j] = ResponseTo(c, frames[i].num)
        BY <1>2, <1>3, <2>1, <3>1 DEF OwnFollow
      <4>2. j \in DOMAIN frames
        BY <1>2, <3>1
      <4>3. more[j] = ResponseTo(c, more[i].num)
        BY <1>2, <3>1, <4>1, <4>2
      <4>4. QED
        BY <4>3
    <3>2. CASE i = Len(frames) + 1
      <4>1. Answered(c, frames, e.num)
        BY <1>1, <1>2, <1>3, <1>4, <2>1, <3>2 DEF OwnWait
      <4>2. PICK j \in DOMAIN frames : frames[j] = ResponseTo(c, e.num)
        BY <4>1 DEF Answered
      <4>3. j \in 1..(i - 1) /\ more[j] = ResponseTo(c, more[i].num)
        BY <1>2, <3>2, <4>2
      <4>4. QED
        BY <4>3
    <3>3. QED
      BY <1>2, <3>1, <3>2
  <2>2. QED
    BY <2>1 DEF OwnFollow
<1>7. UpTo(more, n, "flush")
  BY <1>1, <1>2, <1>3 DEF UpTo
<1>8. OwnWait(c, more, Tail(backlog), n, "flush")
  <2>1. \A m : Answered(c, frames, m) => Answered(c, more, m)
    BY <1>2 DEF Answered
  <2>2. QED
    BY <1>1, <1>3, <2>1 DEF OwnWait
<1>9. QED
  BY <1>5, <1>6, <1>7, <1>8 DEF Answering, more, e

(* The response to the request in service goes out.                        *)
LEMMA AnsweringReplied ==
  ASSUME NEW c \in Conn, NEW frames \in Seq(Frame), NEW backlog \in Seq(Event), NEW n \in Number,
         Answering(c, frames, backlog, n, "reply", "up")
  PROVE  Answering(c, Append(frames, ResponseTo(c, n)), backlog, n, "flush", "up")
<1> DEFINE r == ResponseTo(c, n)
           more == Append(frames, r)
<1>1. r \in Frame /\ r.kind = "response" /\ r.num = n /\ n \in Nat
  BY Kinds, EventDeliveryAssumption DEF Frame, Number
<1> HIDE DEF r
<1>2. /\ Len(frames) \in Nat
      /\ DOMAIN frames = 1..Len(frames)
      /\ DOMAIN more = 1..(Len(frames) + 1)
      /\ \A i \in 1..Len(frames) : more[i] = frames[i]
      /\ more[Len(frames) + 1] = r
  BY <1>1, AppendedFrame
<1>3. Ordered(frames) /\ OwnFollow(c, frames) /\ UpTo(frames, n, "reply")
      /\ OwnWait(c, frames, backlog, n, "reply")
  BY DEF Answering
<1>4. "flush" \notin Busy /\ "reply" \in Busy
  BY Places
<1>5. \A i \in DOMAIN frames : frames[i].kind = "response" => frames[i].num < n
  BY <1>3, <1>4 DEF UpTo
<1>6. \A i \in DOMAIN frames : frames[i].num \in Nat
  BY <1>2, ElementOfSeq, Kinds
<1> HIDE DEF more
<1>7. Ordered(more)
  BY <1>1, <1>2, <1>3, <1>5, <1>6 DEF Ordered
<1>8. OwnFollow(c, more)
  <2>1. ASSUME NEW i \in DOMAIN more, more[i].kind = "event", more[i].conn = c
        PROVE  \E j \in 1..(i - 1) : more[j] = ResponseTo(c, more[i].num)
    <3>1. i \in DOMAIN frames
      BY <1>1, <1>2, <2>1
    <3>2. PICK j \in 1..(i - 1) : frames[j] = ResponseTo(c, frames[i].num)
      BY <1>2, <1>3, <2>1, <3>1 DEF OwnFollow
    <3>3. j \in DOMAIN frames
      BY <1>2, <3>1
    <3>4. more[j] = ResponseTo(c, more[i].num)
      BY <1>2, <3>1, <3>2, <3>3
    <3>5. QED
      BY <3>4
  <2>2. QED
    BY <2>1 DEF OwnFollow
<1>9. UpTo(more, n, "flush")
  BY <1>1, <1>2, <1>4, <1>5, <1>6 DEF UpTo
<1>10. OwnWait(c, more, backlog, n, "flush")
  <2>1. \A m : Answered(c, frames, m) => Answered(c, more, m)
    BY <1>2 DEF Answered
  <2>2. Answered(c, more, n)
    BY <1>2 DEF Answered, r
  <2>3. QED
    BY <1>3, <2>1, <2>2 DEF OwnWait
<1>11. QED
  BY <1>7, <1>8, <1>9, <1>10 DEF Answering, more, r

(* The next request is taken.                                              *)
LEMMA AnsweringTaken ==
  ASSUME NEW c, NEW frames \in Seq(Frame), NEW backlog, NEW n \in Nat, NEW up,
         Answering(c, frames, backlog, n, "read", up), NEW m \in Nat, n < m
  PROVE  Answering(c, frames, backlog, m, "serve", up)
<1>1. \A i \in DOMAIN frames : frames[i].num \in Nat
  BY LenProperties, ElementOfSeq, Kinds
<1>2. UpTo(frames, m, "serve")
  BY <1>1 DEF Answering, UpTo
<1>3. OwnWait(c, frames, backlog, n, "read") => OwnWait(c, frames, backlog, m, "serve")
  BY Places DEF OwnWait
<1>4. QED
  BY <1>2, <1>3 DEF Answering

(* The thread moves on, and events that waited are written off.            *)
LEMMA AnsweringMoved ==
  ASSUME NEW c, NEW frames, NEW backlog, NEW n, NEW place, NEW up,
         Answering(c, frames, backlog, n, place, up), NEW rest, NEW next,
         next \in Busy <=> place \in Busy,
         \A i \in DOMAIN rest : \E j \in DOMAIN backlog : rest[i] = backlog[j]
  PROVE  Answering(c, frames, rest, n, next, up)
<1>1. UpTo(frames, n, next)
  BY DEF Answering, UpTo
<1>2. OwnWait(c, frames, backlog, n, place) => OwnWait(c, frames, rest, n, next)
  BY DEF OwnWait
<1>3. QED
  BY <1>1, <1>2 DEF Answering

(* A client that is gone reads no more frames.                             *)
LEMMA AnsweringLost ==
  ASSUME NEW c, NEW frames \in Seq(Frame), NEW backlog, NEW n, NEW place, NEW up,
         Answering(c, frames, backlog, n, place, up),
         NEW fewer \in Seq(Frame), NEW rest, NEW next,
         next \in Busy => place \in Busy,
         Len(fewer) <= Len(frames), \A i \in 1..Len(fewer) : fewer[i] = frames[i]
  PROVE  Answering(c, fewer, rest, n, next, "down")
<1>1. Len(fewer) \in Nat /\ Len(frames) \in Nat
      /\ DOMAIN fewer = 1..Len(fewer) /\ DOMAIN frames = 1..Len(frames)
  BY LenProperties
<1>2. \A i \in DOMAIN fewer : i \in DOMAIN frames /\ fewer[i] = frames[i]
  BY <1>1
<1>3. Ordered(fewer) /\ UpTo(fewer, n, next)
  BY <1>2 DEF Answering, Ordered, UpTo
<1>4. OwnFollow(c, fewer)
  <2>1. ASSUME NEW i \in DOMAIN fewer, fewer[i].kind = "event", fewer[i].conn = c
        PROVE  \E j \in 1..(i - 1) : fewer[j] = ResponseTo(c, fewer[i].num)
    <3>1. PICK j \in 1..(i - 1) : frames[j] = ResponseTo(c, frames[i].num)
      BY <1>2, <2>1 DEF Answering, OwnFollow
    <3>2. j \in DOMAIN fewer
      BY <1>1
    <3>3. QED
      BY <1>2, <3>1, <3>2
  <2>2. QED
    BY <2>1 DEF OwnFollow
<1>5. QED
  BY <1>3, <1>4 DEF Answering

-----------------------------------------------------------------------------
(* The stream without a gap *)

(* An event is published: a connection that is served queues it.           *)
LEMMA StreamingPublished ==
  ASSUME NEW frames \in Seq(Frame), NEW next \in Nat, NEW backlog \in Seq(Event),
         NEW log \in Seq(Event), NEW place, NEW up,
         Streaming(frames, next, backlog, log, place, up),
         NEW e \in Event, NEW more, place \in Live => more = Append(backlog, e)
  PROVE  Streaming(frames, next, more, Append(log, e), place, up)
<1> DEFINE grown == Append(log, e)
<1>1. Len(log) \in Nat /\ DOMAIN log = 1..Len(log) /\ Len(grown) = Len(log) + 1
      /\ DOMAIN grown = 1..(Len(log) + 1)
      /\ (\A i \in 1..Len(log) : grown[i] = log[i]) /\ grown[Len(log) + 1] = e
  BY AppendProperties, LenProperties
<1> HIDE DEF grown
<1>2. FromLog(frames, next, grown)
  <2>1. FromLog(frames, next, log)
    BY DEF Streaming
  <2>2. ASSUME NEW i \in DOMAIN frames, frames[i].kind = "event"
        PROVE  next < frames[i].id /\ frames[i].id <= Len(grown) /\ frames[i] = grown[frames[i].id]
    <3>1. next < frames[i].id /\ frames[i].id <= Len(log) /\ frames[i] = log[frames[i].id]
      BY <2>1, <2>2 DEF FromLog
    <3>2. frames[i] \in Event
      BY <2>2, Kinds, LenProperties, ElementOfSeq
    <3>3. frames[i].id \in Nat
      BY <3>2, Kinds
    <3>4. frames[i].id \in 1..Len(log)
      BY <1>1, <3>1, <3>3
    <3>5. QED
      BY <1>1, <3>1, <3>3, <3>4
  <2>3. QED
    BY <2>2 DEF FromLog
<1>3. ASSUME place \in Live
      PROVE  Waiting(more, grown) /\ (up = "up" => FilledTo(frames, next, Len(grown) - Len(more)))
  <2>1. Waiting(backlog, log) /\ (up = "up" => FilledTo(frames, next, Len(log) - Len(backlog)))
    BY <1>3 DEF Streaming
  <2>2. Len(backlog) \in Nat /\ DOMAIN backlog = 1..Len(backlog)
        /\ Len(more) = Len(backlog) + 1 /\ DOMAIN more = 1..(Len(backlog) + 1)
        /\ (\A i \in 1..Len(backlog) : more[i] = backlog[i]) /\ more[Len(backlog) + 1] = e
    <3>1. more = Append(backlog, e)
      BY <1>3
    <3>2. QED
      BY <3>1, AppendProperties, LenProperties
  <2>3. Len(grown) - Len(more) = Len(log) - Len(backlog)
    BY <1>1, <2>2
  <2>4. ASSUME NEW i \in DOMAIN more PROVE more[i] = grown[Len(grown) - Len(more) + i]
    <3>1. CASE i \in 1..Len(backlog)
      <4>1. Len(log) - Len(backlog) + i \in 1..Len(log)
        BY <1>1, <2>1, <2>2, <3>1 DEF Waiting
      <4>2. more[i] = log[Len(log) - Len(backlog) + i]
        BY <2>1, <2>2, <3>1 DEF Waiting
      <4>3. QED
        BY <1>1, <2>3, <4>1, <4>2
    <3>2. CASE i = Len(backlog) + 1
      <4>1. Len(grown) - Len(more) + i = Len(log) + 1
        BY <1>1, <2>2, <3>2
      <4>2. QED
        BY <1>1, <2>2, <3>2, <4>1
    <3>3. QED
      BY <2>2, <3>1, <3>2
  <2>5. Waiting(more, grown)
    BY <1>1, <2>1, <2>2, <2>4 DEF Waiting
  <2>6. QED
    BY <2>1, <2>3, <2>5
<1>4. Rising(frames) /\ Gapless(frames, next)
  BY DEF Streaming
<1>5. QED
  BY <1>2, <1>3, <1>4 DEF Streaming, grown

LEMMA EventFrame ==
  ASSUME NEW frames \in Seq(Frame), NEW i \in DOMAIN frames, frames[i].kind = "event"
  PROVE  frames[i] \in Event /\ frames[i].id \in Nat
BY LenProperties, ElementOfSeq, Kinds

LEMMA HeadAndTail ==
  ASSUME NEW S, NEW q \in Seq(S), q # <<>>
  PROVE  /\ Len(q) \in Nat \ {0} /\ DOMAIN q = 1..Len(q) /\ 1 \in DOMAIN q
         /\ Head(q) \in S /\ Head(q) = q[1]
         /\ Tail(q) \in Seq(S) /\ Len(Tail(q)) = Len(q) - 1
         /\ DOMAIN Tail(q) = 1..(Len(q) - 1)
         /\ \A i \in 1..(Len(q) - 1) : Tail(q)[i] = q[i + 1]
BY HeadTailProperties, LenProperties, EmptySeq

(* A frame that is no event leaves the stream as it is.                    *)
LEMMA StreamingReplied ==
  ASSUME NEW frames \in Seq(Frame), NEW next, NEW backlog, NEW log, NEW place, NEW up,
         Streaming(frames, next, backlog, log, place, up), place \in Live,
         NEW r \in Response, NEW later
  PROVE  Streaming(Append(frames, r), next, backlog, log, later, up)
<1> DEFINE more == Append(frames, r)
<1>1. /\ Len(frames) \in Nat
      /\ DOMAIN frames = 1..Len(frames)
      /\ DOMAIN more = 1..(Len(frames) + 1)
      /\ \A i \in 1..Len(frames) : more[i] = frames[i]
      /\ more[Len(frames) + 1] = r
  BY AppendedFrame DEF Frame
<1> HIDE DEF more
<1>2. \A i \in DOMAIN more : more[i].kind = "event" => i \in DOMAIN frames /\ more[i] = frames[i]
  BY <1>1, Kinds
<1>3. \A i \in DOMAIN frames : i \in DOMAIN more /\ more[i] = frames[i]
  BY <1>1
<1>4. \A m : OnWire(frames, m) => OnWire(more, m)
  BY <1>3 DEF OnWire
<1>5. FromLog(more, next, log)
  BY <1>2 DEF Streaming, FromLog
<1>6. Rising(more)
  BY <1>2 DEF Streaming, Rising
<1>7. Gapless(more, next)
  BY <1>2, <1>4 DEF Streaming, Gapless
<1>8. \A w : FilledTo(frames, next, w) => FilledTo(more, next, w)
  BY <1>2, <1>4 DEF FilledTo
<1>9. QED
  BY <1>5, <1>6, <1>7, <1>8 DEF Streaming, more

(* The first event that waits goes out.                                    *)
LEMMA StreamingFlushed ==
  ASSUME NEW frames \in Seq(Frame), NEW next \in Nat, NEW backlog \in Seq(Event),
         NEW log \in Seq(Event), \A n \in DOMAIN log : log[n].id = n,
         NEW place \in Live, Streaming(frames, next, backlog, log, place, "up"),
         backlog # <<>>
  PROVE  Streaming(Append(frames, Head(backlog)), next, Tail(backlog), log, place, "up")
<1> DEFINE e == Head(backlog)
           more == Append(frames, e)
           w == Len(log) - Len(backlog)
<1>1. e \in Event /\ e \in Frame /\ e.kind = "event" /\ e = backlog[1]
  BY HeadAndTail, Kinds DEF Frame
<1> HIDE DEF e
<1>2. /\ Len(frames) \in Nat
      /\ DOMAIN frames = 1..Len(frames)
      /\ DOMAIN more = 1..(Len(frames) + 1)
      /\ \A i \in 1..Len(frames) : more[i] = frames[i]
      /\ more[Len(frames) + 1] = e
  BY <1>1, AppendedFrame
<1>3. Waiting(backlog, log) /\ FilledTo(frames, next, w)
  BY DEF Streaming
<1>4. Len(backlog) \in Nat \ {0} /\ DOMAIN backlog = 1..Len(backlog)
      /\ Len(Tail(backlog)) = Len(backlog) - 1
      /\ DOMAIN Tail(backlog) = 1..(Len(backlog) - 1)
      /\ \A i \in 1..(Len(backlog) - 1) : Tail(backlog)[i] = backlog[i + 1]
  BY HeadAndTail
<1>5. Len(log) \in Nat /\ DOMAIN log = 1..Len(log)
  BY LenProperties
<1>6. w \in Nat /\ w + 1 \in DOMAIN log /\ e = log[w + 1] /\ next <= w
  BY <1>1, <1>3, <1>4, <1>5 DEF Waiting, FilledTo
<1>7. e.id = w + 1
  BY <1>6
<1>8. Len(log) - Len(Tail(backlog)) = w + 1
  BY <1>4, <1>5
<1> HIDE DEF w, more
<1>9. \A i \in DOMAIN frames : i \in DOMAIN more /\ more[i] = frames[i]
  BY <1>2
<1>10. \A m : OnWire(frames, m) => OnWire(more, m)
  BY <1>9 DEF OnWire
<1>11. OnWire(more, w + 1)
  BY <1>1, <1>2, <1>7 DEF OnWire
<1>12. \A i \in DOMAIN frames : frames[i].kind = "event" => frames[i].id \in Nat /\ frames[i].id <= w
  BY <1>3, EventFrame DEF FilledTo
<1>13. \A m \in (next + 1)..(w + 1) : OnWire(more, m)
  <2>1. ASSUME NEW m \in (next + 1)..(w + 1) PROVE OnWire(more, m)
    <3>1. CASE m = w + 1
      BY <1>11, <3>1
    <3>2. CASE m # w + 1
      <4>1. m \in (next + 1)..w
        BY <1>6, <3>2
      <4>2. QED
        BY <1>3, <1>10, <4>1 DEF FilledTo
    <3>3. QED
      BY <3>1, <3>2
  <2>2. QED
    BY <2>1
<1>14. FromLog(more, next, log)
  <2>1. FromLog(frames, next, log)
    BY DEF Streaming
  <2>2. ASSUME NEW i \in DOMAIN more, more[i].kind = "event"
        PROVE  next < more[i].id /\ more[i].id <= Len(log) /\ more[i] = log[more[i].id]
    <3>1. CASE i \in DOMAIN frames
      BY <1>9, <2>1, <2>2, <3>1 DEF FromLog
    <3>2. CASE i = Len(frames) + 1
      BY <1>2, <1>5, <1>6, <1>7, <3>2
    <3>3. QED
      BY <1>2, <3>1, <3>2
  <2>3. QED
    BY <2>2 DEF FromLog
<1>15. Rising(more)
  <2>1. ASSUME NEW i \in DOMAIN more, NEW j \in DOMAIN more,
               i < j, more[i].kind = "event", more[j].kind = "event"
        PROVE  more[i].id < more[j].id
    <3>1. i \in DOMAIN frames
      BY <1>2, <2>1
    <3>2. CASE j \in DOMAIN frames
      BY <1>9, <2>1, <3>1, <3>2 DEF Streaming, Rising
    <3>3. CASE j = Len(frames) + 1
      BY <1>2, <1>6, <1>7, <1>9, <1>12, <2>1, <3>1, <3>3
    <3>4. QED
      BY <1>2, <3>2, <3>3
  <2>2. QED
    BY <2>1 DEF Rising
<1>16. Gapless(more, next)
  <2>1. ASSUME NEW i \in DOMAIN more, more[i].kind = "event",
               NEW m \in (next + 1)..(more[i].id)
        PROVE  OnWire(more, m)
    <3>1. CASE i \in DOMAIN frames
      <4>1. frames[i].kind = "event" /\ m \in (next + 1)..(frames[i].id)
        BY <1>9, <2>1, <3>1
      <4>2. OnWire(frames, m)
        BY <3>1, <4>1 DEF Streaming, Gapless
      <4>3. QED
        BY <1>10, <4>2
    <3>2. CASE i = Len(frames) + 1
      BY <1>2, <1>7, <1>13, <2>1, <3>2
    <3>3. QED
      BY <1>2, <3>1, <3>2
  <2>2. QED
    BY <2>1 DEF Gapless
<1>17. Waiting(Tail(backlog), log)
  <2>1. ASSUME NEW i \in DOMAIN Tail(backlog)
        PROVE  Tail(backlog)[i] = log[Len(log) - Len(Tail(backlog)) + i]
    <3>1. Tail(backlog)[i] = backlog[i + 1] /\ i + 1 \in DOMAIN backlog
      BY <1>4
    <3>2. backlog[i + 1] = log[Len(log) - Len(backlog) + (i + 1)]
      BY <1>3, <3>1 DEF Waiting
    <3>3. Len(log) - Len(Tail(backlog)) + i = Len(log) - Len(backlog) + (i + 1)
      BY <1>4, <1>5
    <3>4. QED
      BY <3>1, <3>2, <3>3
  <2>2. Len(Tail(backlog)) <= Len(log)
    BY <1>3, <1>4, <1>5 DEF Waiting
  <2>3. QED
    BY <2>1, <2>2 DEF Waiting
<1>18. FilledTo(more, next, w + 1)
  <2>1. \A i \in DOMAIN more : more[i].kind = "event" => more[i].id <= w + 1
    BY <1>2, <1>6, <1>7, <1>9, <1>12
  <2>2. next <= w + 1
    BY <1>6
  <2>3. QED
    BY <1>13, <2>1, <2>2 DEF FilledTo
<1>19. QED
  BY <1>8, <1>14, <1>15, <1>16, <1>17, <1>18 DEF Streaming, more, e

(* The client reads the first frame of the wire: if it is an event, it is  *)
(* the one that follows those it has seen.                                 *)
LEMMA StreamingRead ==
  ASSUME NEW frames \in Seq(Frame), NEW next \in Nat, NEW backlog, NEW log \in Seq(Event),
         NEW place, NEW up, Streaming(frames, next, backlog, log, place, up),
         place \in Live => backlog \in Seq(Event),
         frames # <<>>, Head(frames).kind = "event"
  PROVE  /\ next + 1 \in DOMAIN log
         /\ Head(frames) = log[next + 1]
         /\ Streaming(Tail(frames), next + 1, backlog, log, place, up)
<1> DEFINE rest == Tail(frames)
           e == frames[1]
<1>1. /\ Len(frames) \in Nat \ {0} /\ DOMAIN frames = 1..Len(frames) /\ 1 \in DOMAIN frames
      /\ Head(frames) = frames[1]
      /\ rest \in Seq(Frame) /\ DOMAIN rest = 1..(Len(frames) - 1)
      /\ \A i \in 1..(Len(frames) - 1) : rest[i] = frames[i + 1]
  BY HeadAndTail
<1> HIDE DEF rest
<1>2. e.kind = "event" /\ e.id \in Nat /\ next < e.id /\ e.id <= Len(log) /\ e = log[e.id]
  BY <1>1, EventFrame DEF Streaming, FromLog
<1>3. Len(log) \in Nat /\ DOMAIN log = 1..Len(log)
  BY LenProperties
<1>4. \A i \in DOMAIN frames : frames[i].kind = "event" => frames[i].id \in Nat
  BY EventFrame
<1>5. \A i \in DOMAIN frames : i # 1 /\ frames[i].kind = "event" => e.id < frames[i].id
  BY <1>1, <1>2 DEF Streaming, Rising
<1>6. e.id = next + 1
  <2>1. next + 1 \in (next + 1)..e.id
    BY <1>2
  <2>2. OnWire(frames, next + 1)
    BY <1>1, <1>2, <2>1 DEF Streaming, Gapless
  <2>3. PICK i \in DOMAIN frames : frames[i].kind = "event" /\ frames[i].id = next + 1
    BY <2>2 DEF OnWire
  <2>4. QED
    BY <1>2, <1>5, <2>3
<1>7. next + 1 \in DOMAIN log /\ Head(frames) = log[next + 1]
  BY <1>1, <1>2, <1>3, <1>6
<1> HIDE DEF e
<1>8. \A i \in DOMAIN rest : i + 1 \in DOMAIN frames /\ i + 1 # 1 /\ rest[i] = frames[i + 1]
  BY <1>1
<1>9. \A m : OnWire(frames, m) /\ m # next + 1 => OnWire(rest, m)
  <2>1. ASSUME NEW m, OnWire(frames, m), m # next + 1 PROVE OnWire(rest, m)
    <3>1. PICK i \in DOMAIN frames : frames[i].kind = "event" /\ frames[i].id = m
      BY <2>1 DEF OnWire
    <3>2. i # 1
      BY <1>6, <2>1, <3>1 DEF e
    <3>3. i - 1 \in DOMAIN rest /\ rest[i - 1] = frames[i]
      BY <1>1, <3>2
    <3>4. QED
      BY <3>1, <3>3 DEF OnWire
  <2>2. QED
    BY <2>1
<1>10. FromLog(rest, next + 1, log)
  <2>1. \A i \in DOMAIN frames : frames[i].kind = "event" =>
          frames[i].id <= Len(log) /\ frames[i] = log[frames[i].id]
    BY DEF Streaming, FromLog
  <2>2. \A i \in DOMAIN frames : i # 1 /\ frames[i].kind = "event" => next + 1 < frames[i].id
    BY <1>5, <1>6
  <2>3. QED
    BY <1>8, <2>1, <2>2 DEF FromLog
<1>11. Rising(rest)
  <2>1. ASSUME NEW i \in DOMAIN rest, NEW j \in DOMAIN rest,
               i < j, rest[i].kind = "event", rest[j].kind = "event"
        PROVE  rest[i].id < rest[j].id
    <3>1. i + 1 < j + 1
      BY <1>1, <2>1
    <3>2. QED
      BY <1>8, <2>1, <3>1 DEF Streaming, Rising
  <2>2. QED
    BY <2>1 DEF Rising
<1>12. Gapless(rest, next + 1)
  <2>1. ASSUME NEW i \in DOMAIN rest, rest[i].kind = "event",
               NEW m \in (next + 1 + 1)..(rest[i].id)
        PROVE  OnWire(rest, m)
    <3>1. frames[i + 1].kind = "event" /\ i + 1 \in DOMAIN frames
      BY <1>8, <2>1
    <3>2. rest[i].id = frames[i + 1].id /\ frames[i + 1].id \in Nat
      BY <1>4, <1>8, <3>1
    <3>3. m \in (next + 1)..(frames[i + 1].id) /\ m # next + 1
      BY <3>2
    <3>4. OnWire(frames, m)
      BY <3>1, <3>3 DEF Streaming, Gapless
    <3>5. QED
      BY <1>9, <3>3, <3>4
  <2>2. QED
    BY <2>1 DEF Gapless
<1>13. ASSUME place \in Live, up = "up"
       PROVE  FilledTo(rest, next + 1, Len(log) - Len(backlog))
  <2> DEFINE w == Len(log) - Len(backlog)
  <2>1. FilledTo(frames, next, w)
    BY <1>13 DEF Streaming
  <2>2. w \in Int
    BY <1>3, <1>13, LenProperties
  <2> HIDE DEF w
  <2>3. next + 1 <= w
    BY <1>1, <1>2, <1>6, <2>1 DEF FilledTo, e
  <2>4. ASSUME NEW m \in (next + 1 + 1)..w PROVE OnWire(rest, m)
    <3>1. m \in (next + 1)..w /\ m # next + 1
      BY <2>2
    <3>2. QED
      BY <1>9, <2>1, <3>1 DEF FilledTo
  <2>5. \A i \in DOMAIN rest : rest[i].kind = "event" => rest[i].id <= w
    BY <1>8, <2>1 DEF FilledTo
  <2>6. FilledTo(rest, next + 1, w)
    BY <2>3, <2>4, <2>5 DEF FilledTo
  <2>7. QED
    BY <2>6 DEF w
<1>14. place \in Live => Waiting(backlog, log)
  BY DEF Streaming
<1>15. QED
  BY <1>7, <1>10, <1>11, <1>12, <1>13, <1>14 DEF Streaming, rest

LEMMA StreamingPassed ==
  ASSUME NEW frames \in Seq(Frame), NEW next, NEW backlog, NEW log,
         NEW place, NEW up, Streaming(frames, next, backlog, log, place, up),
         frames # <<>>, Head(frames).kind # "event"
  PROVE  Streaming(Tail(frames), next, backlog, log, place, up)
<1> DEFINE rest == Tail(frames)
<1>1. /\ Len(frames) \in Nat \ {0} /\ DOMAIN frames = 1..Len(frames)
      /\ frames[1].kind # "event"
      /\ rest \in Seq(Frame) /\ DOMAIN rest = 1..(Len(frames) - 1)
      /\ \A i \in 1..(Len(frames) - 1) : rest[i] = frames[i + 1]
  BY HeadAndTail
<1> HIDE DEF rest
<1>2. \A i \in DOMAIN rest : i + 1 \in DOMAIN frames /\ rest[i] = frames[i + 1]
  BY <1>1
<1>3. \A m : OnWire(frames, m) => OnWire(rest, m)
  <2>1. ASSUME NEW m, OnWire(frames, m) PROVE OnWire(rest, m)
    <3>1. PICK i \in DOMAIN frames : frames[i].kind = "event" /\ frames[i].id = m
      BY <2>1 DEF OnWire
    <3>2. i - 1 \in DOMAIN rest /\ rest[i - 1] = frames[i]
      BY <1>1, <3>1
    <3>3. QED
      BY <3>1, <3>2 DEF OnWire
  <2>2. QED
    BY <2>1
<1>4. FromLog(rest, next, log)
  BY <1>2 DEF Streaming, FromLog
<1>5. Rising(rest)
  <2>1. ASSUME NEW i \in DOMAIN rest, NEW j \in DOMAIN rest,
               i < j, rest[i].kind = "event", rest[j].kind = "event"
        PROVE  rest[i].id < rest[j].id
    <3>1. i + 1 < j + 1
      BY <1>1, <2>1
    <3>2. QED
      BY <1>2, <2>1, <3>1 DEF Streaming, Rising
  <2>2. QED
    BY <2>1 DEF Rising
<1>6. Gapless(rest, next)
  BY <1>2, <1>3 DEF Streaming, Gapless
<1>7. \A w : FilledTo(frames, next, w) => FilledTo(rest, next, w)
  BY <1>2, <1>3 DEF FilledTo
<1>8. QED
  BY <1>4, <1>5, <1>6, <1>7 DEF Streaming, rest

(* The thread moves on, or has left its loop.                              *)
LEMMA StreamingMoved ==
  ASSUME NEW frames, NEW next, NEW backlog, NEW log, NEW place, NEW up,
         Streaming(frames, next, backlog, log, place, up),
         NEW rest, NEW later, later \in Live => place \in Live /\ rest = backlog
  PROVE  Streaming(frames, next, rest, log, later, up)
BY DEF Streaming

(* A client that is gone is written nothing: its events are written off.   *)
LEMMA StreamingLost ==
  ASSUME NEW frames, NEW next, NEW backlog \in Seq(Event), NEW log \in Seq(Event),
         NEW place, NEW up, Streaming(frames, next, backlog, log, place, up),
         NEW fewer, fewer \in {frames, <<>>},
         NEW rest, NEW later,
         later \in Live => place \in Live /\ (rest = backlog \/ (backlog # <<>> /\ rest = Tail(backlog)))
  PROVE  Streaming(fewer, next, rest, log, later, "down")
<1>1. FromLog(fewer, next, log) /\ Rising(fewer) /\ Gapless(fewer, next)
  BY DEF Streaming, FromLog, Rising, Gapless
<1>2. ASSUME later \in Live PROVE Waiting(rest, log)
  <2>1. Waiting(backlog, log)
    BY <1>2 DEF Streaming
  <2>2. ASSUME backlog # <<>>, rest = Tail(backlog) PROVE Waiting(rest, log)
    <3>1. Len(backlog) \in Nat \ {0} /\ DOMAIN backlog = 1..Len(backlog)
          /\ Len(rest) = Len(backlog) - 1
          /\ DOMAIN rest = 1..(Len(backlog) - 1)
          /\ \A i \in 1..(Len(backlog) - 1) : rest[i] = backlog[i + 1]
      BY <2>2, HeadAndTail
    <3>2. Len(log) \in Nat
      BY LenProperties
    <3>3. ASSUME NEW i \in DOMAIN rest PROVE rest[i] = log[Len(log) - Len(rest) + i]
      <4>1. rest[i] = backlog[i + 1] /\ i + 1 \in DOMAIN backlog
        BY <3>1
      <4>2. backlog[i + 1] = log[Len(log) - Len(backlog) + (i + 1)]
        BY <2>1, <4>1 DEF Waiting
      <4>3. Len(log) - Len(rest) + i = Len(log) - Len(backlog) + (i + 1)
        BY <3>1, <3>2
      <4>4. QED
        BY <4>1, <4>2, <4>3
    <3>4. Len(rest) <= Len(log)
      BY <2>1, <3>1, <3>2 DEF Waiting
    <3>5. QED
      BY <3>3, <3>4 DEF Waiting
  <2>3. QED
    BY <1>2, <2>1, <2>2
<1>3. QED
  BY <1>1, <1>2 DEF Streaming

(* A connection that subscribes has seen all it is to see.                 *)
LEMMA StreamingJoined ==
  ASSUME NEW log \in Seq(Event), NEW place, NEW up
  PROVE  Streaming(<<>>, Len(log), <<>>, log, place, up)
<1>1. Len(log) \in Nat
  BY LenProperties
<1>2. FromLog(<<>>, Len(log), log) /\ Rising(<<>>) /\ Gapless(<<>>, Len(log))
  BY DEF FromLog, Rising, Gapless
<1>3. Waiting(<<>>, log)
  BY <1>1 DEF Waiting
<1>4. FilledTo(<<>>, Len(log), Len(log) - Len(<<>>))
  BY <1>1 DEF FilledTo
<1>5. QED
  BY <1>2, <1>3, <1>4 DEF Streaming

-----------------------------------------------------------------------------
(* Types *)

LEMMA TypeInit == Init => TypeOK
BY EventDeliveryAssumption DEF Init, TypeOK, Place

LEMMA Events ==
  ASSUME TypeOK, NEW c \in Conn, pc[c] = "serve", serving[c] # 0,
         Len(published) < MaxEvents
  PROVE  EventOf(c, serving[c], NextId) \in Event
<1>1. serving[c] \in Number
  BY EventDeliveryAssumption DEF TypeOK, Number
<1>2. NextId \in 1..MaxEvents
  <2>1. Len(published) \in Nat
    BY LenProperties DEF TypeOK
  <2>2. QED
    BY <2>1, EventDeliveryAssumption DEF NextId
<1>3. QED
  BY <1>1, <1>2 DEF Event, EventOf

LEMMA TypeThread ==
  ASSUME TypeOK, NEW c \in Conn, pc[c] \in Busy => serving[c] # 0,
         Thread(c)
  PROVE  TypeOK'
<1> USE DEF Over, Place
<1>0. <<>> \in Seq(Event) /\ <<>> \in Seq(Event \cup Response)
  BY EmptySeq
<1>1. CASE Subscribe(c)
  BY <1>1, LenProperties DEF Subscribe, TypeOK, queues, client
<1>2. CASE FlushOutbound(c)
  <2>1. Head(outbound[c]) \in Event /\ Tail(outbound[c]) \in Seq(Event)
    BY <1>2, HeadAndTail DEF FlushOutbound, TypeOK
  <2>2. Append(wire[c], Head(outbound[c])) \in Seq(Event \cup Response)
    BY <2>1, AppendProperties DEF TypeOK
  <2>3. outbound' \in [Conn -> Seq(Event)] /\ wire' \in [Conn -> Seq(Event \cup Response)]
    BY <1>2, <2>1, <2>2 DEF FlushOutbound, Write, TypeOK
  <2>4. QED
    BY <1>2, <2>3 DEF FlushOutbound, TypeOK, server, threads, client
<1>3. CASE FlushDone(c)
  BY <1>3 DEF FlushDone, TypeOK, server, queues, client
<1>4. CASE ReadTimesOut(c)
  BY <1>4 DEF ReadTimesOut, TypeOK, server, queues, client
<1>5. CASE TakeRequest(c)
  <2>1. Head(inbox[c]) \in 0..MaxRequests /\ Tail(inbox[c]) \in Seq(0..MaxRequests)
    BY <1>5, HeadAndTail DEF TakeRequest, TypeOK
  <2>2. QED
    BY <1>5, <2>1 DEF TakeRequest, TypeOK, client
<1>6. CASE FinishRequest(c)
  BY <1>6 DEF FinishRequest, TypeOK, queues, client
<1>7. CASE Reply(c)
  <2>1. serving[c] \in Number
    BY <1>7, EventDeliveryAssumption DEF Reply, TypeOK, Number, Busy
  <2>2. Append(wire[c], ResponseTo(c, serving[c])) \in Seq(Event \cup Response)
    BY <2>1, Kinds, AppendProperties DEF TypeOK
  <2>3. wire' \in [Conn -> Seq(Event \cup Response)]
    BY <1>7, <2>2 DEF Reply, Write, TypeOK
  <2>4. QED
    BY <1>7, <2>3 DEF Reply, TypeOK, server, client
<1>8. CASE RejectFrame(c)
  BY <1>0, <1>8 DEF RejectFrame, Leave, TypeOK, server, client
<1>9. CASE PeerGone(c)
  BY <1>0, <1>9 DEF PeerGone, Leave, TypeOK, server, client
<1>10. CASE WriteFails(c)
  BY <1>0, <1>10 DEF WriteFails, Leave, TypeOK, server, client
<1>11. CASE JoinForwarder(c)
  BY <1>11 DEF JoinForwarder, TypeOK, server, queues, client
<1>12. QED
  BY <1>1, <1>2, <1>3, <1>4, <1>5, <1>6, <1>7, <1>8, <1>9, <1>10, <1>11 DEF Thread

LEMMA TypeOther ==
  ASSUME TypeOK, NEW c \in Conn, pc[c] \in Busy => serving[c] # 0,
         Forwarder(c) \/ Publish(c) \/ SendRequest(c) \/ ReadFrame(c) \/ Disconnect(c)
  PROVE  TypeOK'
<1>0. <<>> \in Seq(Event) /\ <<>> \in Seq(Event \cup Response)
  BY EmptySeq
<1>1. CASE Forward(c)
  <2>1. Head(receiver[c]) \in Event /\ Tail(receiver[c]) \in Seq(Event)
    BY <1>1, HeadAndTail DEF Forward, TypeOK
  <2>2. Append(outbound[c], Head(receiver[c])) \in Seq(Event)
    BY <2>1, AppendProperties DEF TypeOK
  <2>3. QED
    BY <1>1, <2>1, <2>2 DEF Forward, TypeOK, server, threads, client
<1>2. CASE StopForwarder(c)
  BY <1>0, <1>2 DEF StopForwarder, TypeOK, server, client
<1>3. CASE Publish(c)
  <2>1. PICK e \in Event : e = EventOf(c, serving[c], NextId)
    BY <1>3, Events DEF Publish, Busy
  <2>2. published' = Append(published, e)
        /\ receiver' = [d \in Conn |-> IF Reachable(d) THEN Append(receiver[d], e)
                                                       ELSE receiver[d]]
    BY <1>3, <2>1 DEF Publish
  <2>3. published' \in Seq(Event)
    BY <2>2, AppendProperties DEF TypeOK
  <2>4. receiver' \in [Conn -> Seq(Event)]
    BY <2>2, AppendProperties DEF TypeOK
  <2>5. QED
    BY <1>3, <2>3, <2>4 DEF Publish, TypeOK, threads, client
<1>4. CASE SendRequest(c)
  <2>1. sent[c] + 1 \in 0..MaxRequests /\ 0 \in 0..MaxRequests
    BY <1>4, EventDeliveryAssumption DEF SendRequest, TypeOK
  <2>2. PICK frame \in 0..MaxRequests : inbox' = [inbox EXCEPT ![c] = Append(@, frame)]
    BY <1>4, <2>1 DEF SendRequest
  <2>3. Append(inbox[c], frame) \in Seq(0..MaxRequests)
    BY AppendProperties DEF TypeOK
  <2>4. inbox' \in [Conn -> Seq(0..MaxRequests)]
    BY <2>2, <2>3 DEF TypeOK
  <2>5. sent' \in [Conn -> 0..MaxRequests]
    BY <1>4, <2>1 DEF SendRequest, TypeOK
  <2>6. QED
    BY <1>4, <2>4, <2>5 DEF SendRequest, TypeOK, server, threads
<1>5. CASE ReadFrame(c)
  <2>1. Head(wire[c]) \in Event \cup Response /\ Tail(wire[c]) \in Seq(Event \cup Response)
    BY <1>5, HeadAndTail DEF ReadFrame, TypeOK
  <2>2. Append(got[c], Head(wire[c])) \in Seq(Event \cup Response)
    BY <2>1, AppendProperties DEF TypeOK
  <2>3. Head(wire[c]).kind = "event" => Append(events[c], Head(wire[c])) \in Seq(Event)
    BY <2>1, Kinds, AppendProperties DEF TypeOK
  <2>4. events' \in [Conn -> Seq(Event)]
    BY <1>5, <2>3 DEF ReadFrame, TypeOK
  <2>5. QED
    BY <1>5, <2>1, <2>2, <2>4 DEF ReadFrame, TypeOK, server, threads
<1>6. CASE Disconnect(c)
  BY <1>0, <1>6 DEF Disconnect, TypeOK, server, threads
<1>7. QED
  BY <1>1, <1>2, <1>3, <1>4, <1>5, <1>6 DEF Forwarder

LEMMA TypeStutter == TypeOK /\ UNCHANGED vars => TypeOK'
BY DEF TypeOK, vars, server, threads, queues, client

-----------------------------------------------------------------------------
(* A step of one connection leaves the others alone, but for the events it *)
(* publishes.                                                              *)
Local(c) == Thread(c) \/ Forwarder(c) \/ SendRequest(c) \/ ReadFrame(c) \/ Disconnect(c)

Same(d) ==
  /\ pc'[d] = pc[d] /\ serving'[d] = serving[d] /\ forwarder'[d] = forwarder[d]
  /\ receiver'[d] = receiver[d] /\ outbound'[d] = outbound[d]
  /\ inbox'[d] = inbox[d] /\ wire'[d] = wire[d]
  /\ link'[d] = link[d] /\ sent'[d] = sent[d] /\ events'[d] = events[d] /\ got'[d] = got[d]
  /\ since'[d] = since[d]

LEMMA OthersRest ==
  ASSUME TypeOK, NEW c \in Conn, Local(c), NEW d \in Conn, d # c
  PROVE  Same(d) /\ published' = published /\ (d \in subscribers <=> d \in subscribers')
<1> USE DEF TypeOK, server, threads, queues, client
<1>1. CASE Subscribe(c)
  BY <1>1 DEF Subscribe, Same
<1>2. CASE FlushOutbound(c)
  BY <1>2 DEF FlushOutbound, Write, Same
<1>3. CASE FlushDone(c) \/ ReadTimesOut(c) \/ JoinForwarder(c)
  BY <1>3 DEF FlushDone, ReadTimesOut, JoinForwarder, Same
<1>4. CASE TakeRequest(c)
  BY <1>4 DEF TakeRequest, Same
<1>5. CASE FinishRequest(c)
  BY <1>5 DEF FinishRequest, Same
<1>6. CASE Reply(c)
  BY <1>6 DEF Reply, Write, Same
<1>7. CASE RejectFrame(c) \/ PeerGone(c) \/ WriteFails(c)
  BY <1>7 DEF RejectFrame, PeerGone, WriteFails, Leave, Same
<1>8. CASE Forward(c)
  BY <1>8 DEF Forward, Same
<1>9. CASE StopForwarder(c)
  BY <1>9 DEF StopForwarder, Same
<1>10. CASE SendRequest(c)
  <2>1. PICK frame : inbox' = [inbox EXCEPT ![c] = Append(@, frame)]
    BY <1>10 DEF SendRequest
  <2>2. QED
    BY <1>10, <2>1 DEF SendRequest, Same
<1>11. CASE ReadFrame(c)
  BY <1>11 DEF ReadFrame, Same
<1>12. CASE Disconnect(c)
  BY <1>12 DEF Disconnect, Same
<1>13. QED
  BY <1>1, <1>2, <1>3, <1>4, <1>5, <1>6, <1>7, <1>8, <1>9, <1>10, <1>11, <1>12
  DEF Local, Thread, Forwarder

LEMMA LogRests ==
  ASSUME NEW c \in Conn, Local(c)
  PROVE  published' = published
BY DEF Local, Thread, Forwarder, Subscribe, FlushOutbound, FlushDone, ReadTimesOut, JoinForwarder,
       TakeRequest, FinishRequest, Reply, RejectFrame, PeerGone, WriteFails, Forward,
       StopForwarder, SendRequest, ReadFrame, Disconnect, server

(* What Publish does, for an event e.                                      *)
Published(c, e) ==
  /\ pc[c] = "serve" /\ e.conn = c /\ e.num = serving[c] /\ e.id = Len(published) + 1
  /\ published' = Append(published, e)
  /\ \A d \in Conn : receiver'[d] = IF Reachable(d) THEN Append(receiver[d], e) ELSE receiver[d]
  /\ subscribers' = {d \in subscribers : Reachable(d)}
  /\ UNCHANGED <<lock, threads, outbound, inbox, wire, client, since>>

LEMMA PublishesOne ==
  ASSUME TypeOK, NEW c \in Conn, serving[c] # 0, Publish(c)
  PROVE  \E e \in Event : Published(c, e)
<1>1. PICK e \in Event : e = EventOf(c, serving[c], NextId)
  BY Events DEF Publish
<1>2. e.conn = c /\ e.num = serving[c] /\ e.id = Len(published) + 1
  BY <1>1 DEF EventOf, NextId
<1>3. receiver' = [d \in Conn |-> IF Reachable(d) THEN Append(receiver[d], e) ELSE receiver[d]]
      /\ published' = Append(published, e)
  BY <1>1 DEF Publish
<1>4. QED
  BY <1>2, <1>3 DEF Publish, Published

-----------------------------------------------------------------------------
(* Places *)

LEMMA PlacedLocal ==
  ASSUME TypeOK, TypeOK', NEW c \in Conn, Local(c), \A d \in Conn : Placed(d)
  PROVE  \A d \in Conn : Placed(d)'
<1>1. ASSUME NEW d \in Conn, d # c PROVE Placed(d)'
  <2>1. Same(d) /\ Placed(d) /\ (d \in subscribers <=> d \in subscribers')
    BY <1>1, OthersRest
  <2>2. pc[d] = "serve" => lock' = d
    <3>1. CASE TakeRequest(c)
      BY <2>1, <3>1, EventDeliveryAssumption DEF TakeRequest, Placed
    <3>2. CASE FinishRequest(c)
      BY <1>1, <2>1, <3>2 DEF FinishRequest, Placed
    <3>3. CASE ~TakeRequest(c) /\ ~FinishRequest(c)
      <4>1. lock' = lock
        BY <3>3 DEF Local, Thread, Forwarder, Subscribe, FlushOutbound, FlushDone, ReadTimesOut,
                    JoinForwarder, Reply, RejectFrame, PeerGone, WriteFails, Forward,
                    StopForwarder, SendRequest, ReadFrame, Disconnect, server
      <4>2. QED
        BY <2>1, <4>1 DEF Placed
    <3>4. QED
      BY <3>1, <3>2, <3>3
  <2>3. QED
    BY <2>1, <2>2 DEF Placed, Same
<1>2. Placed(c)'
  <2>1. Placed(c)
    OBVIOUS
  <2> USE DEF TypeOK, server, threads, queues, client
  <2>2. CASE Subscribe(c)
    BY <2>1, <2>2, Places DEF Subscribe, Placed
  <2>3. CASE FlushOutbound(c)
    BY <2>1, <2>3, Places DEF FlushOutbound, Placed
  <2>4. CASE FlushDone(c) \/ ReadTimesOut(c) \/ JoinForwarder(c)
    BY <2>1, <2>4, Places DEF FlushDone, ReadTimesOut, JoinForwarder, Placed
  <2>5. CASE TakeRequest(c)
    BY <2>1, <2>5, Places DEF TakeRequest, Placed
  <2>6. CASE FinishRequest(c)
    BY <2>1, <2>6, Places DEF FinishRequest, Placed
  <2>7. CASE Reply(c)
    BY <2>1, <2>7, Places DEF Reply, Placed
  <2>8. CASE RejectFrame(c) \/ PeerGone(c) \/ WriteFails(c)
    BY <2>1, <2>8, Places DEF RejectFrame, PeerGone, WriteFails, Leave, Placed
  <2>9. CASE Forward(c)
    BY <2>1, <2>9, Places DEF Forward, Placed
  <2>10. CASE StopForwarder(c)
    BY <2>1, <2>10, Places DEF StopForwarder, Over, Placed
  <2>11. CASE SendRequest(c)
    BY <2>1, <2>11 DEF SendRequest, Placed
  <2>12. CASE ReadFrame(c)
    BY <2>1, <2>12 DEF ReadFrame, Placed
  <2>13. CASE Disconnect(c)
    BY <2>1, <2>13 DEF Disconnect, Placed
  <2>14. QED
    BY <2>2, <2>3, <2>4, <2>5, <2>6, <2>7, <2>8, <2>9, <2>10, <2>11, <2>12, <2>13
    DEF Local, Thread, Forwarder
<1>3. QED
  BY <1>1, <1>2

LEMMA PlacedPublish ==
  ASSUME TypeOK, NEW c \in Conn, NEW e \in Event, Published(c, e), \A d \in Conn : Placed(d)
  PROVE  \A d \in Conn : Placed(d)'
BY DEF Published, Placed, Reachable, threads, client

-----------------------------------------------------------------------------
(* Requests *)

LEMMA AskingLocal ==
  ASSUME TypeOK, TypeOK', NEW c \in Conn, Local(c), \A d \in Conn : Placed(d) /\ Asking(d)
  PROVE  \A d \in Conn : Asking(d)'
<1>1. ASSUME NEW d \in Conn, d # c PROVE Asking(d)'
  BY <1>1, OthersRest DEF Same, Asking
<1>2. Asking(c)'
  <2>1. Asking(c) /\ Placed(c)
    OBVIOUS
  <2>2. CASE TakeRequest(c)
    <3>1. serving'[c] = Head(inbox[c]) /\ inbox'[c] = Tail(inbox[c]) /\ pc'[c] = "serve"
          /\ sent'[c] = sent[c] /\ inbox[c] # <<>> /\ Head(inbox[c]) # 0
      BY <2>2 DEF TakeRequest, TypeOK, client
    <3>2. /\ DOMAIN inbox[c] = 1..Len(inbox[c]) /\ 1 \in DOMAIN inbox[c] /\ Len(inbox[c]) \in Nat
          /\ Head(inbox[c]) = inbox[c][1]
          /\ DOMAIN Tail(inbox[c]) = 1..(Len(inbox[c]) - 1)
          /\ \A i \in 1..(Len(inbox[c]) - 1) : Tail(inbox[c])[i] = inbox[c][i + 1]
      BY <3>1, HeadAndTail DEF TypeOK
    <3>3. \A i \in DOMAIN Tail(inbox[c]) :
            i + 1 \in DOMAIN inbox[c] /\ 1 < i + 1 /\ Tail(inbox[c])[i] = inbox[c][i + 1]
      BY <3>2
    <3>4. \A i \in DOMAIN inbox'[c] : inbox'[c][i] # 0 =>
            serving'[c] < inbox'[c][i] /\ inbox'[c][i] <= sent'[c]
      BY <2>1, <3>1, <3>2, <3>3 DEF Asking
    <3>5. ASSUME NEW i \in DOMAIN inbox'[c], NEW j \in DOMAIN inbox'[c],
                 i < j, inbox'[c][i] # 0, inbox'[c][j] # 0
          PROVE  inbox'[c][i] < inbox'[c][j]
      <4>1. i + 1 < j + 1
        BY <3>1, <3>2, <3>5
      <4>2. QED
        BY <2>1, <3>1, <3>3, <3>5, <4>1 DEF Asking
    <3>6. serving'[c] <= sent'[c]
      BY <2>1, <3>1, <3>2 DEF Asking
    <3>7. QED
      BY <3>1, <3>4, <3>5, <3>6 DEF Asking
  <2>3. CASE SendRequest(c)
    <3>1. PICK frame \in {0, sent[c] + 1} : inbox' = [inbox EXCEPT ![c] = Append(@, frame)]
      BY <2>3 DEF SendRequest
    <3>2. inbox'[c] = Append(inbox[c], frame) /\ sent'[c] = sent[c] + 1
          /\ serving'[c] = serving[c] /\ pc'[c] = pc[c]
      BY <2>3, <3>1 DEF SendRequest, TypeOK, threads
    <3>3. sent[c] \in Nat /\ serving[c] \in Nat /\ frame \in Nat
      BY <3>1, EventDeliveryAssumption DEF TypeOK
    <3>4. inbox[c] \in Seq(Nat)
      <4>1. inbox[c] \in Seq(0..MaxRequests) /\ 0..MaxRequests \subseteq Nat
        BY EventDeliveryAssumption DEF TypeOK
      <4>2. QED
        BY <4>1, SeqMonotonic
    <3>5. /\ Len(inbox[c]) \in Nat /\ DOMAIN inbox[c] = 1..Len(inbox[c])
          /\ DOMAIN inbox'[c] = 1..(Len(inbox[c]) + 1)
          /\ \A i \in 1..Len(inbox[c]) : inbox'[c][i] = inbox[c][i]
          /\ inbox'[c][Len(inbox[c]) + 1] = frame
      BY <3>2, <3>3, <3>4, AppendProperties, LenProperties
    <3>6. \A i \in DOMAIN inbox[c] : inbox[c][i] \in Nat
      BY <3>4, <3>5, ElementOfSeq
    <3>7. \A i \in DOMAIN inbox'[c] : inbox'[c][i] # 0 =>
            serving'[c] < inbox'[c][i] /\ inbox'[c][i] <= sent'[c]
      BY <2>1, <3>1, <3>2, <3>3, <3>5, <3>6 DEF Asking
    <3>8. \A i, j \in DOMAIN inbox'[c] :
            i < j /\ inbox'[c][i] # 0 /\ inbox'[c][j] # 0 => inbox'[c][i] < inbox'[c][j]
      BY <2>1, <3>1, <3>3, <3>5, <3>6 DEF Asking
    <3>9. serving'[c] <= sent'[c]
      BY <2>1, <3>2, <3>3 DEF Asking
    <3>10. QED
      BY <2>1, <3>2, <3>7, <3>8, <3>9 DEF Asking
  <2>4. CASE ~TakeRequest(c) /\ ~SendRequest(c)
    <3>1. UNCHANGED <<inbox, serving, sent>> /\ (pc'[c] \in Busy => pc[c] \in Busy)
      BY <2>4, Places
      DEF Local, Thread, Forwarder, Subscribe, FlushOutbound, FlushDone, ReadTimesOut,
          JoinForwarder, FinishRequest, Reply, RejectFrame, PeerGone, WriteFails, Leave, Forward,
          StopForwarder, ReadFrame, Disconnect, threads, queues, client, TypeOK
    <3>2. QED
      BY <2>1, <3>1 DEF Asking
  <2>5. QED
    BY <2>2, <2>3, <2>4
<1>3. QED
  BY <1>1, <1>2

LEMMA AskingPublish ==
  ASSUME NEW c \in Conn, NEW e \in Event, Published(c, e), \A d \in Conn : Asking(d)
  PROVE  \A d \in Conn : Asking(d)'
BY DEF Published, Asking, threads, client

-----------------------------------------------------------------------------
(* The log and the connections that join it *)

LEMMA ServingGrows ==
  ASSUME TypeOK, NEW c \in Conn, Local(c), \A d \in Conn : Asking(d)
  PROVE  \A d \in Conn : \/ serving'[d] = serving[d] /\ (pc'[d] = "serve" => pc[d] = "serve")
                         \/ d = c /\ serving[d] < serving'[d] /\ TakeRequest(c)
<1>1. ASSUME NEW d \in Conn, d # c
      PROVE  serving'[d] = serving[d] /\ pc'[d] = pc[d]
  BY <1>1, OthersRest DEF Same
<1>2. CASE TakeRequest(c)
  <2>1. inbox[c] # <<>> /\ Head(inbox[c]) # 0 /\ serving'[c] = Head(inbox[c])
    BY <1>2 DEF TakeRequest, TypeOK
  <2>2. 1 \in DOMAIN inbox[c] /\ Head(inbox[c]) = inbox[c][1]
    BY <2>1, HeadAndTail DEF TypeOK
  <2>3. serving[c] < serving'[c]
    BY <2>1, <2>2 DEF Asking
  <2>4. QED
    BY <1>1, <1>2, <2>3
<1>3. CASE ~TakeRequest(c)
  <2>1. serving'[c] = serving[c] /\ (pc'[c] = "serve" => pc[c] = "serve")
    BY <1>3
    DEF Local, Thread, Forwarder, Subscribe, FlushOutbound, FlushDone, ReadTimesOut, JoinForwarder,
        FinishRequest, Reply, RejectFrame, PeerGone, WriteFails, Leave, Forward,
        StopForwarder, SendRequest, ReadFrame, Disconnect, threads, TypeOK
  <2>2. QED
    BY <1>1, <2>1
<1>4. QED
  BY <1>2, <1>3

LEMMA LogEntries ==
  ASSUME TypeOK
  PROVE  /\ Len(published) \in Nat /\ DOMAIN published = 1..Len(published)
         /\ \A n \in DOMAIN published : published[n] \in Event
                                        /\ published[n].num \in Nat /\ published[n].conn \in Conn
         /\ \A c \in Conn : serving[c] \in Nat /\ since[c] \in Nat
BY EventDeliveryAssumption, LenProperties, ElementOfSeq, Kinds DEF TypeOK

LEMMA LoggedLocal ==
  ASSUME TypeOK, TypeOK', NEW c \in Conn, Local(c), \A d \in Conn : Asking(d), Logged
  PROVE  Logged'
<1>1. published' = published
  BY LogRests
<1>2. \A d \in Conn : serving'[d] \in Nat /\ serving[d] \in Nat
  BY EventDeliveryAssumption DEF TypeOK
<1>3. \A d \in Conn : serving[d] <= serving'[d]
  BY <1>2, ServingGrows
<1>4. ASSUME NEW n \in DOMAIN published
      PROVE  published[n].id = n /\ published[n].num <= serving'[published[n].conn]
  <2>1. published[n].id = n /\ published[n].num <= serving[published[n].conn]
        /\ published[n].num \in Nat /\ published[n].conn \in Conn
    BY LogEntries DEF Logged
  <2>2. QED
    BY <1>2, <1>3, <2>1
<1>5. QED
  BY <1>1, <1>4 DEF Logged

LEMMA GrownLog ==
  ASSUME TypeOK, NEW c \in Conn, NEW e \in Event, Published(c, e)
  PROVE  /\ Len(published) \in Nat /\ DOMAIN published = 1..Len(published)
         /\ Len(published') = Len(published) + 1
         /\ DOMAIN published' = 1..(Len(published) + 1)
         /\ \A n \in 1..Len(published) : published'[n] = published[n]
         /\ published'[Len(published) + 1] = e
<1>1. published \in Seq(Event) /\ published' = Append(published, e)
  BY DEF TypeOK, Published
<1>2. QED
  BY <1>1, AppendProperties, LenProperties

LEMMA LoggedPublish ==
  ASSUME TypeOK, NEW c \in Conn, NEW e \in Event, Published(c, e), Logged
  PROVE  Logged'
<1>1. serving' = serving /\ e.conn = c /\ e.num = serving[c] /\ e.id = Len(published) + 1
  BY DEF Published, threads
<1>2. serving[c] \in Nat
  BY EventDeliveryAssumption DEF TypeOK
<1>3. ASSUME NEW n \in DOMAIN published'
      PROVE  published'[n].id = n /\ published'[n].num <= serving'[published'[n].conn]
  <2>1. CASE n \in DOMAIN published
    BY <1>1, <2>1, GrownLog DEF Logged
  <2>2. CASE n = Len(published) + 1
    BY <1>1, <1>2, <2>2, GrownLog
  <2>3. QED
    BY <2>1, <2>2, GrownLog
<1>4. QED
  BY <1>3 DEF Logged

LEMMA SinceRests ==
  ASSUME TypeOK, NEW c \in Conn, Local(c)
  PROVE  \/ since' = since
         \/ Subscribe(c) /\ since'[c] = Len(published)
BY DEF Local, Thread, Forwarder, Subscribe, FlushOutbound, FlushDone, ReadTimesOut, JoinForwarder,
       TakeRequest, FinishRequest, Reply, RejectFrame, PeerGone, WriteFails, Forward,
       StopForwarder, SendRequest, ReadFrame, Disconnect, TypeOK

LEMMA JoinedLocal ==
  ASSUME TypeOK, TypeOK', NEW c \in Conn, Local(c), Logged,
         \A d \in Conn : Placed(d) /\ Asking(d) /\ Joined(d)
  PROVE  \A d \in Conn : Joined(d)'
<1>1. published' = published
  BY LogRests
<1>2. ASSUME NEW d \in Conn, since'[d] = since[d] PROVE Joined(d)'
  <2>1. ASSUME NEW x \in Conn PROVE Between(d, x)'
    <3>1. Between(d, x)
      BY DEF Joined
    <3>2. CASE serving'[x] = serving[x] /\ (pc'[x] = "serve" => pc[x] = "serve")
      BY <1>1, <1>2, <3>1, <3>2 DEF Between
    <3>3. CASE serving[x] < serving'[x]
      <4>1. SUFFICES ASSUME since[d] # 0, since[d] = Len(published), published[since[d]].conn = x
                     PROVE  published[since[d]].num # serving'[x]
        BY <1>1, <1>2 DEF Between
      <4>2. since[d] \in DOMAIN published
        BY <4>1, LogEntries
      <4>3. published[since[d]].num <= serving[x] /\ published[since[d]].num \in Nat
        BY <4>1, <4>2, LogEntries DEF Logged
      <4>4. serving'[x] \in Nat /\ serving[x] \in Nat
        BY EventDeliveryAssumption DEF TypeOK
      <4>5. QED
        BY <3>3, <4>3, <4>4
    <3>4. QED
      BY <3>2, <3>3, ServingGrows
  <2>2. Joined(d)
    OBVIOUS
  <2>3. QED
    BY <1>1, <1>2, <2>1, <2>2 DEF Joined
<1>3. ASSUME Subscribe(c), since'[c] = Len(published) PROVE Joined(c)'
  <2>1. ASSUME NEW x \in Conn PROVE pc'[x] # "serve"
    <3>1. pc[x] # "serve"
      BY <1>3, EventDeliveryAssumption DEF Subscribe, Placed
    <3>2. QED
      BY <1>3, <3>1 DEF Subscribe, TypeOK
  <2>2. \A x \in Conn : Between(c, x)'
    BY <2>1 DEF Between
  <2>3. since'[c] <= Len(published') /\ since'[c] \notin 1..(Len(published') - 1)
    BY <1>1, <1>3, LogEntries
  <2>4. QED
    BY <2>2, <2>3 DEF Joined
<1>4. \A d \in Conn : d # c => since'[d] = since[d]
  BY OthersRest DEF Same
<1>5. QED
  BY <1>2, <1>3, <1>4, SinceRests

LEMMA JoinedPublish ==
  ASSUME TypeOK, NEW c \in Conn, NEW e \in Event, Published(c, e), \A d \in Conn : Joined(d)
  PROVE  \A d \in Conn : Joined(d)'
<1>1. since' = since /\ pc[c] = "serve" /\ e.conn = c /\ e.num = serving[c]
  BY DEF Published
<1>2. SUFFICES ASSUME NEW d \in Conn PROVE Joined(d)'
  OBVIOUS
<1>3. Joined(d) /\ Between(d, c) /\ since[d] \in Nat
  BY LogEntries DEF Joined
<1>4. since[d] <= Len(published') /\ since[d] # Len(published')
  BY <1>3, GrownLog DEF Joined
<1>5. \A x \in Conn : Between(d, x)'
  BY <1>1, <1>4 DEF Between
<1>6. ASSUME since[d] \in 1..(Len(published') - 1)
      PROVE  \/ published'[since[d]].conn # published'[since[d] + 1].conn
             \/ published'[since[d]].num # published'[since[d] + 1].num
  <2>1. since[d] \in 1..Len(published) /\ published'[since[d]] = published[since[d]]
    BY <1>6, GrownLog
  <2>2. CASE since[d] = Len(published)
    BY <1>1, <1>3, <2>1, <2>2, GrownLog DEF Between
  <2>3. CASE since[d] # Len(published)
    <3>1. since[d] \in 1..(Len(published) - 1)
      BY <2>1, <2>3, GrownLog
    <3>2. published'[since[d] + 1] = published[since[d] + 1]
      <4>1. since[d] + 1 \in 1..Len(published)
        BY <1>3, <3>1, GrownLog
      <4>2. QED
        BY <4>1, GrownLog
    <3>3. QED
      BY <1>3, <2>1, <3>1, <3>2 DEF Joined
  <2>4. QED
    BY <2>2, <2>3
<1>7. QED
  BY <1>1, <1>4, <1>5, <1>6 DEF Joined

-----------------------------------------------------------------------------
(* Frames and events on their way *)

LEMMA Flows ==
  ASSUME TypeOK, NEW c \in Conn
  PROVE  /\ got[c] \in Seq(Frame) /\ wire[c] \in Seq(Frame) /\ Frames(c) \in Seq(Frame)
         /\ outbound[c] \in Seq(Event) /\ receiver[c] \in Seq(Event) /\ Backlog(c) \in Seq(Event)
         /\ published \in Seq(Event) /\ Seen(c) \in Nat /\ serving[c] \in Nat
<1>1. got[c] \in Seq(Frame) /\ wire[c] \in Seq(Frame)
      /\ outbound[c] \in Seq(Event) /\ receiver[c] \in Seq(Event)
      /\ published \in Seq(Event) /\ events[c] \in Seq(Event)
      /\ since[c] \in Nat /\ serving[c] \in Nat
  <2>1. got[c] \in Seq(Frame) /\ wire[c] \in Seq(Frame)
    BY DEF TypeOK, Frame
  <2>2. outbound[c] \in Seq(Event) /\ receiver[c] \in Seq(Event)
        /\ published \in Seq(Event) /\ events[c] \in Seq(Event)
    BY DEF TypeOK
  <2>3. since[c] \in Nat /\ serving[c] \in Nat
    BY EventDeliveryAssumption DEF TypeOK
  <2>4. QED
    BY <2>1, <2>2, <2>3
<1>2. Frames(c) \in Seq(Frame) /\ Backlog(c) \in Seq(Event)
  BY <1>1, ConcatProperties DEF Frames, Backlog
<1>3. Seen(c) \in Nat
  BY <1>1, LenProperties DEF Seen
<1>4. QED
  BY <1>1, <1>2, <1>3

LEMMA OthersFlow ==
  ASSUME NEW d \in Conn, Same(d), published' = published, Answers(d), Streams(d)
  PROVE  Answers(d)' /\ Streams(d)'
BY DEF Same, Answers, Streams, Frames, Backlog, Seen

(* The forwarder moves an event on: nothing is lost or overtaken.          *)
LEMMA FlowForward ==
  ASSUME TypeOK, NEW c \in Conn, Forward(c)
  PROVE  /\ Backlog(c)' = Backlog(c) /\ Frames(c)' = Frames(c) /\ Seen(c)' = Seen(c)
         /\ wire' = wire /\ serving' = serving /\ pc' = pc /\ link' = link
<1>1. outbound'[c] = Append(outbound[c], Head(receiver[c])) /\ receiver'[c] = Tail(receiver[c])
      /\ receiver[c] # <<>>
  BY DEF Forward, TypeOK
<1>2. outbound'[c] \o receiver'[c] = outbound[c] \o receiver[c]
  BY <1>1, Flows, MoveAcross
<1>3. QED
  BY <1>2 DEF Forward, Backlog, Frames, Seen, threads, client

(* A client reads a frame: it is among the same frames.                    *)
LEMMA FlowRead ==
  ASSUME TypeOK, NEW c \in Conn, ReadFrame(c)
  PROVE  /\ Backlog(c)' = Backlog(c) /\ Frames(c)' = Frames(c)
         /\ wire[c] # <<>> /\ wire'[c] = Tail(wire[c])
         /\ events'[c] = IF Head(wire[c]).kind = "event" THEN Append(events[c], Head(wire[c]))
                                                         ELSE events[c]
         /\ serving' = serving /\ pc' = pc /\ link' = link /\ since' = since
<1>1. got'[c] = Append(got[c], Head(wire[c])) /\ wire'[c] = Tail(wire[c]) /\ wire[c] # <<>>
  BY DEF ReadFrame, TypeOK
<1>2. got'[c] \o wire'[c] = got[c] \o wire[c]
  BY <1>1, Flows, MoveAcross
<1>3. events'[c] = IF Head(wire[c]).kind = "event" THEN Append(events[c], Head(wire[c]))
                                                   ELSE events[c]
  BY DEF ReadFrame, TypeOK
<1>4. QED
  BY <1>1, <1>2, <1>3 DEF ReadFrame, Backlog, Frames, threads

(* The thread writes the first event that waits.                           *)
LEMMA FlowFlush ==
  ASSUME TypeOK, NEW c \in Conn, FlushOutbound(c)
  PROVE  /\ Backlog(c) # <<>> /\ Backlog(c)' = Tail(Backlog(c))
         /\ link[c] = "up" => /\ Frames(c)' = Append(Frames(c), Head(Backlog(c)))
                              /\ wire'[c] = Append(wire[c], Head(Backlog(c)))
         /\ link[c] # "up" => Frames(c)' = Frames(c) /\ wire'[c] = wire[c]
         /\ Seen(c)' = Seen(c)
         /\ serving' = serving /\ pc' = pc /\ link' = link /\ pc[c] = "flush"
<1>1. outbound[c] # <<>> /\ outbound'[c] = Tail(outbound[c]) /\ receiver' = receiver /\ got' = got
      /\ wire'[c] = IF link[c] = "up" THEN Append(wire[c], Head(outbound[c])) ELSE wire[c]
  BY DEF FlushOutbound, Write, TypeOK, client
<1>2. Backlog(c) # <<>> /\ Backlog(c)' = Tail(Backlog(c)) /\ Head(Backlog(c)) = Head(outbound[c])
  <2>1. outbound[c] \in Seq(Event) /\ receiver[c] \in Seq(Event)
    BY Flows
  <2>2. outbound[c] \o receiver[c] # <<>> /\ Head(outbound[c] \o receiver[c]) = Head(outbound[c])
        /\ Tail(outbound[c] \o receiver[c]) = Tail(outbound[c]) \o receiver[c]
    BY <1>1, <2>1, TailAcross
  <2>3. Backlog(c)' = Tail(outbound[c]) \o receiver[c]
    BY <1>1 DEF Backlog
  <2>4. QED
    BY <2>2, <2>3 DEF Backlog
<1>3. Head(outbound[c]) \in Frame
  BY <1>1, Flows, HeadAndTail DEF Frame
<1>4. got[c] \o Append(wire[c], Head(outbound[c])) = Append(got[c] \o wire[c], Head(outbound[c]))
  <2>1. got[c] \in Seq(Frame) /\ wire[c] \in Seq(Frame)
    BY Flows
  <2>2. PICK p \in Seq(Frame), q \in Seq(Frame), f \in Frame :
          p = got[c] /\ q = wire[c] /\ f = Head(outbound[c])
    BY <1>3, <2>1
  <2>3. p \o Append(q, f) = Append(p \o q, f)
    BY AppendAcross
  <2>4. QED
    BY <2>2, <2>3
<1>5. QED
  BY <1>1, <1>2, <1>4 DEF FlushOutbound, Frames, Seen, threads, client

LEMMA FlowReply ==
  ASSUME TypeOK, NEW c \in Conn, Reply(c), serving[c] # 0
  PROVE  /\ serving[c] \in Number /\ Backlog(c)' = Backlog(c)
         /\ link[c] = "up" => /\ Frames(c)' = Append(Frames(c), ResponseTo(c, serving[c]))
                              /\ wire'[c] = Append(wire[c], ResponseTo(c, serving[c]))
         /\ link[c] # "up" => Frames(c)' = Frames(c) /\ wire'[c] = wire[c]
         /\ Seen(c)' = Seen(c)
         /\ serving' = serving /\ pc'[c] = "flush" /\ link' = link /\ pc[c] = "reply"
<1>1. serving[c] \in Number
  BY EventDeliveryAssumption DEF TypeOK, Number
<1>2. ResponseTo(c, serving[c]) \in Frame
  BY <1>1, Kinds DEF Frame
<1>3. got[c] \o Append(wire[c], ResponseTo(c, serving[c]))
        = Append(got[c] \o wire[c], ResponseTo(c, serving[c]))
  <2>1. got[c] \in Seq(Frame) /\ wire[c] \in Seq(Frame)
    BY Flows
  <2>2. PICK p \in Seq(Frame), q \in Seq(Frame), f \in Frame :
          p = got[c] /\ q = wire[c] /\ f = ResponseTo(c, serving[c])
    BY <1>2, <2>1
  <2>3. p \o Append(q, f) = Append(p \o q, f)
    BY AppendAcross
  <2>4. QED
    BY <2>2, <2>3
<1>4. wire'[c] = IF link[c] = "up" THEN Append(wire[c], ResponseTo(c, serving[c])) ELSE wire[c]
  BY DEF Reply, Write, TypeOK
<1>5. QED
  BY <1>1, <1>3, <1>4 DEF Reply, Frames, Backlog, Seen, client, TypeOK

(* The other steps of a thread put nothing on the wire.                    *)
Moves(c) ==
  \/ Subscribe(c) \/ FlushDone(c) \/ ReadTimesOut(c) \/ TakeRequest(c) \/ FinishRequest(c)
  \/ RejectFrame(c) \/ PeerGone(c) \/ WriteFails(c) \/ JoinForwarder(c)
  \/ StopForwarder(c) \/ SendRequest(c)

LEMMA FlowMoves ==
  ASSUME TypeOK, NEW c \in Conn, Moves(c), Placed(c), Placed(c)'
  PROVE  /\ Frames(c)' = Frames(c) /\ wire' = wire /\ link' = link /\ events' = events
         /\ Backlog(c)' = Backlog(c) \/ (pc'[c] \notin Live)
<1>1. UNCHANGED <<got, wire, link, events>>
  BY DEF Moves, Subscribe, FlushDone, ReadTimesOut, JoinForwarder, TakeRequest, FinishRequest,
         RejectFrame, PeerGone, WriteFails, Leave, StopForwarder, SendRequest, queues, client
<1>2. CASE Subscribe(c) \/ FlushDone(c) \/ ReadTimesOut(c) \/ TakeRequest(c) \/ FinishRequest(c)
           \/ JoinForwarder(c) \/ SendRequest(c)
  <2>1. UNCHANGED <<outbound, receiver>>
    BY <1>2 DEF Subscribe, FlushDone, ReadTimesOut, JoinForwarder, TakeRequest, FinishRequest,
                SendRequest, queues
  <2>2. QED
    BY <1>1, <2>1 DEF Frames, Backlog
<1>3. CASE RejectFrame(c) \/ PeerGone(c) \/ WriteFails(c)
  <2>1. pc'[c] = "join"
    BY <1>3 DEF RejectFrame, PeerGone, WriteFails, Leave, TypeOK
  <2>2. QED
    BY <1>1, <2>1, Places DEF Frames
<1>4. CASE StopForwarder(c)
  <2>1. pc'[c] \in {"join", "ended"}
    BY <1>4 DEF StopForwarder, Over
  <2>2. QED
    BY <1>1, <2>1, Places DEF Frames
<1>5. QED
  BY <1>2, <1>3, <1>4 DEF Moves

LEMMA FlowKept ==
  ASSUME TypeOK, NEW c \in Conn, Moves(c)
  PROVE  \A i \in DOMAIN (Backlog(c)') : \E j \in DOMAIN Backlog(c) : Backlog(c)'[i] = Backlog(c)[j]
<1>1. PICK p \in Seq(Event), q \in Seq(Event) : p = outbound[c] /\ q = receiver[c]
  BY Flows
<1>2. Len(p) \in Nat /\ Len(q) \in Nat /\ DOMAIN p = 1..Len(p) /\ DOMAIN q = 1..Len(q)
      /\ p \o q \in Seq(Event) /\ DOMAIN (p \o q) = 1..(Len(p) + Len(q))
      /\ \A i \in 1..(Len(p) + Len(q)) : (p \o q)[i] = IF i <= Len(p) THEN p[i] ELSE q[i - Len(p)]
  BY LenProperties, ConcatProperties
<1>3. p \o <<>> = p /\ <<>> \o q = q
  BY ConcatEmptySeq
<1>4. Backlog(c) = p \o q
  BY <1>1 DEF Backlog
<1>5. CASE UNCHANGED <<outbound, receiver>>
  BY <1>5 DEF Backlog
<1>6. CASE outbound'[c] = <<>> /\ receiver' = receiver
  <2>1. Backlog(c)' = q
    BY <1>1, <1>3, <1>6 DEF Backlog
  <2>2. ASSUME NEW i \in DOMAIN q PROVE \E j \in DOMAIN (p \o q) : q[i] = (p \o q)[j]
    <3>1. Len(p) + i \in 1..(Len(p) + Len(q)) /\ (p \o q)[Len(p) + i] = q[i]
      BY <1>2
    <3>2. QED
      BY <1>2, <3>1
  <2>3. QED
    BY <1>4, <2>1, <2>2
<1>7. CASE outbound' = outbound /\ receiver'[c] = <<>>
  <2>1. Backlog(c)' = p
    BY <1>1, <1>3, <1>7 DEF Backlog
  <2>2. \A i \in DOMAIN p : i \in DOMAIN (p \o q) /\ p[i] = (p \o q)[i]
    BY <1>2
  <2>3. QED
    BY <1>4, <2>1, <2>2
<1>8. QED
  <2>1. CASE StopForwarder(c)
    BY <1>7, <2>1 DEF StopForwarder, TypeOK
  <2>2. CASE RejectFrame(c) \/ PeerGone(c) \/ WriteFails(c)
    BY <1>6, <2>2 DEF RejectFrame, PeerGone, WriteFails, Leave, TypeOK
  <2>3. CASE Subscribe(c) \/ FlushDone(c) \/ ReadTimesOut(c) \/ TakeRequest(c) \/ FinishRequest(c)
             \/ JoinForwarder(c) \/ SendRequest(c)
    BY <1>5, <2>3 DEF Subscribe, FlushDone, ReadTimesOut, JoinForwarder, TakeRequest,
                      FinishRequest, SendRequest, queues
  <2>4. QED
    BY <2>1, <2>2, <2>3 DEF Moves

LEMMA MovesServe ==
  ASSUME TypeOK, NEW c \in Conn, Moves(c), ~TakeRequest(c)
  PROVE  /\ serving' = serving
         /\ pc'[c] \in Busy => pc[c] \in Busy
         /\ ~WriteFails(c) => (pc'[c] \in Busy <=> pc[c] \in Busy)
<1>1. CASE Subscribe(c) \/ FlushDone(c) \/ ReadTimesOut(c) \/ FinishRequest(c) \/ JoinForwarder(c)
  BY <1>1, Places DEF Subscribe, FlushDone, ReadTimesOut, FinishRequest, JoinForwarder, TypeOK
<1>2. CASE RejectFrame(c) \/ PeerGone(c) \/ WriteFails(c)
  BY <1>2, Places DEF RejectFrame, PeerGone, WriteFails, Leave, TypeOK
<1>3. CASE StopForwarder(c) \/ SendRequest(c)
  BY <1>3 DEF StopForwarder, SendRequest, threads
<1>4. QED
  BY <1>1, <1>2, <1>3 DEF Moves

LEMMA LocalCases ==
  ASSUME NEW c, Local(c)
  PROVE  \/ FlushOutbound(c) \/ Reply(c) \/ Forward(c) \/ ReadFrame(c) \/ Disconnect(c)
         \/ Moves(c)
BY DEF Local, Thread, Forwarder, Moves

(* The client leaves: what was on its wire is gone.                        *)
LEMMA FlowDisconnect ==
  ASSUME TypeOK, NEW c \in Conn, Disconnect(c)
  PROVE  /\ Frames(c)' = got[c] /\ wire'[c] = <<>> /\ link'[c] = "down" /\ Backlog(c)' = Backlog(c)
         /\ Seen(c)' = Seen(c) /\ pc' = pc /\ serving' = serving
         /\ Len(got[c]) <= Len(Frames(c)) /\ \A i \in 1..Len(got[c]) : got[c][i] = Frames(c)[i]
<1>1. PICK p \in Seq(Frame), q \in Seq(Frame) : p = got[c] /\ q = wire[c]
  BY Flows
<1>2. Len(p) <= Len(p \o q) /\ \A i \in 1..Len(p) : p[i] = (p \o q)[i]
  BY LenProperties, ConcatProperties
<1>3. wire'[c] = <<>> /\ link'[c] = "down"
  BY DEF Disconnect, TypeOK
<1>4. got'[c] \o wire'[c] = p
  BY <1>1, <1>3, ConcatEmptySeq DEF Disconnect
<1>5. QED
  BY <1>1, <1>2, <1>3, <1>4 DEF Frames, Backlog, Seen, Disconnect, threads

-----------------------------------------------------------------------------
(* Answers *)

LEMMA AnswersLocal ==
  ASSUME TypeOK, TypeOK', NEW c \in Conn, Local(c), Placed(c), Placed(c)', Asking(c), Asking(c)',
         Answers(c)
  PROVE  Answers(c)'
<1>1. Answering(c, Frames(c), Backlog(c), serving[c], pc[c], link[c])
      /\ Frames(c) \in Seq(Frame) /\ Backlog(c) \in Seq(Event) /\ serving[c] \in Nat
      /\ link[c] \in {"up", "down"}
  BY Flows DEF Answers, TypeOK
<1>2. SUFFICES Answering(c, Frames(c)', Backlog(c)', serving'[c], pc'[c], link'[c])
  BY DEF Answers
<1>3. CASE FlushOutbound(c)
  <2>1. CASE link[c] = "up"
    BY <1>1, <1>3, <2>1, FlowFlush, AnsweringFlushed
  <2>2. CASE link[c] = "down"
    BY <1>1, <1>3, <2>2, FlowFlush, AnsweringLost
  <2>3. QED
    BY <1>1, <2>1, <2>2
<1>4. CASE Reply(c)
  <2>1. serving[c] # 0
    BY <1>4, Places DEF Reply, Asking
  <2>2. CASE link[c] = "up"
    BY <1>1, <1>4, <2>1, <2>2, FlowReply, AnsweringReplied
  <2>3. CASE link[c] = "down"
    BY <1>1, <1>4, <2>1, <2>3, FlowReply, AnsweringLost, Places
  <2>4. QED
    BY <1>1, <2>2, <2>3
<1>5. CASE Forward(c)
  BY <1>1, <1>5, FlowForward
<1>6. CASE ReadFrame(c)
  BY <1>1, <1>6, FlowRead
<1>7. CASE Disconnect(c)
  <2>1. got[c] \in Seq(Frame)
    BY Flows
  <2>2. QED
    BY <1>1, <1>7, <2>1, FlowDisconnect, AnsweringLost
<1>8. CASE Moves(c)
  <2>1. Frames(c)' = Frames(c) /\ link' = link
    BY <1>8, FlowMoves
  <2>2. CASE TakeRequest(c)
    <3>1. pc[c] = "read" /\ pc'[c] = "serve" /\ Backlog(c)' = Backlog(c)
      BY <2>2 DEF TakeRequest, TypeOK, Backlog
    <3>2. serving[c] < serving'[c]
      <4>1. inbox[c] # <<>> /\ Head(inbox[c]) # 0 /\ serving'[c] = Head(inbox[c])
        BY <2>2 DEF TakeRequest, TypeOK
      <4>2. 1 \in DOMAIN inbox[c] /\ Head(inbox[c]) = inbox[c][1]
        BY <4>1, HeadAndTail DEF TypeOK
      <4>3. QED
        BY <4>1, <4>2 DEF Asking
    <3>3. serving'[c] \in Nat
      BY EventDeliveryAssumption DEF TypeOK
    <3>4. PICK n \in Nat : n = serving'[c]
      BY <3>3
    <3>5. Answering(c, Frames(c), Backlog(c), n, "serve", link[c])
      BY <1>1, <3>1, <3>2, <3>4, AnsweringTaken
    <3>6. QED
      BY <2>1, <3>1, <3>4, <3>5
  <2>3. CASE WriteFails(c)
    <3>1. link[c] = "down" /\ pc'[c] = "join" /\ serving' = serving
      BY <2>3 DEF WriteFails, Leave, TypeOK
    <3>2. QED
      BY <1>1, <2>1, <3>1, AnsweringLost, Places
  <2>4. CASE ~TakeRequest(c) /\ ~WriteFails(c)
    <3>1. serving' = serving /\ (pc'[c] \in Busy <=> pc[c] \in Busy)
      BY <1>8, <2>4, MovesServe
    <3>2. PICK rest, next : rest = Backlog(c)' /\ next = pc'[c]
      OBVIOUS
    <3>3. \A i \in DOMAIN rest : \E j \in DOMAIN Backlog(c) : rest[i] = Backlog(c)[j]
      BY <1>8, <3>2, FlowKept
    <3>4. Answering(c, Frames(c), rest, serving[c], next, link[c])
      BY <1>1, <3>1, <3>2, <3>3, AnsweringMoved
    <3>5. QED
      BY <2>1, <3>1, <3>2, <3>4
  <2>5. QED
    BY <2>2, <2>3, <2>4
<1>9. QED
  BY <1>3, <1>4, <1>5, <1>6, <1>7, <1>8, LocalCases

(* An event for d queues behind those that wait for it.                    *)
LEMMA FlowPublish ==
  ASSUME TypeOK, NEW c \in Conn, NEW e \in Event, Published(c, e), NEW d \in Conn
  PROVE  /\ Frames(d)' = Frames(d) /\ Seen(d)' = Seen(d)
         /\ Backlog(d)' = IF Reachable(d) THEN Append(Backlog(d), e) ELSE Backlog(d)
         /\ UNCHANGED <<wire, link, pc, serving>>
<1>1. UNCHANGED <<wire, link, pc, serving, got, since, events, outbound>>
  BY DEF Published, threads, client
<1>2. receiver'[d] = IF Reachable(d) THEN Append(receiver[d], e) ELSE receiver[d]
  BY DEF Published
<1>3. PICK p \in Seq(Event), q \in Seq(Event) : p = outbound[d] /\ q = receiver[d]
  BY Flows
<1>4. p \o Append(q, e) = Append(p \o q, e)
  BY AppendAcross
<1>5. Backlog(d)' = IF Reachable(d) THEN Append(Backlog(d), e) ELSE Backlog(d)
  BY <1>1, <1>2, <1>3, <1>4 DEF Backlog
<1>6. QED
  BY <1>1, <1>5 DEF Frames, Seen

LEMMA AnswersPublish ==
  ASSUME TypeOK, NEW c \in Conn, NEW e \in Event, Published(c, e), NEW d \in Conn, Answers(d)
  PROVE  Answers(d)'
<1>1. Answering(d, Frames(d), Backlog(d), serving[d], pc[d], link[d]) /\ Backlog(d) \in Seq(Event)
  BY Flows DEF Answers
<1>2. e.conn # d \/ (pc[d] \in Busy /\ e.num = serving[d])
  BY Places DEF Published
<1>3. Answering(d, Frames(d), Append(Backlog(d), e), serving[d], pc[d], link[d])
  BY <1>1, <1>2, AnsweringQueued
<1>4. PICK more : more = Backlog(d)'
  OBVIOUS
<1>5. Answering(d, Frames(d), more, serving[d], pc[d], link[d])
  BY <1>1, <1>3, <1>4, FlowPublish
<1>6. QED
  BY <1>4, <1>5, FlowPublish DEF Answers

-----------------------------------------------------------------------------
(* Streams *)

LEMMA StreamsLocal ==
  ASSUME TypeOK, TypeOK', NEW c \in Conn, Local(c), Placed(c), Placed(c)', Asking(c), Logged,
         Streams(c)
  PROVE  Streams(c)'
<1>1. Streaming(wire[c], Seen(c), Backlog(c), published, pc[c], link[c])
      /\ wire[c] \in Seq(Frame) /\ Backlog(c) \in Seq(Event) /\ published \in Seq(Event)
      /\ Seen(c) \in Nat /\ link[c] \in {"up", "down"}
  BY Flows DEF Streams, TypeOK
<1>2. published' = published
  BY LogRests
<1>3. SUFFICES Streaming(wire'[c], Seen(c)', Backlog(c)', published, pc'[c], link'[c])
  BY <1>2 DEF Streams
<1>4. CASE FlushOutbound(c)
  <2>1. pc[c] \in Live
    BY <1>4, FlowFlush, Places
  <2>2. CASE link[c] = "up"
    <3>1. \A n \in DOMAIN published : published[n].id = n
      BY DEF Logged
    <3>2. Streaming(Append(wire[c], Head(Backlog(c))), Seen(c), Tail(Backlog(c)),
                    published, pc[c], "up")
      BY <1>1, <1>4, <2>1, <2>2, <3>1, FlowFlush, StreamingFlushed
    <3>3. QED
      BY <1>4, <2>2, <3>2, FlowFlush
  <2>3. CASE link[c] = "down"
    <3>1. Streaming(wire[c], Seen(c), Tail(Backlog(c)), published, pc[c], "down")
      BY <1>1, <1>4, <2>3, FlowFlush, StreamingLost
    <3>2. QED
      BY <1>4, <2>3, <3>1, FlowFlush
  <2>4. QED
    BY <1>1, <2>2, <2>3
<1>5. CASE Reply(c)
  <2>1. serving[c] # 0
    BY <1>5, Places DEF Reply, Asking
  <2>2. ResponseTo(c, serving[c]) \in Response /\ pc[c] \in Live
    BY <1>5, <2>1, FlowReply, Kinds, Places
  <2>3. CASE link[c] = "up"
    <3>1. Streaming(Append(wire[c], ResponseTo(c, serving[c])), Seen(c), Backlog(c),
                    published, "flush", "up")
      BY <1>1, <2>2, <2>3, StreamingReplied
    <3>2. QED
      BY <1>5, <2>1, <2>3, <3>1, FlowReply
  <2>4. CASE link[c] = "down"
    <3>1. Streaming(wire[c], Seen(c), Backlog(c), published, "flush", "down")
      BY <1>1, <2>2, <2>4, StreamingLost
    <3>2. QED
      BY <1>5, <2>1, <2>4, <3>1, FlowReply
  <2>5. QED
    BY <1>1, <2>3, <2>4
<1>6. CASE Forward(c)
  BY <1>1, <1>6, FlowForward
<1>7. CASE ReadFrame(c)
  <2>1. since'[c] \in Nat /\ Len(events[c]) \in Nat /\ events[c] \in Seq(Event)
    BY LenProperties DEF TypeOK
  <2>2. CASE Head(wire[c]).kind = "event"
    <3>1. Streaming(Tail(wire[c]), Seen(c) + 1, Backlog(c), published, pc[c], link[c])
      BY <1>1, <1>7, <2>2, FlowRead, StreamingRead
    <3>2. Head(wire[c]) \in Event
      BY <1>1, <1>7, <2>2, FlowRead, HeadAndTail, Kinds
    <3>3. Len(events'[c]) = Len(events[c]) + 1
      <4>1. PICK q \in Seq(Event), f \in Event : q = events[c] /\ f = Head(wire[c])
        BY <2>1, <3>2
      <4>2. Len(Append(q, f)) = Len(q) + 1
        BY AppendProperties
      <4>3. events'[c] = Append(q, f)
        BY <1>7, <2>2, <4>1, FlowRead
      <4>4. QED
        BY <4>1, <4>2, <4>3
    <3>4. Seen(c)' = Seen(c) + 1
      <4>1. since'[c] = since[c]
        BY <1>7, FlowRead
      <4>2. QED
        BY <2>1, <3>3, <4>1 DEF Seen
    <3>5. QED
      BY <1>7, <3>1, <3>4, FlowRead
  <2>3. CASE Head(wire[c]).kind # "event"
    <3>1. Streaming(Tail(wire[c]), Seen(c), Backlog(c), published, pc[c], link[c])
      BY <1>1, <1>7, <2>3, FlowRead, StreamingPassed
    <3>2. Seen(c)' = Seen(c)
      BY <1>7, <2>3, FlowRead DEF Seen
    <3>3. QED
      BY <1>7, <3>1, <3>2, FlowRead
  <2>4. QED
    BY <2>2, <2>3
<1>8. CASE Disconnect(c)
  <2>1. Streaming(<<>>, Seen(c), Backlog(c), published, pc[c], "down")
    BY <1>1, StreamingLost
  <2>2. QED
    BY <1>8, <2>1, FlowDisconnect
<1>9. CASE Moves(c) /\ ~Subscribe(c)
  <2>1. wire' = wire /\ link' = link /\ events' = events
        /\ (Backlog(c)' = Backlog(c) \/ pc'[c] \notin Live)
    BY <1>9, FlowMoves
  <2>2. since' = since
    BY <1>9, SinceRests
  <2>3. Seen(c)' = Seen(c)
    BY <2>1, <2>2 DEF Seen
  <2>4. pc'[c] \in Live => pc[c] \in Live
    BY <1>9, Places
    DEF Moves, FlushDone, ReadTimesOut, TakeRequest, FinishRequest, RejectFrame, PeerGone,
        WriteFails, Leave, JoinForwarder, StopForwarder, SendRequest, threads, TypeOK
  <2>5. PICK rest, later : rest = Backlog(c)' /\ later = pc'[c]
    OBVIOUS
  <2>6. Streaming(wire[c], Seen(c), rest, published, later, link[c])
    BY <1>1, <2>1, <2>4, <2>5, StreamingMoved
  <2>7. QED
    BY <2>1, <2>3, <2>5, <2>6
<1>10. CASE Subscribe(c)
  <2>1. outbound[c] = <<>> /\ receiver[c] = <<>> /\ wire[c] = <<>> /\ events[c] = <<>>
    BY <1>10 DEF Subscribe, Placed
  <2>2. wire'[c] = <<>> /\ Backlog(c)' = <<>> \o <<>> /\ link' = link
        /\ events'[c] = <<>> /\ since'[c] = Len(published)
    BY <1>10, <2>1 DEF Subscribe, Backlog, queues, client, TypeOK
  <2>3. Backlog(c)' = <<>> /\ Seen(c)' = Len(published)
    BY <1>1, <2>2, LenProperties, EmptySeq, ConcatEmptySeq DEF Seen
  <2>4. PICK place, up : place = pc'[c] /\ up = link[c]
    OBVIOUS
  <2>5. Streaming(<<>>, Len(published), <<>>, published, place, up)
    BY <1>1, StreamingJoined
  <2>6. QED
    BY <2>2, <2>3, <2>4, <2>5
<1>11. QED
  BY <1>4, <1>5, <1>6, <1>7, <1>8, <1>9, <1>10, LocalCases

LEMMA StreamsPublish ==
  ASSUME TypeOK, NEW c \in Conn, NEW e \in Event, Published(c, e), NEW d \in Conn,
         Placed(d), Streams(d)
  PROVE  Streams(d)'
<1>1. Streaming(wire[d], Seen(d), Backlog(d), published, pc[d], link[d])
      /\ wire[d] \in Seq(Frame) /\ Backlog(d) \in Seq(Event) /\ published \in Seq(Event)
      /\ Seen(d) \in Nat
  BY Flows DEF Streams
<1>2. PICK more : more = Backlog(d)'
  OBVIOUS
<1>3. pc[d] \in Live => more = Append(Backlog(d), e)
  BY <1>2, FlowPublish DEF Placed, Reachable
<1>4. Streaming(wire[d], Seen(d), more, Append(published, e), pc[d], link[d])
  BY <1>1, <1>3, StreamingPublished
<1>5. published' = Append(published, e)
  BY DEF Published
<1>6. QED
  BY <1>2, <1>4, <1>5, FlowPublish DEF Streams

-----------------------------------------------------------------------------
(* The inductive invariant *)

LEMMA DeliveryInit == Init => DeliveryIInv
<1> SUFFICES ASSUME Init PROVE DeliveryIInv
  OBVIOUS
<1>1. TypeOK /\ Logged
  BY TypeInit DEF Init, Logged
<1>2. ASSUME NEW c \in Conn
      PROVE  Placed(c) /\ Asking(c) /\ Joined(c) /\ Answers(c) /\ Streams(c)
  <2>1. Placed(c) /\ Asking(c)
    BY Places DEF Init, Placed, Asking
  <2>2. Joined(c)
    BY DEF Init, Joined, Between
  <2>3. Frames(c) = <<>> /\ Backlog(c) = <<>>
    BY EmptySeq, ConcatEmptySeq DEF Init, Frames, Backlog
  <2>4. Answering(c, <<>>, <<>>, 0, "accepted", "up")
    BY DEF Answering, Ordered, OwnFollow, UpTo, OwnWait
  <2>5. Streaming(<<>>, 0, <<>>, <<>>, "accepted", "up")
    BY Places DEF Streaming, FromLog, Rising, Gapless
  <2>6. Seen(c) = 0 /\ serving[c] = 0 /\ pc[c] = "accepted" /\ link[c] = "up"
        /\ wire[c] = <<>> /\ published = <<>>
    BY DEF Init, Seen
  <2>7. QED
    BY <2>1, <2>2, <2>3, <2>4, <2>5, <2>6 DEF Answers, Streams
<1>3. QED
  BY <1>1, <1>2 DEF DeliveryIInv

LEMMA DeliveryLocal ==
  ASSUME DeliveryIInv, NEW c \in Conn, Local(c)
  PROVE  DeliveryIInv'
<1>1. TypeOK /\ Logged
      /\ \A d \in Conn : Placed(d) /\ Asking(d) /\ Joined(d) /\ Answers(d) /\ Streams(d)
  BY DEF DeliveryIInv
<1>2. pc[c] \in Busy => serving[c] # 0
  BY <1>1 DEF Asking
<1>3. TypeOK'
  BY <1>1, <1>2, TypeThread, TypeOther DEF Local
<1>4. \A d \in Conn : Placed(d)'
  BY <1>1, <1>3, PlacedLocal
<1>5. \A d \in Conn : Asking(d)'
  BY <1>1, <1>3, AskingLocal
<1>6. Logged'
  BY <1>1, <1>3, LoggedLocal
<1>7. \A d \in Conn : Joined(d)'
  BY <1>1, <1>3, JoinedLocal
<1>8. Answers(c)' /\ Streams(c)'
  BY <1>1, <1>3, <1>4, <1>5, AnswersLocal, StreamsLocal
<1>9. ASSUME NEW d \in Conn, d # c PROVE Answers(d)' /\ Streams(d)'
  BY <1>1, <1>9, OthersRest, OthersFlow
<1>10. QED
  BY <1>3, <1>4, <1>5, <1>6, <1>7, <1>8, <1>9 DEF DeliveryIInv

LEMMA DeliveryPublish ==
  ASSUME DeliveryIInv, NEW c \in Conn, Publish(c)
  PROVE  DeliveryIInv'
<1>1. TypeOK /\ Logged
      /\ \A d \in Conn : Placed(d) /\ Asking(d) /\ Joined(d) /\ Answers(d) /\ Streams(d)
  BY DEF DeliveryIInv
<1>2. (pc[c] \in Busy => serving[c] # 0) /\ serving[c] # 0
  BY <1>1, Places DEF Asking, Publish
<1>3. TypeOK'
  BY <1>1, <1>2, TypeOther
<1>4. PICK e \in Event : Published(c, e)
  BY <1>1, <1>2, PublishesOne
<1>5. \A d \in Conn : Placed(d)'
  BY <1>1, <1>4, PlacedPublish
<1>6. \A d \in Conn : Asking(d)'
  BY <1>1, <1>4, AskingPublish
<1>7. Logged'
  BY <1>1, <1>4, LoggedPublish
<1>8. \A d \in Conn : Joined(d)'
  BY <1>1, <1>4, JoinedPublish
<1>9. \A d \in Conn : Answers(d)' /\ Streams(d)'
  BY <1>1, <1>4, AnswersPublish, StreamsPublish
<1>10. QED
  BY <1>3, <1>5, <1>6, <1>7, <1>8, <1>9 DEF DeliveryIInv

LEMMA DeliveryStep == DeliveryIInv /\ [Next]_vars => DeliveryIInv'
<1> SUFFICES ASSUME DeliveryIInv, [Next]_vars PROVE DeliveryIInv'
  OBVIOUS
<1>1. CASE Next
  <2>1. PICK c \in Conn : Local(c) \/ Publish(c)
    BY <1>1 DEF Next, Local
  <2>2. QED
    BY <2>1, DeliveryLocal, DeliveryPublish
<1>2. CASE UNCHANGED vars
  BY <1>2 DEF DeliveryIInv, TypeOK, Logged, Placed, Asking, Joined, Between, Answers, Streams,
              Frames, Backlog, Seen, vars, server, threads, queues, client
<1>3. QED
  BY <1>1, <1>2

LEMMA DeliveryHolds == Spec => []DeliveryIInv
BY DeliveryInit, DeliveryStep, PTL DEF Spec

LEMMA DeliveryEntails == DeliveryIInv => DeliveryInv
<1> SUFFICES ASSUME DeliveryIInv PROVE DeliveryInv
  OBVIOUS
<1>1. TypeOK /\ \A c \in Conn : Joined(c) /\ Answers(c)
  BY DEF DeliveryIInv
<1>2. WholeRequests
  <2>1. ASSUME NEW c \in Conn, since[c] \in 1..(Len(published) - 1)
        PROVE  <<published[since[c]].conn, published[since[c]].num>>
                 # <<published[since[c] + 1].conn, published[since[c] + 1].num>>
    BY <1>1, <2>1 DEF Joined
  <2>2. QED
    BY <2>1 DEF WholeRequests
<1>3. ResponseFirst
  BY <1>1 DEF Answers, Answering, OwnFollow, Frames, ResponseFirst
<1>4. ResponsesInOrder
  BY <1>1 DEF Answers, Answering, Ordered, Frames, ResponsesInOrder
<1>5. QED
  BY <1>1, <1>2, <1>3, <1>4 DEF DeliveryInv

(* A client reads its responses in the order it asked, each before the     *)
(* events its own request published, and all events of another's request   *)
(* or none (websocket.rs:178, :285).                                       *)
THEOREM DeliveryCorrect == Spec => []DeliveryInv
BY DeliveryHolds, DeliveryEntails, PTL

-----------------------------------------------------------------------------
(* EventBroadcast is implemented *)

LEMMA BroadcastInit == Init => Broadcast!Init
BY DEF Init, Broadcast!Init

Members == {c \in Conn : forwarder[c] # "none"}

LEMMA BroadcastSubscribe ==
  ASSUME DeliveryIInv, NEW c \in Conn, Subscribe(c)
  PROVE  Broadcast!Join(c)
<1>1. forwarder[c] = "none" /\ TypeOK
  BY DEF DeliveryIInv, Placed, Subscribe
<1>2. {d \in Conn : forwarder'[d] # "none"} = Members \cup {c}
  BY <1>1 DEF Subscribe, TypeOK, Members
<1>3. since' = [since EXCEPT ![c] = Len(published)] /\ UNCHANGED <<published, events>>
  BY DEF Subscribe, client
<1>4. QED
  BY <1>1, <1>2, <1>3 DEF Broadcast!Join, Members

LEMMA BroadcastPublish ==
  ASSUME DeliveryIInv, NEW c \in Conn, Publish(c)
  PROVE  Broadcast!Post
<1>1. TypeOK /\ serving[c] # 0
  BY Places DEF DeliveryIInv, Asking, Publish
<1>2. PICK e \in Event : Published(c, e)
  BY <1>1, PublishesOne
<1>3. QED
  BY <1>2 DEF Published, Broadcast!Post, threads, client

LEMMA BroadcastRead ==
  ASSUME DeliveryIInv, NEW c \in Conn, ReadFrame(c), Head(wire[c]).kind = "event"
  PROVE  Broadcast!Deliver(c)
<1>1. TypeOK /\ Streams(c) /\ Placed(c)
  BY DEF DeliveryIInv
<1>2. wire[c] # <<>> /\ wire[c] \in Seq(Frame) /\ published \in Seq(Event)
      /\ Seen(c) \in Nat /\ Backlog(c) \in Seq(Event)
  BY <1>1, Flows DEF ReadFrame
<1>3. Seen(c) + 1 \in DOMAIN published /\ Head(wire[c]) = published[Seen(c) + 1]
  BY <1>1, <1>2, StreamingRead DEF Streams
<1>4. forwarder[c] # "none"
  BY <1>1, <1>2 DEF Placed
<1>5. events' = [events EXCEPT ![c] = Append(@, published[Seen(c) + 1])]
      /\ UNCHANGED <<published, since, forwarder>>
  BY <1>3 DEF ReadFrame, server, threads
<1>6. Seen(c) + 1 <= Len(published)
  BY <1>2, <1>3, LenProperties
<1>7. QED
  BY <1>3, <1>4, <1>5, <1>6 DEF Broadcast!Deliver, Seen

LEMMA BroadcastQuiet ==
  ASSUME DeliveryIInv, NEW c \in Conn, Local(c), ~Subscribe(c),
         ReadFrame(c) => Head(wire[c]).kind # "event"
  PROVE  UNCHANGED Broadcast!vars
<1>1. TypeOK
  BY DEF DeliveryIInv
<1>2. UNCHANGED <<published, since>>
  BY <1>1, LogRests, SinceRests
<1>3. UNCHANGED events
  <2>1. CASE ReadFrame(c)
    BY <1>1, <2>1 DEF ReadFrame, TypeOK
  <2>2. CASE ~ReadFrame(c)
    BY <2>2
    DEF Local, Thread, Forwarder, Subscribe, FlushOutbound, FlushDone, ReadTimesOut, JoinForwarder,
        TakeRequest, FinishRequest, Reply, RejectFrame, PeerGone, WriteFails, Forward,
        StopForwarder, SendRequest, Disconnect, client
  <2>3. QED
    BY <2>1, <2>2
<1>4. \A d \in Conn : forwarder'[d] # "none" <=> forwarder[d] # "none"
  <2>1. CASE StopForwarder(c)
    BY <1>1, <2>1 DEF StopForwarder, TypeOK
  <2>2. CASE ~StopForwarder(c)
    BY <2>2
    DEF Local, Thread, Forwarder, Subscribe, FlushOutbound, FlushDone, ReadTimesOut, JoinForwarder,
        TakeRequest, FinishRequest, Reply, RejectFrame, PeerGone, WriteFails, Forward,
        SendRequest, ReadFrame, Disconnect, threads
  <2>3. QED
    BY <2>1, <2>2
<1>5. QED
  BY <1>2, <1>3, <1>4 DEF Broadcast!vars

LEMMA BroadcastStep == DeliveryIInv /\ [Next]_vars => [Broadcast!Next]_Broadcast!vars
<1> SUFFICES ASSUME DeliveryIInv, [Next]_vars
             PROVE  Broadcast!Next \/ UNCHANGED Broadcast!vars
  OBVIOUS
<1>1. CASE Next
  <2>1. PICK c \in Conn : Local(c) \/ Publish(c)
    BY <1>1 DEF Next, Local
  <2>2. CASE Publish(c)
    BY <2>2, BroadcastPublish DEF Broadcast!Next
  <2>3. CASE Subscribe(c)
    BY <2>3, BroadcastSubscribe DEF Broadcast!Next
  <2>4. CASE ReadFrame(c) /\ Head(wire[c]).kind = "event"
    BY <2>4, BroadcastRead DEF Broadcast!Next
  <2>5. CASE Local(c) /\ ~Subscribe(c) /\ (ReadFrame(c) => Head(wire[c]).kind # "event")
    BY <2>5, BroadcastQuiet
  <2>6. QED
    BY <2>1, <2>2, <2>3, <2>4, <2>5
<1>2. CASE UNCHANGED vars
  BY <1>2 DEF vars, server, threads, client, Broadcast!vars
<1>3. QED
  BY <1>1, <1>2

(* Every client sees the events published since it subscribed, each once   *)
(* and in order, until it leaves (events/mod.rs, websocket.rs:219).        *)
THEOREM BroadcastImplemented == Spec => ImplementsBroadcast
BY DeliveryHolds, BroadcastInit, BroadcastStep, PTL
DEF Spec, ImplementsBroadcast, Broadcast!Spec

=============================================================================

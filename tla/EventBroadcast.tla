--------------------------- MODULE EventBroadcast ---------------------------
(***************************************************************************)
(* What a client of liz-app-server is promised of the event stream: from   *)
(* the moment it joins it sees every event, in the order of publication,   *)
(* once, until it leaves.                                                  *)
(***************************************************************************)
EXTENDS Naturals, Sequences

CONSTANTS Conn, Event

VARIABLES
  posts,   \* events in the order of publication
  joined,  \* Conn -> length of posts when it joined, or 0
  member,  \* connections that have joined
  seen     \* Conn -> events it was given

vars == <<posts, joined, member, seen>>

Init ==
  /\ posts  = <<>>
  /\ joined = [c \in Conn |-> 0]
  /\ member = {}
  /\ seen   = [c \in Conn |-> <<>>]

Post ==
  /\ \E e \in Event : posts' = Append(posts, e)
  /\ UNCHANGED <<joined, member, seen>>

Join(c) ==
  /\ c \notin member
  /\ member' = member \cup {c}
  /\ joined' = [joined EXCEPT ![c] = Len(posts)]
  /\ UNCHANGED <<posts, seen>>

Deliver(c) ==
  LET next == joined[c] + Len(seen[c]) + 1 IN
    /\ c \in member
    /\ next <= Len(posts)
    /\ seen' = [seen EXCEPT ![c] = Append(@, posts[next])]
    /\ UNCHANGED <<posts, joined, member>>

Next == Post \/ \E c \in Conn : Join(c) \/ Deliver(c)

Spec == Init /\ [][Next]_vars

=============================================================================

-------------------------------- MODULE CliView --------------------------------
(***************************************************************************)
(* The command line client: which conversation a typed message goes to,    *)
(* what the transcripts, the conversation picker and the pending           *)
(* approvals show (crates/liz-cli/src/tui.rs, view_model.rs), while        *)
(* another client uses the same server.                                    *)
(*                                                                         *)
(* Responses and events come over one socket but are handed to the client  *)
(* in two queues (app_client.rs), drained between keys: any order of the   *)
(* two is possible.  The server takes requests up in their order and runs  *)
(* a whole turn inside one.  Requests that only fill panels (memory, model *)
(* status, settings) are left out.                                         *)
(***************************************************************************)
EXTENDS Naturals, FiniteSets, Sequences, SequencesExt

CONSTANTS
  None,
  MaxThreads,    \* bound: conversations
  MaxTurns,      \* bound: turns of all conversations
  MaxKeys,       \* bound: commands and messages entered here
  MaxOthers      \* bound: requests of the other client

Threads == 1 .. MaxThreads
Turns == 1 .. MaxTurns

VARIABLES
  thread,        \* the server's conversations: [at, latest] or None
  clock,         \* the server's time stamps
  turn,          \* the server's turns: [thread, status, approval] or None
  asked,         \* requests of this client, not taken up yet
  responses,     \* responses on their way
  events,        \* events on their way
  keys,          \* commands and messages entered
  others,        \* requests of the other client
  sent,          \* turn/start requests sent: [thread, text]
  fresh,         \* the last command was to start a new conversation
  view           \* ViewModel and CliApp

server == <<thread, clock, turn>>
wire == <<responses, events>>
vars == <<server, asked, wire, keys, others, sent, fresh, view>>

Init ==
  /\ thread = [t \in Threads |-> None]
  /\ clock = 0
  /\ turn = [u \in Turns |-> None]
  /\ asked = <<[type |-> "list"]>>                       \* bootstrap
  /\ responses = <<>>
  /\ events = <<>>
  /\ keys = 0
  /\ others = 0
  /\ sent = {}
  /\ fresh = FALSE
  /\ view = [threads |-> <<>>, selected |-> 0, active |-> None, overlay |-> None,
             transcripts |-> [t \in Threads |-> <<>>], pendingEntries |-> <<>>,
             pendingInput |-> None, approvals |-> <<>>, streaming |-> None]

-----------------------------------------------------------------------------
(* The view model. *)

Entry(kind, body) == [kind |-> kind, body |-> body]

(* push_deduped_entry: not if one of the last three is the same. *)
PushDeduped(entries, entry) ==
  IF \E i \in DOMAIN entries : i > Len(entries) - 3 /\ entries[i] = entry
  THEN entries ELSE Append(entries, entry)

PushThreadEntry(v, t, kind, body) ==
  [v EXCEPT !.transcripts[t] = PushDeduped(@, Entry(kind, body))]

PushForSelected(v, kind, body) ==
  IF v.active = None THEN v ELSE PushThreadEntry(v, v.active, kind, body)

PositionOf(threads, id) == SelectInSeq(threads, LAMBDA x : x.id = id)

SelectedId(v) == IF v.selected + 1 \in DOMAIN v.threads THEN v.threads[v.selected + 1].id ELSE None

(* The picker's row, at the thread it was at. *)
IndexOf_Unmoved(v, threads, id) == IF v.selected < Len(threads) THEN v.selected ELSE 0

IndexOf(v, threads, id) ==
  LET p == PositionOf(threads, id) IN IF id = None \/ p = 0 THEN 0 ELSE p - 1

ByRecency(threads) == SortSeq(threads, LAMBDA x, y : x.at > y.at)

(* upsert_thread: the first conversation heard of becomes the active one. *)
UpsertThread(v, x) ==
  LET p == PositionOf(v.threads, x.id)
      threads == ByRecency(IF p = 0 THEN Append(v.threads, x)
                                    ELSE [v.threads EXCEPT ![p] = x])
      id == IF SelectedId(v) = None THEN x.id ELSE SelectedId(v)
  IN  [v EXCEPT !.active = IF @ = None THEN x.id ELSE @,
                !.threads = threads,
                !.selected = IndexOf(v, threads, id)]

AttachPending(v, t) ==
  [v EXCEPT !.transcripts[t] = FoldLeft(PushDeduped, @, v.pendingEntries),
            !.pendingEntries = <<>>]

Without(approvals, u) == SelectSeq(approvals, LAMBDA a : a # u)

(* The answer to approval/respond removes the approval too. *)
ApplyResponse(v, r) ==
  CASE r.type = "start"   -> AttachPending(UpsertThread([v EXCEPT !.active = r.thread.id], r.thread),
                                           r.thread.id)
    [] r.type \in {"resume", "fork"} ->
         UpsertThread([v EXCEPT !.active = r.thread.id], r.thread)
    [] r.type = "list"    ->
         [v EXCEPT !.threads = r.threads,
                   !.active = IF PositionOf(r.threads, @) = 0 THEN None ELSE @,
                   !.selected = IndexOf(v, r.threads, SelectedId(v))]
    [] r.type = "approve" -> [v EXCEPT !.approvals = Without(@, r.turn)]
    [] r.type = "error"   -> PushForSelected(v, "error", 0)
    [] OTHER              -> v

ApplyEvent(v, e) ==
  CASE e.type = "thread"              -> UpsertThread(v, e.body)
    [] e.type = "turn_started"        -> PushThreadEntry(v, e.thread, "user", e.body)
    [] e.type = "turn_failed"         -> PushThreadEntry(v, e.thread, "failed", 0)
    [] e.type = "turn_cancelled"      -> PushThreadEntry(v, e.thread, "interrupted", 0)
    [] e.type = "assistant_chunk"     -> [v EXCEPT !.streaming = e.body]
    [] e.type = "assistant_completed" ->
         PushThreadEntry([v EXCEPT !.streaming = None], e.thread, "assistant", e.body)
    [] e.type = "approval_requested"  ->
         PushThreadEntry([v EXCEPT !.approvals = Append(@, e.body)], e.thread, "approval", e.body)
    [] e.type = "approval_resolved"   ->
         PushThreadEntry([v EXCEPT !.approvals = Without(@, e.body)], e.thread, "resolved", e.body)

-----------------------------------------------------------------------------
(* The server. *)

Count(f) == Cardinality({x \in DOMAIN f : f[x] # None})
Snapshot(t) == thread[t] @@ [id |-> t]
Listed == ByRecency(SetToSeq({Snapshot(t) : t \in {x \in Threads : thread[x] # None}}))
Event(type, t, body) == [type |-> type, thread |-> t, body |-> body]
Running(t) == \E u \in Turns : turn[u] # None /\ turn[u].thread = t /\ turn[u].status = "waiting"

Publish(new) == events' = events \o new
Respond(r) == responses' = Append(responses, r)

(* thread/start and thread/fork *)
NewThread(r) ==
  LET t == Count(thread) + 1
  IN  /\ t <= MaxThreads
      /\ clock' = clock + 1
      /\ thread' = [thread EXCEPT ![t] = [at |-> clock + 1, latest |-> None]]
      /\ Publish(<<Event("thread", t, thread'[t] @@ [id |-> t])>>)
      /\ r.own => Respond([type |-> r.type, thread |-> thread'[t] @@ [id |-> t]])
      /\ UNCHANGED turn

Ending(u, t, s) ==
  IF s = "failed"
  THEN <<Event("assistant_chunk", t, u), Event("turn_failed", t, u)>>
  ELSE <<Event("assistant_chunk", t, u), Event("assistant_completed", t, u)>>

(* turn/start: the turn ends, or waits for an approval. *)
NewTurn(r) ==
  LET u == Count(turn) + 1
      t == r.thread
  IN  /\ u <= MaxTurns
      /\ thread[t] # None /\ ~Running(t)
      /\ clock' = clock + 1
      /\ thread' = [thread EXCEPT ![t] = [at |-> clock + 1, latest |-> u]]
      /\ LET told == <<Event("turn_started", t, r.text),
                       Event("thread", t, thread'[t] @@ [id |-> t])>>
         IN  \/ \E s \in {"completed", "failed"} :
                  /\ turn' = [turn EXCEPT ![u] = [thread |-> t, status |-> s, approval |-> None]]
                  /\ Publish(told \o Ending(u, t, s))
             \/ /\ turn' = [turn EXCEPT ![u] =
                              [thread |-> t, status |-> "waiting", approval |-> "pending"]]
                /\ Publish(told \o <<Event("approval_requested", t, u)>>)
      /\ r.own => Respond([type |-> "turn"])

(* turn/cancel *)
EndTurn(r) ==
  LET u == r.turn
      t == turn[u].thread
  IN  /\ turn[u] # None /\ turn[u].status = "waiting"
      /\ clock' = clock + 1
      /\ turn' = [turn EXCEPT ![u].status = "cancelled"]
      /\ thread' = [thread EXCEPT ![t].at = clock + 1]
      /\ Publish(<<Event("turn_cancelled", t, u), Event("thread", t, thread'[t] @@ [id |-> t])>>)
      /\ r.own => Respond([type |-> "cancel"])

(* approval/respond: a late answer changes the approval only. *)
Resolve(r) ==
  LET u == r.turn
      t == turn[u].thread
      told == <<Event("approval_resolved", t, u)>>
  IN  /\ turn[u] # None /\ turn[u].approval # None
      /\ clock' = clock + 1
      /\ \/ /\ turn[u].status = "waiting"
            /\ turn' = [turn EXCEPT ![u] = [@ EXCEPT !.approval = "answered", !.status =
                          IF r.deny THEN "cancelled" ELSE "completed"]]
            /\ thread' = [thread EXCEPT ![t].at = clock + 1]
            /\ Publish(told \o IF r.deny
                               THEN <<Event("turn_cancelled", t, u),
                                      Event("thread", t, thread'[t] @@ [id |-> t])>>
                               ELSE Ending(u, t, "completed"))
         \/ /\ turn[u].status # "waiting"
            /\ turn' = [turn EXCEPT ![u].approval = "answered"]
            /\ Publish(told)
            /\ UNCHANGED thread
      /\ r.own => Respond([type |-> "approve", turn |-> u])

ResumeThread(r) ==
  /\ Publish(<<Event("thread", r.thread, Snapshot(r.thread))>>)
  /\ Respond([type |-> "resume", thread |-> Snapshot(r.thread)])
  /\ UNCHANGED server

Refused(r) ==
  /\ \/ r.type = "turn" /\ Running(r.thread)
     \/ r.type = "cancel" /\ turn[r.turn].status # "waiting"
  /\ Respond([type |-> "error"])
  /\ UNCHANGED <<server, events>>

TakeUp ==
  /\ asked # <<>>
  /\ asked' = Tail(asked)
  /\ LET r == Head(asked) @@ [own |-> TRUE]
     IN  \/ r.type \in {"start", "fork"} /\ NewThread(r)
         \/ r.type = "turn" /\ NewTurn(r)
         \/ r.type = "cancel" /\ EndTurn(r)
         \/ r.type = "approve" /\ Resolve(r)
         \/ r.type = "resume" /\ ResumeThread(r)
         \/ /\ r.type = "list"
            /\ Respond([type |-> "list", threads |-> Listed])
            /\ UNCHANGED <<server, events>>
         \/ Refused(r)
  /\ UNCHANGED <<keys, others, sent, fresh, view>>

OtherClient ==
  /\ others < MaxOthers
  /\ others' = others + 1
  /\ \/ NewThread([type |-> "start", own |-> FALSE])
     \/ \E t \in Threads : NewTurn([thread |-> t, text |-> 0, own |-> FALSE])
     \/ \E u \in Turns : EndTurn([turn |-> u, own |-> FALSE])
     \/ \E u \in Turns : Resolve([turn |-> u, deny |-> TRUE, own |-> FALSE])
  /\ UNCHANGED <<asked, responses, keys, sent, fresh, view>>

-----------------------------------------------------------------------------
(* Keys and commands. *)

Text == keys + 1                    \* what is typed: a new text every time

Key == keys < MaxKeys /\ keys' = keys + 1 /\ UNCHANGED <<server, wire, others>>

Send(requests) == asked' = asked \o requests

StartTurn(t, text) == [type |-> "turn", thread |-> t, text |-> text]

(* start_thread_from_message *)
StartThreadFromMessage(v, text) ==
  /\ view' = [v EXCEPT !.pendingInput = text,
                       !.pendingEntries = PushDeduped(@, Entry("user", text))]
  /\ Send(<<[type |-> "start"]>>)
  /\ UNCHANGED sent

(* submit_input *)
SubmitMessage ==
  /\ Key
  /\ view.overlay = None
  /\ fresh' = FALSE
  /\ \/ /\ view.active = None
        /\ StartThreadFromMessage(view, Text)
     \/ /\ view.active # None
        /\ view' = PushThreadEntry(view, view.active, "user", Text)
        /\ Send(<<StartTurn(view.active, Text)>>)
        /\ sent' = sent \cup {[thread |-> view.active, text |-> Text]}

(* /new and /clear; the active conversation stays. *)
NewConversation ==
  /\ Key
  /\ view.overlay = None
  /\ view' = [view EXCEPT !.pendingInput = None]
  /\ fresh' = TRUE
  /\ UNCHANGED <<asked, sent>>

(* /new with the first message *)
NewConversationWith ==
  /\ Key
  /\ view.overlay = None
  /\ StartThreadFromMessage(view, Text)
  /\ fresh' = FALSE

Command(request) ==
  /\ Key
  /\ view.overlay = None
  /\ Send(<<request>>)
  /\ UNCHANGED <<sent, fresh, view>>

ResumeSelected ==
  SelectedId(view) # None /\ Command([type |-> "resume", thread |-> SelectedId(view)])

ForkSelected == view.active # None /\ Command([type |-> "fork"])

(* /cancel names the latest turn of the active conversation, as last told. *)
CancelSelected ==
  LET p == PositionOf(view.threads, view.active)
  IN  /\ view.active # None /\ p # 0 /\ view.threads[p].latest # None
      /\ Command([type |-> "cancel", turn |-> view.threads[p].latest])

(* Enter or Esc with an approval pending: the first one is answered. *)
RespondToFirst ==
  /\ view.approvals # <<>>
  /\ \E deny \in BOOLEAN :
       Command([type |-> "approve", turn |-> view.approvals[1], deny |-> deny])

OpenPicker ==
  /\ Key
  /\ view.overlay = None
  /\ view' = [view EXCEPT !.overlay = "threads"]
  /\ UNCHANGED <<asked, sent, fresh>>

(* Down in the picker; Up is its inverse. *)
PickNext ==
  /\ Key
  /\ view.overlay = "threads"
  /\ view' = [view EXCEPT !.selected =
                IF view.threads = <<>> THEN 0 ELSE (@ + 1) % Len(view.threads)]
  /\ UNCHANGED <<asked, sent, fresh>>

(* Enter in the picker *)
OpenPicked ==
  /\ Key
  /\ view.overlay = "threads"
  /\ view' = [view EXCEPT !.overlay = None,
                          !.active = IF SelectedId(view) = None THEN @ ELSE SelectedId(view)]
  /\ fresh' = FALSE
  /\ UNCHANGED <<asked, sent>>

-----------------------------------------------------------------------------
(* drain_transport *)

(* The pending input is taken by the first answer. *)
FollowUp_Again(r) == [view EXCEPT !.pendingInput = @]
FollowUp(r) == [view EXCEPT !.pendingInput = IF r.type = "start" THEN None ELSE @]

ReceiveResponse ==
  /\ responses # <<>>
  /\ responses' = Tail(responses)
  /\ LET r == Head(responses)
         starts == r.type = "start" /\ view.pendingInput # None
     IN  /\ view' = ApplyResponse(FollowUp(r), r)
         /\ Send((IF r.type \in {"start", "resume", "fork"} THEN <<[type |-> "list"]>> ELSE <<>>)
                 \o (IF starts THEN <<StartTurn(r.thread.id, view.pendingInput)>> ELSE <<>>))
         /\ sent' = IF starts THEN sent \cup {[thread |-> r.thread.id, text |-> view.pendingInput]}
                              ELSE sent
         /\ fresh' = (fresh /\ r.type \notin {"start", "resume", "fork"})
  /\ UNCHANGED <<server, events, keys, others>>

ReceiveEvent ==
  /\ events # <<>>
  /\ events' = Tail(events)
  /\ view' = ApplyEvent(view, Head(events))
  /\ UNCHANGED <<server, asked, responses, keys, others, sent, fresh>>

Next ==
  \/ TakeUp \/ OtherClient
  \/ SubmitMessage \/ NewConversation \/ NewConversationWith
  \/ ResumeSelected \/ ForkSelected \/ CancelSelected \/ RespondToFirst
  \/ OpenPicker \/ PickNext \/ OpenPicked
  \/ ReceiveResponse \/ ReceiveEvent

Spec == Init /\ [][Next]_vars

-----------------------------------------------------------------------------
(* Properties. *)

TypeOK ==
  /\ view.active \in Threads \cup {None}
  /\ view.selected \in 0 .. MaxThreads
  /\ view.selected # 0 => view.selected < Len(view.threads)
  /\ Len(view.threads) <= MaxThreads

(* A message stands in the transcript of the conversation it was sent to,  *)
(* and is sent to one conversation only, also when it was typed while the  *)
(* conversation was still being started (tui.rs:492-507, 559-572).         *)
SentAsShown ==
  /\ TypeOK
  /\ \A s \in sent :
       /\ \E i \in DOMAIN view.transcripts[s.thread] :
            view.transcripts[s.thread][i] = Entry("user", s.text)
       /\ \A q \in sent : q.text = s.text => q = s

(* Once every frame came, the approvals offered for an answer are those    *)
(* the server still has open, whichever client answered and in whichever   *)
(* order answers and events were drained (view_model.rs:822, 961-975).     *)
ApprovalsMatch ==
  asked = <<>> /\ responses = <<>> /\ events = <<>> =>
    ToSet(view.approvals) = {u \in Turns : turn[u] # None /\ turn[u].approval = "pending"}

(* What the terminal shows was sent, and what it offers is still open      *)
(* (tui.rs:492-507, view_model.rs:822-975).                                *)
ScreenInv == SentAsShown /\ ApprovalsMatch

(* Frames that reorder the list of conversations do not move the picker to *)
(* another conversation while the one it is at is still listed             *)
(* (view_model.rs:1099-1116, 759-780).                                     *)
PickerStays ==
  [][ (asked' = asked \/ responses' # responses) /\ keys' = keys
        /\ PositionOf(view'.threads, SelectedId(view)) # 0
        => SelectedId(view') = SelectedId(view) ]_vars

(* After /new or /clear the next message is the first of a conversation    *)
(* (view_model.rs:29 "Start a new conversation", :48 "Clear visible        *)
(* transcript and start fresh").                                           *)
NewIsNew == [][ SubmitMessage /\ fresh => sent' = sent ]_vars

=============================================================================

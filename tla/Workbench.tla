------------------------------ MODULE Workbench ------------------------------
(***************************************************************************)
(* What the web client shows of a thread: the reducer of                   *)
(* apps/liz-web/src/state/workbench.ts with the requests of                *)
(* hooks/useLizRuntime.ts, while another client uses the same thread.      *)
(*                                                                         *)
(* The server runs a whole turn inside the request that starts it, so that *)
(* between requests a turn is over or waits for an approval.  Frames come  *)
(* as EventDelivery says: events in the order of their publication, a      *)
(* response before the events published since its request was taken up,    *)
(* while earlier events may still follow it.                               *)
(*                                                                         *)
(* An entry of the transcript is live (origin 0), made as its turn goes, or *)
(* read from the log of the thread when the thread was selected: then its  *)
(* origin is the event published with that log entry.  Live notices are    *)
(* kept apart as a set: their places among the entries are left out.       *)
(***************************************************************************)
EXTENDS Naturals, FiniteSets, Sequences, SequencesExt

CONSTANTS
  None,
  MaxTurns,    \* bound: turns of the thread
  MaxSends,    \* bound: requests of this client
  MaxMishaps   \* bound: connections lost and requests that run out of time

Turns == 1 .. MaxTurns

VARIABLES
  turn,        \* the server's status of each turn: none, waiting or its end
  approval,    \* the server's approval of each turn that asked for one
  script,      \* how the model's part of each turn goes
  events,      \* events published, in order
  got,         \* events this client received or lost
  responses,   \* responses on their way: [to, ok, turn, after]
  asked,       \* requests of this client the server has not taken up
  sends,       \* requests made
  late,        \* answers that came when the time of their request was over
  losses,      \* connections lost
  view         \* the client: WorkbenchState, as far as the thread goes

vars == <<turn, approval, script, events, got, responses, asked, sends, late, losses, view>>

Ended == {"completed", "failed", "cancelled"}
Open(t) == turn[t] = "waiting"
NextTurn == Len(SelectSeq([t \in Turns |-> turn[t]], LAMBDA s : s # "none")) + 1

Init ==
  /\ turn = [t \in Turns |-> "none"]
  /\ approval = [t \in Turns |-> None]
  /\ script = [t \in Turns |-> None]
  /\ events = <<>>
  /\ got = 0
  /\ responses = {}
  /\ asked = {}
  /\ sends = 0
  /\ late = 0
  /\ losses = 0
  /\ view = [entries |-> <<>>, notices |-> {}, activeTurn |-> None, calls |-> <<>>,
             approvals |-> {}]

-----------------------------------------------------------------------------
(* The reducer. *)

Entry(kind, t, status, text, origin) ==
  [kind |-> kind, turn |-> t, status |-> status, text |-> text, origin |-> origin]

UserEntry(n) == Entry("user", None, "pending", <<n>>, 0)

AssistantEntry(t) == Entry("assistant", t, "streaming", <<>>, 0)

AppendEntry(v, entry) == [v EXCEPT !.entries = Append(@, entry)]

AppendNotice(v, t, what) == [v EXCEPT !.notices = @ \cup {<<t, what>>}]

IsAssistantOf(entry, t) == entry.kind = "assistant" /\ entry.turn = t

EnsureAssistantEntry(entries, t) ==
  IF \E i \in DOMAIN entries : IsAssistantOf(entries[i], t)
  THEN entries ELSE Append(entries, AssistantEntry(t))

OnAssistant(entries, t, change) ==
  [i \in DOMAIN entries |->
     IF IsAssistantOf(entries[i], t) THEN change @@ entries[i] ELSE entries[i]]

(* turn_started, as a response and as an event: every message that waits   *)
(* becomes part of the turn.                                               *)
TurnStarted(v, t) ==
  LET sent == [i \in DOMAIN v.entries |->
                 IF v.entries[i].kind = "user" /\ v.entries[i].status = "pending"
                 THEN [v.entries[i] EXCEPT !.turn = t, !.status = "sent"]
                 ELSE v.entries[i]]
  IN  [v EXCEPT !.entries = EnsureAssistantEntry(sent, t), !.activeTurn = t]

AppendAssistantChunk(v, t, chunk) ==
  LET entries == EnsureAssistantEntry(v.entries, t)
  IN  [v EXCEPT !.entries =
         [i \in DOMAIN entries |->
            IF IsAssistantOf(entries[i], t)
            THEN [entries[i] EXCEPT !.text = Append(@, chunk)] ELSE entries[i]]]

CompleteAssistantMessage(v, t, message) ==
  [v EXCEPT !.entries =
     OnAssistant(EnsureAssistantEntry(@, t), t,
                 [text |-> message, status |-> "completed"])]

(* finishTurn: the thread has no active turn any more, whichever ended. *)
FinishTurn_KeepsActive(v, t, status) ==
  [v EXCEPT !.entries = OnAssistant(@, t, [status |-> status]),
            !.activeTurn = IF status = "cancelled" THEN @ ELSE None]

FinishTurn(v, t, status) ==
  [v EXCEPT !.entries = OnAssistant(@, t, [status |-> status]),
            !.activeTurn = None]

FailTurn(v, t) == AppendNotice(FinishTurn(v, t, "failed"), t, "failed")

ToolCall(t, c, name) ==
  [turn |-> t, call |-> c, tool |-> name, status |-> "forming", result |-> None,
   output |-> <<>>]

(* upsertToolCall: a call takes the place of one of the same identifier,   *)
(* whichever turn that was of; the newest call is the last.                *)
UpsertCall(v, call) ==
  [v EXCEPT !.calls = Append(SelectSeq(@, LAMBDA c : c.call # call.call), call)]

UpdateCall(v, id, change) ==
  [v EXCEPT !.calls = [i \in DOMAIN @ |-> IF @[i].call = id THEN change @@ @[i] ELSE @[i]]]

IsOpenCall(call) == call.status \in {"forming", "committed"}

(* resolveToolCallId: results name the tool, not the call; the last open   *)
(* call of that tool in the turn takes them.                               *)
ResolveToolCallId(v, t, name) ==
  LET i == SelectLastInSeq(v.calls,
                           LAMBDA c : c.tool = name /\ c.turn = t /\ IsOpenCall(c))
  IN  IF i = 0 THEN None ELSE v.calls[i].call

AppendOutput(v, t, chunk) ==
  LET i == SelectLastInSeq(v.calls, LAMBDA c : c.turn = t /\ IsOpenCall(c))
  IN  IF i = 0 THEN v
      ELSE UpdateCall(v, v.calls[i].call, [output |-> Append(v.calls[i].output, chunk)])

UpsertApproval(v, t, status) ==
  [v EXCEPT !.approvals = {a \in @ : a.turn # t} \cup {[turn |-> t, status |-> status]}]

(* projectServerEvent *)
Project(v, e) ==
  CASE e.type = "turn_started"        -> TurnStarted(v, e.turn)
    [] e.type = "assistant_chunk"     -> AppendAssistantChunk(v, e.turn, e.arg)
    [] e.type = "assistant_completed" -> CompleteAssistantMessage(v, e.turn, e.arg)
    [] e.type = "turn_completed"      -> FinishTurn(v, e.turn, "completed")
    [] e.type = "turn_cancelled"      -> FinishTurn(v, e.turn, "cancelled")
    [] e.type = "turn_failed"         -> FailTurn(v, e.turn)
    [] e.type = "tool_call_started"   ->
         UpsertCall(v, ToolCall(e.turn, e.arg, e.tool))
    [] e.type = "tool_call_committed" ->
         UpdateCall(v, e.arg, [status |-> "committed"])
    [] e.type = "executor_output_chunk" -> AppendOutput(v, e.turn, e.arg)
    [] e.type = "tool_completed"      ->
         UpdateCall(v, ResolveToolCallId(v, e.turn, e.tool),
                    [status |-> "completed", result |-> e.arg])
    [] e.type = "tool_failed"         ->
         UpdateCall(v, ResolveToolCallId(v, e.turn, e.tool),
                    [status |-> "failed", result |-> e.arg])
    [] e.type = "approval_requested"  ->
         AppendNotice(UpsertApproval(v, e.turn, "pending"), e.turn, "asked")
    [] e.type \in {"approval_resolved", "approval_resumed"} ->
         AppendNotice(UpsertApproval(v, e.turn, e.arg), e.turn, e.arg)

(* session_loaded: the last entries of the thread's log come to the end of *)
(* the transcript, unless they were loaded before.  Live entries have      *)
(* identifiers of their own, so those of a turn that was shown stay.       *)
SessionEntry(e, i) ==
  CASE e.type = "turn_started" -> Entry("user", e.turn, "sent", e.arg, i)
    [] e.type = "turn_completed" -> Entry("assistant", e.turn, "completed", e.arg, i)
    [] e.type = "turn_cancelled" -> Entry("assistant", e.turn, "cancelled", e.arg, i)
    [] e.type = "turn_failed"    -> Entry("assistant", e.turn, "failed", e.arg, i)
    [] OTHER                     -> Entry("system", e.turn, "loaded", <<>>, i)

MergeSessionTranscript(v, session) ==
  LET loaded == {v.entries[i].origin : i \in DOMAIN v.entries}
      fresh  == SelectSeq(session, LAMBDA i : i \notin loaded)
  IN  [v EXCEPT !.entries = @ \o [k \in DOMAIN fresh |-> SessionEntry(events[fresh[k]], fresh[k])]]

-----------------------------------------------------------------------------
(* The server, as far as its frames go.  arg is what the client reads of   *)
(* an event; of the start and the end of a turn it is the summary that the *)
(* log holds, of which only an answer is told apart from remarks.          *)

Remark == <<0>>
Said   == <<2>>

Event(type, t, arg)           == [type |-> type, turn |-> t, arg |-> arg, tool |-> None]
ToolEvent(type, t, c, tool)   == [type |-> type, turn |-> t, arg |-> c, tool |-> tool]

Started(t)   == Event("turn_started", t, Remark)
Cancelled(t) == Event("turn_cancelled", t, Remark)

(* The calls of a round are announced and committed as the answer is read, *)
(* and executed in order afterwards; here the last one fails, without      *)
(* output.  Identifiers repeat: adapters number calls anew in each answer, *)
(* or give all of them the same where the provider sent none.              *)
ToolRound(t, ids) ==
  LET place(i) == (i + 1) \div 2
      announced(i) == IF i % 2 = 1 THEN "tool_call_started" ELSE "tool_call_committed"
      executed(i)  == IF place(i) = Len(ids) THEN "tool_failed"
                      ELSE IF i % 2 = 1 THEN "executor_output_chunk" ELSE "tool_completed"
  IN  [i \in 1 .. 2 * Len(ids) |-> ToolEvent(announced(i), t, ids[place(i)], "shell")]
        \o [i \in 1 .. 2 * Len(ids) - 1 |-> ToolEvent(executed(i), t, ids[place(i)], "shell")]

Answer(t) ==
  <<Event("assistant_chunk", t, 1), Event("assistant_completed", t, Said),
    Event("turn_completed", t, Said)>>

(* How the model's part may go: two calls and an answer; two calls without *)
(* identifiers of their own and then an error.                             *)
Scripts == {"answers", "fails"}

CallsMade(s) == IF s = "answers" THEN <<1, 2>> ELSE <<1, 1>>

ModelEvents(t, s) ==
  ToolRound(t, CallsMade(s))
    \o IF s = "fails" THEN <<Event("turn_failed", t, Remark)>> ELSE Answer(t)

EndOf(s) == IF s = "fails" THEN "failed" ELSE "completed"

(* memory/open_session: the last entries of the log.  The log holds what   *)
(* was published, but for calls that failed, the stream, and an approval   *)
(* that did not set its turn going again ("approval_resumed" did).         *)
RecentEntryLimit == 8

Logged == {"turn_started", "approval_requested", "approval_resumed", "tool_completed",
           "turn_completed", "turn_cancelled", "turn_failed"}

OpenSession(published) ==
  LET logged == SelectSeq([i \in 1 .. published |-> i], LAMBDA i : events[i].type \in Logged)
  IN  SubSeq(logged, (IF Len(logged) > RecentEntryLimit THEN Len(logged) - RecentEntryLimit
                      ELSE 0) + 1, Len(logged))

(* The model's part of a turn, up to its end. *)
RunModel(t, before) ==
  \E s \in Scripts :
    /\ script' = [script EXCEPT ![t] = s]
    /\ turn' = [turn EXCEPT ![t] = EndOf(s)]
    /\ events' = events \o before \o ModelEvents(t, s)

(* turn/start: refused while a turn is open; the turn runs to its end, or  *)
(* asks for an approval.                                                   *)
RunTurn(t) ==
  /\ t <= MaxTurns
  /\ \A u \in Turns : ~Open(u)
  /\ \/ /\ RunModel(t, <<Started(t)>>)
        /\ UNCHANGED approval
     \/ /\ turn' = [turn EXCEPT ![t] = "waiting"]
        /\ approval' = [approval EXCEPT ![t] = "pending"]
        /\ events' = events \o <<Started(t), Event("approval_requested", t, None)>>
        /\ UNCHANGED script

(* turn/cancel *)
EndTurn(t) ==
  /\ Open(t)
  /\ turn' = [turn EXCEPT ![t] = "cancelled"]
  /\ events' = Append(events, Cancelled(t))
  /\ UNCHANGED <<approval, script>>

(* approval/respond: an answer that comes too late is only recorded. *)
Resolve(t, answer) ==
  /\ approval[t] # None
  /\ approval' = [approval EXCEPT ![t] = answer]
  /\ LET told == Event("approval_resolved", t, answer)
     IN  \/ /\ ~Open(t)
            /\ events' = Append(events, told)
            /\ UNCHANGED <<turn, script>>
         \/ /\ Open(t) /\ answer = "approved"
            /\ RunModel(t, <<Event("approval_resumed", t, answer)>>)
         \/ /\ Open(t) /\ answer = "denied"
            /\ turn' = [turn EXCEPT ![t] = "cancelled"]
            /\ events' = events \o <<told, Cancelled(t)>>
            /\ UNCHANGED script

-----------------------------------------------------------------------------
(* The requests of this client.  asked holds the requests the server has   *)
(* not taken up; its answer says up to where events were published then.   *)

Ask(request) ==
  /\ sends < MaxSends
  /\ sends' = sends + 1
  /\ asked' = asked \cup {request @@ [n |-> sends]}
  /\ UNCHANGED <<turn, approval, script, events, got, responses, late, losses>>

(* startTurn shows the message before the server knows of it. *)
StartTurn ==
  /\ Ask([to |-> "start", turn |-> None, answer |-> None])
  /\ view' = AppendEntry(view, UserEntry(sends))

CancelTurn ==
  /\ view.activeTurn # None
  /\ Ask([to |-> "cancel", turn |-> view.activeTurn, answer |-> None])
  /\ UNCHANGED view

(* Only an approval that is shown as pending has buttons. *)
RespondToApproval ==
  /\ \E a \in view.approvals, answer \in {"approved", "denied"} :
       /\ a.status = "pending"
       /\ Ask([to |-> "approve", turn |-> a.turn, answer |-> answer])
  /\ UNCHANGED view

(* setActiveThread, of the thread that is shown or after looking at        *)
(* another: thread/resume, whose answer changes nothing of what is         *)
(* modelled here, and memory/open_session after it.                        *)
SelectThread ==
  /\ Ask([to |-> "session", turn |-> None, answer |-> None])
  /\ UNCHANGED view

Response(request, ok, t) ==
  [to |-> request.to, n |-> request.n, ok |-> ok, turn |-> t,
   answer |-> request.answer, after |-> Len(events)]

(* The server takes a request up: everything it does, and the answer. *)
TakeUp(request) ==
  /\ asked' = asked \ {request}
  /\ \/ /\ request.to = "start"
        /\ RunTurn(NextTurn)
        /\ responses' = responses \cup {Response(request, TRUE, NextTurn)}
     \/ /\ request.to = "cancel"
        /\ EndTurn(request.turn)
        /\ responses' = responses \cup {Response(request, TRUE, request.turn)}
     \/ /\ request.to = "approve"
        /\ Resolve(request.turn, request.answer)
        /\ responses' = responses \cup {Response(request, TRUE, request.turn)}
     \/ /\ request.to = "session"
        /\ responses' = responses \cup {Response(request, TRUE, None)}
        /\ UNCHANGED <<turn, approval, script, events>>
     \/ /\ \/ request.to = "start" /\ \E t \in Turns : Open(t)
           \/ request.to = "cancel" /\ ~Open(request.turn)
        /\ responses' = responses \cup {Response(request, FALSE, request.turn)}
        /\ UNCHANGED <<turn, approval, script, events>>
  /\ UNCHANGED <<got, sends, late, losses, view>>

(* Another client of the same thread. *)
OtherClient ==
  /\ \/ RunTurn(NextTurn)
     \/ \E t \in Turns : EndTurn(t)
     \/ \E t \in Turns, answer \in {"approved", "denied"} : Open(t) /\ Resolve(t, answer)
  /\ UNCHANGED <<got, responses, asked, sends, late, losses, view>>

ThreadError(v) == AppendNotice(v, None, "error")

(* The catch of a request: respondToApproval has none, and a session that  *)
(* could not be read is told outside the transcript.                       *)
Rejected(v, r) == IF r.to \in {"start", "cancel"} THEN ThreadError(v) ELSE v

(* cancelTurn ends the turn with the answer, before the event comes; a     *)
(* session is as it was when the request was taken up.                     *)
Answered(v, r) ==
  CASE ~r.ok            -> Rejected(v, r)
    [] r.to = "start"   -> TurnStarted(v, r.turn)
    [] r.to = "cancel"  -> FinishTurn(v, r.turn, "cancelled")
    [] r.to = "approve" -> UpsertApproval(v, r.turn, r.answer)
    [] r.to = "session" -> MergeSessionTranscript(v, OpenSession(r.after))

(* The answer comes.  Where the time of the request was over before, it is *)
(* for nobody; the request was rejected then, which nothing else reads.    *)
ReceiveResponse(r) ==
  /\ responses' = responses \ {r}
  /\ \/ /\ view' = Answered(view, r)
        /\ UNCHANGED late
     \/ /\ losses + late < MaxMishaps
        /\ late' = late + 1
        /\ view' = Rejected(view, r)
  /\ UNCHANGED <<turn, approval, script, events, got, asked, sends, losses>>

ReceiveEvent ==
  /\ got < Len(events)
  /\ \A r \in responses : got < r.after
  /\ got' = got + 1
  /\ view' = Project(view, events[got + 1])
  /\ UNCHANGED <<turn, approval, script, events, responses, asked, sends, late, losses>>

(* The connection is lost and made again: events are not replayed, and the *)
(* requests without an answer are rejected.  What the server did for them  *)
(* is as if another client had asked.  Where nothing was on its way, the   *)
(* loss changes nothing.                                                   *)
LoseConnection ==
  /\ losses + late < MaxMishaps
  /\ got < Len(events) \/ asked \cup responses # {}
  /\ losses' = losses + 1
  /\ got' = Len(events)
  /\ responses' = {}
  /\ asked' = {}
  /\ view' = FoldSet(LAMBDA r, v : Rejected(v, r), view, asked \cup responses)
  /\ UNCHANGED <<turn, approval, script, events, sends, late>>

Next ==
  \/ StartTurn
  \/ CancelTurn
  \/ RespondToApproval
  \/ SelectThread
  \/ \E request \in asked : TakeUp(request)
  \/ OtherClient
  \/ \E r \in responses : ReceiveResponse(r)
  \/ ReceiveEvent
  \/ LoseConnection

Spec == Init /\ [][Next]_vars

-----------------------------------------------------------------------------
(* Properties. *)

TypeOK ==
  /\ turn \in [Turns -> Ended \cup {"none", "waiting"}]
  /\ approval \in [Turns -> {None, "pending", "approved", "denied"}]
  /\ got \in 0 .. Len(events)
  /\ view.activeTurn \in Turns \cup {None}

(* Nothing is on its way and no connection was lost. *)
Settled == losses = 0 /\ got = Len(events) /\ responses = {} /\ asked = {}

AssistantOf(t) == {e \in ToSet(view.entries) : IsAssistantOf(e, t)}

IsLive(entry) == entry.origin = 0

AnswerText(t) == IF turn[t] = "completed" THEN Said ELSE <<>>

(* The calls made in ended turns, under each identifier that of the last. *)
LastMade ==
  LET made(t) == IF turn[t] \in {"completed", "failed"} THEN ToSet(CallsMade(script[t])) ELSE {}
  IN  {<<t, c>> \in Turns \X {1, 2} :
         c \in made(t) /\ \A u \in Turns : u > t => c \notin made(u)}

(* Once every frame came, in whichever order responses and events did, and *)
(* whichever requests ran out of time, the page shows the thread as the    *)
(* server has it.  The turn that waits is the active one, every approval   *)
(* has its last answer, and every turn is shown with its end and its whole *)
(* answer, wherever it is shown: a thread that was selected again shows a  *)
(* turn once more, from its log, and one whose end was loaded before its   *)
(* events came shows it from there only.  Of the tool calls each           *)
(* identifier shows the last that had it, and none is shown as running     *)
(* (workbench.ts:472-769, 847-917, useLizRuntime.ts:183-330).              *)
ViewMatches ==
  Settled =>
    /\ \A t \in Turns : view.activeTurn = t <=> Open(t)
    /\ view.approvals = {[turn |-> t, status |-> approval[t]] :
                            t \in {u \in Turns : approval[u] # None}}
    /\ \A t \in Turns :
         /\ turn[t] = "none" <=> AssistantOf(t) = {}
         /\ \A e \in AssistantOf(t) :
              /\ e.status = IF Open(t) THEN "streaming" ELSE turn[t]
              /\ IsLive(e) \/ turn[t] = "completed" => e.text = AnswerText(t)
    /\ {<<view.calls[i].turn, view.calls[i].call>> : i \in DOMAIN view.calls} = LastMade
    /\ \A i \in DOMAIN view.calls : ~IsOpenCall(view.calls[i])

(* Identifiers, as far as they tell entries apart (workbench.ts:239, 738,  *)
(* 773).                                                                   *)
IdOf(entry) ==
  CASE ~IsLive(entry)             -> <<"session", entry.origin>>
    [] entry.kind = "user"        -> <<"user", entry.text[1]>>
    [] entry.kind = "assistant"   -> <<"assistant", entry.turn>>

(* At no moment is anything shown twice in the same way: a turn has one    *)
(* live answer, an entry of the log is loaded once however often the       *)
(* thread is selected (workbench.test.ts:289), a call is listed once.      *)
NothingTwice ==
  /\ Cardinality({IdOf(e) : e \in ToSet(view.entries)}) = Len(view.entries)
  /\ Cardinality({c.call : c \in ToSet(view.calls)}) = Len(view.calls)

(* At every moment, after a lost connection too, an end the page shows is  *)
(* true: a turn shown as completed, failed or cancelled ended that way,    *)
(* and an approval shown as answered was answered (useLizRuntime.ts:293    *)
(* applies a cancellation before its event).                               *)
ShownIsTrue ==
  /\ \A i \in DOMAIN view.entries :
       view.entries[i].kind = "assistant" /\ view.entries[i].status \in Ended
         => turn[view.entries[i].turn] = view.entries[i].status
  /\ \A a \in view.approvals : a.status # "pending" => approval[a.turn] \in {"approved", "denied"}

(* The page never shows an end that is not one, and in the end all there   *)
(* is to show (workbench.ts:472-717).                                      *)
PageInv == TypeOK /\ ViewMatches /\ NothingTwice /\ ShownIsTrue

(* Results and output stand at the call they belong to                     *)
(* (apps/liz-web/tests/workbench.test.ts: "groups tool lifecycle and       *)
(* executor output by call").                                              *)
ToolsByCall ==
  \A i \in DOMAIN view.calls :
    /\ view.calls[i].result \in {None, view.calls[i].call}
    /\ \A k \in DOMAIN view.calls[i].output : view.calls[i].output[k] = view.calls[i].call

=============================================================================

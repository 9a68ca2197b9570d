---------------------------- MODULE TelegramChannel ----------------------------
(***************************************************************************)
(* Turns that a Telegram chat starts beside those of other clients:        *)
(* TelegramAdapter (channels/telegram.rs) over the server's turn           *)
(* (server/mod.rs), the boundaries the owner sets for people               *)
(* (runtime/coordinator.rs) and what they let a turn be told (Disclosure). *)
(*                                                                         *)
(* handle_update borrows the server until it returns, so nobody else is    *)
(* served meanwhile, and a turn runs to its end inside turn/start: its     *)
(* events are all in the subscription when forwarding begins.  What the    *)
(* memory and the thread hold and what the model answers are inputs; the   *)
(* poller that feeds updates in is not in the repository.                  *)
(***************************************************************************)
EXTENDS Disclosure

CONSTANTS
  Chat,         \* chats
  User,         \* people, as their entries know them
  Senders,      \* who sends updates: people, or None when Telegram does not say
  Persons,      \* what the owner may save for a person
  Situations,   \* what memory and the thread may hold when a turn is told
  Askers,       \* participants and interaction contexts other clients send
  Answers,      \* what the model may answer
  DoneText,     \* "Completed turn"
  MaxTurns,     \* bound: turns
  MaxFaults,    \* bound: failures of storage and of the adapter's process
  MaxSaves      \* bound: edits of the people surface

ASSUME PersonsAssumption == None \notin Persons
ASSUME SituationsAssumption ==
  \A situation \in Situations :
    situation.memory.facts \in Seq(ToSet(situation.memory.facts))
ASSUME AnswersAssumption ==
  \A answer \in Answers :
    /\ answer.spoken \in Seq(ToSet(answer.spoken))
    /\ \A i \in DOMAIN answer.spoken : answer.spoken[i].kind \in {"chunk", "message"}

VARIABLES
  people,       \* snapshot.relationships
  threadOf,     \* chat_threads
  threads,      \* the chat each thread was started for, or None
  turns,        \* every turn that was started
  handling,     \* the update being handled: its chat and its subscription
  sent,         \* what was sent to chats
  faults, saves,
  saved,        \* the boundary last saved for a user, for the properties
  since         \* threads older than the process, for the properties

vars == <<people, threadOf, threads, turns, handling, sent, faults, saves, saved, since>>

Init ==
  /\ people = <<>>
  /\ threadOf = [c \in Chat |-> 0]
  /\ threads = <<>>
  /\ turns = <<>>
  /\ handling = None
  /\ sent = <<>>
  /\ faults = 0 /\ saves = 0
  /\ saved = [u \in User |-> None]
  /\ since = 0

-----------------------------------------------------------------------------
(* The people surface. *)

Edits == saves < MaxSaves /\ saves' = saves + 1 /\ handling = None

(* relationship_entry_from_boundary keeps of the kind of a person only     *)
(* what a stance left blank becomes; person_boundary_from_relationship     *)
(* guesses it back from the stance.                                        *)
Entry(u, person) ==
  [id |-> u, name |-> person.name, trust |-> person.trust, boundary |-> person.boundary,
   stance |-> CASE person.stance # Blank -> person.stance
                [] person.stance = Blank /\ person.kind = "external_agent" ->
                     "agent_task_scoped"
                [] OTHER -> "bounded_contact"]

IsAgent(entry) == "agent" \in Words(entry.stance)

BuildPeopleSurface ==
  [humans |-> Picked(people, {i \in DOMAIN people : ~IsAgent(people[i])}),
   agents |-> Picked(people, {i \in DOMAIN people : IsAgent(people[i])})]

(* upsert_people_surface: the entry of the person is replaced where it is, *)
(* and the list is sorted by display name, equal names in their old order. *)
Upserted_Appends(entry) == Append(people, entry)

Upserted(entry) ==
  LET i == Find(people, entry.id)
  IN  IF i = 0 THEN Append(people, entry) ELSE [people EXCEPT ![i] = entry]

SortsByName(order, entries) ==
  /\ order \in Bijection(DOMAIN entries, DOMAIN entries)
  /\ \A i, j \in DOMAIN entries : i < j =>
       \/ entries[order[i]].name < entries[order[j]].name
       \/ entries[order[i]].name = entries[order[j]].name /\ order[i] < order[j]

UpsertPeopleSurface(u, person) ==
  /\ Edits
  /\ person.kind \in {"human", "external_agent"}   \* people_boundary_actor_kind_invalid
  /\ LET entries == Upserted(Entry(u, person))
     IN  \E order \in [DOMAIN entries -> DOMAIN entries] :
           /\ SortsByName(order, entries)
           /\ people' = [i \in DOMAIN entries |-> entries[order[i]]]
  /\ saved' = [saved EXCEPT ![u] = person]
  /\ UNCHANGED <<threadOf, threads, turns, handling, sent, faults, since>>

DeletePeopleSurface(u) ==
  /\ Edits
  /\ \E i \in DOMAIN people : people[i].id = u          \* people_boundary_not_found
  /\ people' = Picked(people, {i \in DOMAIN people : people[i].id # u})
  /\ saved' = [saved EXCEPT ![u] = None]
  /\ UNCHANGED <<threadOf, threads, turns, handling, sent, faults, since>>

-----------------------------------------------------------------------------
(* A turn of the server. *)

Waits(th) == \E t \in DOMAIN turns : turns[t].thread = th /\ turns[t].stage = "waiting"

(* The turn as asked for, told what the store holds then. *)
Asked(th, chat, participant, context, situation) ==
  [thread |-> th, chat |-> chat, participant |-> participant, context |-> context,
   told |-> Assemble(situation.memory, situation.thread,
                     Resolve(people, participant, context)),
   under |-> IF participant \in User THEN saved[participant] ELSE None,
   stage |-> "waiting", approved |-> FALSE, said |-> <<>>, logged |-> None]

(* stream_model_turn: messages and the turn's last word pass the output    *)
(* policy of the context, chunks do not.                                   *)
Spoken(context, answer) ==
  [i \in DOMAIN answer.spoken |->
     LET e == answer.spoken[i]
     IN  [kind |-> e.kind,
          what |-> IF e.kind = "chunk" THEN Message("as_is", e.text)
                   ELSE ApplyOutputPolicy(context, e.text)]]

LastWord(context, answer) ==
  ApplyOutputPolicy(context, IF answer.last = None THEN DoneText ELSE answer.last)

Streamed(turn, context, answer) ==
  [turn EXCEPT !.said = Spoken(context, answer),
               !.stage = IF answer.fails THEN "failed" ELSE "completed",
               !.logged = IF answer.fails THEN None ELSE LastWord(context, answer)]

(* continue_turn_after_policy: a risky turn stops for the owner. *)
Continued(turn, risky, answer) ==
  IF risky THEN turn ELSE Streamed(turn, turn.context, answer)

(* What the event bus carries of a turn that went on, its bookkeeping left *)
(* out.                                                                    *)
Event(kind, what) == [kind |-> kind, what |-> what]

Published(turn) ==
  turn.said \o
    CASE turn.stage = "completed" -> <<Event("turn_completed", turn.logged)>>
      [] turn.stage = "failed" -> <<Event("turn_failed", Message("error", None))>>
      [] OTHER -> <<Event("approval_requested", None)>>

(* turn/start by another client, on a thread of its own or of a chat.      *)
ClientStartsTurn(th) ==
  \E asker \in Askers, situation \in Situations, risky \in BOOLEAN, answer \in Answers :
    /\ handling = None
    /\ Len(turns) < MaxTurns
    /\ ~Waits(th)                                       \* turn_already_running
    /\ turns' = Append(turns, Continued(
                   Asked(th, None, asker.participant, asker.context, situation),
                   risky, answer))
    /\ UNCHANGED <<people, threadOf, threads, handling, sent, faults, saves, saved, since>>

(* continue_after_approval: the turn is told again, for nobody in          *)
(* particular, and its output is not checked.                              *)
Approve(t) ==
  \E situation \in Situations, answer \in Answers :
    /\ handling = None
    /\ turns[t].stage = "waiting"
    /\ turns' = [turns EXCEPT ![t] = Streamed(
                   [@ EXCEPT !.told = Assemble(situation.memory, situation.thread,
                                               Resolve(people, None, None)),
                             !.approved = TRUE],
                   None, answer)]
    /\ UNCHANGED <<people, threadOf, threads, handling, sent, faults, saves, saved, since>>

(* The owner denies, or a client cancels. *)
Deny(t) ==
  /\ handling = None
  /\ turns[t].stage = "waiting"
  /\ turns' = [turns EXCEPT ![t].stage = "cancelled"]
  /\ UNCHANGED <<people, threadOf, threads, handling, sent, faults, saves, saved, since>>

-----------------------------------------------------------------------------
(* The adapter. *)

(* handle_update finds the thread of the chat or starts one, and remembers *)
(* it before the turn is started.                                          *)
ThreadFor(c) == IF threadOf[c] = 0 THEN Len(threads) + 1 ELSE threadOf[c]

FileThread(c) ==
  /\ threads' = IF threadOf[c] = 0 THEN Append(threads, c) ELSE threads
  /\ threadOf' = [threadOf EXCEPT ![c] = ThreadFor(c)]

(* from_update: an update without a sender is the chat's own.              *)
Participant(c, sender) == IF sender = None THEN c ELSE sender

(* turn/start succeeded; forwarding begins with the events published since *)
(* the subscription.                                                       *)
HandleUpdate(c) ==
  \E sender \in Senders, situation \in Situations, risky \in BOOLEAN, answer \in Answers :
    LET turn == Continued(
                  Asked(ThreadFor(c), c, Participant(c, sender), None, situation),
                  risky, answer)
    IN  /\ handling = None
        /\ Len(turns) < MaxTurns
        /\ ~Waits(ThreadFor(c))
        /\ FileThread(c)
        /\ turns' = Append(turns, turn)
        /\ handling' = [chat |-> c, turn |-> Len(turns) + 1,
                        queue |-> <<Event("other", None)>> \o Published(turn)]
        /\ UNCHANGED <<people, sent, faults, saves, saved, since>>

(* turn/start failed: the thread is kept, the update is not answered. *)
UpdateFails_DropsThread(c) ==
  /\ handling = None
  /\ faults < MaxFaults
  /\ threads' = IF threadOf[c] = 0 THEN Append(threads, c) ELSE threads
  /\ faults' = faults + 1
  /\ UNCHANGED <<people, threadOf, turns, handling, sent, saves, saved, since>>

UpdateFails(c) ==
  /\ handling = None
  /\ faults < MaxFaults
  /\ FileThread(c)
  /\ faults' = faults + 1
  /\ UNCHANGED <<people, turns, handling, sent, saves, saved, since>>

(* One event of forward_assistant_events. *)
Returns == handling' = None
Reads   == handling' = [handling EXCEPT !.queue = Tail(@)]

Sends(what) ==
  sent' = Append(sent, [chat |-> handling.chat, turn |-> handling.turn, what |-> what])

Forward ==
  /\ handling # None
  /\ handling.queue # <<>>
  /\ LET e == Head(handling.queue)
     IN  \/ /\ e.kind \in {"chunk", "message"} /\ e.what.text # Blank
            /\ Sends(e.what) /\ Reads
         \/ /\ e.kind = "turn_failed"
            /\ Sends(e.what) /\ Returns
         \/ /\ e.kind = "turn_completed"
            /\ Returns /\ UNCHANGED sent
         \/ /\ \/ e.kind \in {"other", "approval_requested"}
               \/ e.kind \in {"chunk", "message"} /\ e.what.text = Blank
            /\ Reads /\ UNCHANGED sent
  /\ UNCHANGED <<people, threadOf, threads, turns, faults, saves, saved, since>>

(* send_markdown failed: the update is given up. *)
SendFails ==
  /\ handling # None
  /\ handling.queue # <<>>
  /\ Head(handling.queue).kind \in {"chunk", "message", "turn_failed"}
  /\ faults < MaxFaults
  /\ faults' = faults + 1
  /\ Returns
  /\ UNCHANGED <<people, threadOf, threads, turns, sent, saves, saved, since>>

(* event_timeout has passed; the loop looks at the clock between events. *)
TimesOut_WhenDrained ==
  /\ handling # None
  /\ handling.queue = <<>>
  /\ turns[handling.turn].stage # "waiting"
  /\ Returns
  /\ UNCHANGED <<people, threadOf, threads, turns, sent, faults, saves, saved, since>>

TimesOut ==
  /\ handling # None
  /\ Returns
  /\ UNCHANGED <<people, threadOf, threads, turns, sent, faults, saves, saved, since>>

(* The process ends: threads are stored, chat_threads and the turns that   *)
(* wait are not.                                                           *)
Restart ==
  /\ faults < MaxFaults
  /\ faults' = faults + 1
  /\ threadOf' = [c \in Chat |-> 0]
  /\ since' = Len(threads)
  /\ turns' = [t \in DOMAIN turns |->
                 IF turns[t].stage = "waiting" THEN [turns[t] EXCEPT !.stage = "lost"]
                 ELSE turns[t]]
  /\ handling' = None
  /\ UNCHANGED <<people, threads, sent, saves, saved>>

Adapter == Forward \/ TimesOut

Next ==
  \/ \E u \in User, p \in Persons : UpsertPeopleSurface(u, p)
  \/ \E u \in User : DeletePeopleSurface(u)
  \/ \E th \in DOMAIN threads : ClientStartsTurn(th)
  \/ \E t \in DOMAIN turns : Approve(t) \/ Deny(t)
  \/ \E c \in Chat : HandleUpdate(c) \/ UpdateFails(c)
  \/ Adapter \/ SendFails \/ Restart

Spec     == Init /\ [][Next]_vars
FairSpec == Spec /\ WF_vars(Adapter)

-----------------------------------------------------------------------------
(* Properties. *)

TypeOK ==
  /\ threadOf \in [Chat -> 0 .. Len(threads)]
  /\ \A th \in DOMAIN threads : threads[th] \in Chat
  /\ \A t \in DOMAIN turns :
       /\ turns[t].thread \in DOMAIN threads
       /\ turns[t].stage \in {"waiting", "completed", "failed", "cancelled", "lost"}
  /\ handling = None \/ handling.turn \in DOMAIN turns
  /\ since \in 0 .. Len(threads)

(* While the process lives, a chat has one thread, also when the update    *)
(* that started it failed.                                                 *)
OneThreadPerChat ==
  \A i, j \in since + 1 .. Len(threads) : threads[i] = threads[j] => i = j

(* A chat is sent what the turns of its own updates said, in the order of  *)
(* the updates, each part once: the parts sent of a turn are the first     *)
(* ones it said.  What other clients start on the chat's thread, and what  *)
(* an approved turn says later, is not sent.                               *)
Sayings(t) ==
  Picked(turns[t].said, {i \in DOMAIN turns[t].said : turns[t].said[i].what.text # Blank})

SentOf(t) ==
  Picked(sent, {i \in DOMAIN sent : sent[i].turn = t /\ sent[i].what.form # "error"})

IsFirstOf(parts, said) ==
  /\ Len(parts) <= Len(said)
  /\ \A i \in DOMAIN parts : parts[i].what = said[i].what

ToldInOrder ==
  /\ \A i \in DOMAIN sent : turns[sent[i].turn].chat = sent[i].chat
  /\ \A i, j \in DOMAIN sent : i < j => sent[i].turn <= sent[j].turn
  /\ \A t \in DOMAIN turns : IsFirstOf(SentOf(t), Sayings(t))

ChannelInv == TypeOK /\ OneThreadPerChat /\ ToldInOrder

(* The resident layer a person's turn is told keeps to the boundary the    *)
(* owner saved last for that person, however often it was replaced or      *)
(* removed.                                                                *)
KeepsTo(b, told) ==
  IF b = None THEN told = {}
  ELSE \A text \in told :
         \/ b.trust = "owner"
         \/ b.trust = "trusted" /\ Words(text) \cap (b.boundary.forbidden \ {Blank}) = {}

BoundaryInForce ==
  \A t \in DOMAIN turns :
    turns[t].context = None /\ turns[t].participant \in User \ {Owner} /\ ~turns[t].approved
      => KeepsTo(turns[t].under, turns[t].told.resident)

(* What clients see as the turn's message and what its log keeps passed    *)
(* the same check: a message that needs the owner's word is in neither,    *)
(* unless the owner let the turn go on.                                    *)
OwnerAskedFirst ==
  \A t \in DOMAIN turns :
    turns[t].context # None /\ turns[t].context.confirm /\ ~turns[t].approved =>
      /\ turns[t].logged # None => turns[t].logged.form = "needs_owner"
      /\ \A i \in DOMAIN turns[t].said :
           turns[t].said[i].kind = "message" => turns[t].said[i].what.form = "needs_owner"

(* Whoever the owner saved is shown on the people surface once, in one of  *)
(* its two lists, as saved; nobody else is shown.                          *)
ShownAsSaved ==
  LET surface == BuildPeopleSurface
      shown   == surface.humans \o surface.agents
  IN  \A u \in User :
        LET mine == {i \in DOMAIN shown : shown[i].id = u}
        IN  IF saved[u] = None THEN mine = {}
            ELSE \E i \in DOMAIN shown :
                   /\ mine = {i}
                   /\ shown[i].boundary = saved[u].boundary
                   /\ shown[i].trust = saved[u].trust

DisclosureInv == BoundaryInForce /\ OwnerAskedFirst /\ ShownAsSaved

(* An update is given an end, although a turn that waits for the owner     *)
(* publishes none: the adapter is free for the next chat.                  *)
UpdatesSettle == handling # None ~> handling = None

(* The source says of forbidden topics "Topics that must never be          *)
(* disclosed to this relationship."                                        *)
ForbiddenNeverTold ==
  \A t \in DOMAIN turns :
    turns[t].under # None /\ turns[t].under.trust # "owner" /\ turns[t].context = None =>
      \A text \in turns[t].told.resident \cup turns[t].told.projected :
        Words(text) \cap turns[t].under.boundary.forbidden = {}

=============================================================================

--------------------------- MODULE TurnLifecycle ---------------------------
(***************************************************************************)
(* Threads, turns and approvals of liz-app-server: AppServer (server/mod), *)
(* its request handlers, RuntimeCoordinator, ThreadManager and TurnManager.*)
(*                                                                         *)
(* One mutex guards the whole AppServer, so one request is served at a     *)
(* time, model turn included.  What interleaves with a request is what no  *)
(* lock holds back: the end of the process and the failure of any read or  *)
(* write of the store.  A request is therefore a job that advances from    *)
(* one access of the store to the next, and IoFails and Restart can cut it *)
(* anywhere, in the middle of a write too: files are rewritten in place,   *)
(* log entries are written apart from their newlines, and a file that does *)
(* not parse fails every later read of it.                                 *)
(*                                                                         *)
(* Left to other modules: node and mount resolution, the content of the    *)
(* global memory, delivery of events.  They change none of the state below.*)
(***************************************************************************)
EXTENDS Naturals, Sequences, FiniteSets

CONSTANTS
  Thread,          \* thread identifiers the store can hold
  Turn,            \* turn identifiers the generator can hand out
  Goal,            \* trimmed turn inputs
  Risks,           \* risk levels the inputs are classified to
  Mentions,        \* <<h, g>>: the commitment text written for h contains g
  None,            \* absence of a thread record, a turn or an identifier
  MaxToolEntries,  \* bound: tool entries in one thread's log
  MaxResumes,      \* bound: times one turn is resumed by an approval
  MaxFaults,       \* bound: failed store accesses
  MaxCrashes       \* bound: ends of the process

ASSUME MentionsAssumption ==
  /\ Mentions \subseteq Goal \X Goal
  /\ \A g \in Goal : <<g, g>> \in Mentions
ASSUME RisksAssumption == Risks \subseteq {"low", "medium", "high"}
ASSUME BoundsAssumption ==
  MaxToolEntries \in Nat /\ MaxResumes \in Nat /\ MaxFaults \in Nat /\ MaxCrashes \in Nat

VARIABLES
  \* on disk
  thread,          \* Thread -> thread projection or None
  log,             \* Thread -> append-only turn log
  listed,          \* active_thread_ids of the global memory snapshot
  checkpoint,      \* turns a checkpoint was written for
  dangling,        \* threads whose log ends in an entry without its newline
  torn,            \* files that do not parse any more
  \* in memory
  open,            \* Turn -> status in active_turns, "none" when absent
  nextSeq,         \* Thread -> next_sequence entry, or None
  approval,        \* Turn -> status of the approval request made for it
  policy,          \* the runtime's approval policy
  job,             \* the request being served
  \* what a turn is, fixed when its identifier is handed out
  request,         \* Turn -> [thread, goal, risk] or None
  \* history
  ran,             \* Turn -> times it was handed to the model
  published,       \* turn events on the event bus, as <<event, turn>>
  faults,
  crashes

disk   == <<thread, log, listed, checkpoint, dangling, torn>>
memory == <<open, nextSeq, approval, policy>>
ghosts == <<ran, published>>
limits == <<faults, crashes>>
vars   == <<disk, memory, job, request, ghosts, limits>>

-----------------------------------------------------------------------------
(* Data *)

Policy       == {"on-request", "danger-full-access"}
Decision     == {"approve", "deny"}
ThreadStatus == {"active", "waiting_approval", "interrupted", "failed"}
TurnStatus   == {"none", "running", "waiting_approval"}

ThreadRecord ==
  [status      : ThreadStatus,
   latest      : Turn \cup {None},
   interrupted : BOOLEAN,
   commitments : SUBSET Goal,
   checkpoint  : Turn \cup {None}]

TerminalEvent  == {"turn_completed", "turn_failed", "turn_cancelled"}
LifecycleEvent == TerminalEvent \cup
                  {"turn_started", "approval_wait", "approval_resolved"}
LogEntry ==
  [seq : Nat, turn : Turn \cup {None}, event : LifecycleEvent \cup {"tool_completed"}]

(* A job writes, in this order: a log entry, the thread projection, the    *)
(* list of active threads.  Which of them, its "op" says.                  *)
ThreadOp == {"thread_started", "thread_resumed", "thread_forked"}
SyncOp   == ThreadOp \cup {"turn_started"}
Op       == ThreadOp \cup LifecycleEvent \cup Decision

PublishedEvent == TerminalEvent \cup Decision \cup {"turn_started", "approval_requested"}

Step == {"append", "put", "sync", "done",                    \* a projection
         "policy", "checkpoint", "checkpoint_thread", "wait", \* after a start
         "answered", "resumed", "stream"}                     \* after an answer

JobRecord ==
  [at : Step \cup {"idle"}, op : Op \cup {"none"},
   thread : Thread \cup {None}, turn : Turn \cup {None}, draft : ThreadRecord]

RequestRecord == [thread : Thread, goal : Goal, risk : Risks]

ASSUME NoneAssumption ==
  None \notin Thread \cup Turn \cup Goal \cup ThreadRecord \cup RequestRecord

NoRecord == [status |-> "active", latest |-> None, interrupted |-> FALSE,
             commitments |-> {}, checkpoint |-> None]

Idle == [at |-> "idle", op |-> "none", thread |-> None, turn |-> None, draft |-> NoRecord]

Job(at, op, th, t, draft) ==
  [at |-> at, op |-> op, thread |-> th, turn |-> t, draft |-> draft]

(* A turn transition goes to the log first, to the projection second.      *)
Transition_Unlogged(op, th, t, draft) == Job("put", op, th, t, draft)
Transition(op, th, t, draft) == Job("append", op, th, t, draft)

At(step) == job.at = step

(* Files a reader may find torn; a log counts as one file.                 *)
ThreadFile(th) == <<"thread", th>>
LogFile(th)    == <<"log", th>>
MemoryFile     == <<"memory", None>>
File == ({"thread", "log"} \X Thread) \cup {MemoryFile}

Created  == {th \in Thread : thread[th] # None}
Readable == {th \in Created : ThreadFile(th) \notin torn}
Unused(th) == thread[th] = None /\ ThreadFile(th) \notin torn

(* TurnManager::thread_has_running_turn *)
OpenTurns(th) == {t \in Turn : open[t] # "none" /\ request[t].thread = th}
Startable_IgnoresWaiting(th) == \A t \in OpenTurns(th) : open[t] # "running"
Startable(th) == OpenTurns(th) = {}

InActiveTurns_Any(t) == request[t] # None
InActiveTurns(t) == open[t] # "none"

Removed_Kept(t) == open
Removed(t) == [open EXCEPT ![t] = "none"]

LastSeq(entries) == IF entries = <<>> THEN 0 ELSE entries[Len(entries)].seq

NextSequence_NotRecovered(th) == (IF nextSeq[th] = None THEN 0 ELSE nextSeq[th]) + 1

(* The counter of a thread is loaded from the last entry on first use.     *)
NextSequence(th) ==
  (IF nextSeq[th] = None THEN LastSeq(log[th]) ELSE nextSeq[th]) + 1

(* A tool entry is numbered by the length of the log.                      *)
NextToolSequence(th) == Len(log[th]) + 1

ToolEntries(th) == {i \in DOMAIN log[th] : log[th][i].event = "tool_completed"}

Resumes(t) ==
  LET entries == log[request[t].thread] IN
  {i \in DOMAIN entries : entries[i].event = "approval_resolved" /\ entries[i].turn = t}

LifecycleEntry == [seq |-> NextSequence(job.thread), turn |-> job.turn, event |-> job.op]
ToolEntry(th, t) == [seq |-> NextToolSequence(th), turn |-> t, event |-> "tool_completed"]

(* FsTurnLog::append_entry.  An entry after a dangling one shares its line.*)
AppendEntry(th, e) ==
  /\ LogFile(th) \notin torn                   \* its sequence is read from the log
  /\ log'  = [log EXCEPT ![th] = Append(@, e)]
  /\ torn' = IF th \in dangling THEN torn \cup {LogFile(th)} ELSE torn

(* The files the next step of the job reads.  A thread file is read at the *)
(* start of a request and stays whole until that request ends.             *)
Needed(f) ==
  \/ f = LogFile(job.thread)    /\ job.at \in {"append", "policy", "resumed"}
  \/ f = ThreadFile(job.thread) /\ job.at = "answered"
  \/ f = MemoryFile             /\ job.at \in {"sync", "policy", "resumed"}

CanRead == \A f \in torn : ~Needed(f)

Ended(t) ==
  \E th \in Thread : \E i \in DOMAIN log[th] :
    log[th][i].turn = t /\ log[th][i].event \in TerminalEvent

Publish(event, t) == published' = published \cup {<<event, t>>}

-----------------------------------------------------------------------------
(* Thread requests *)

Init ==
  /\ thread     = [th \in Thread |-> None]
  /\ log        = [th \in Thread |-> <<>>]
  /\ listed     = {}
  /\ checkpoint = {}
  /\ dangling   = {}
  /\ torn       = {}
  /\ open       = [t \in Turn |-> "none"]
  /\ nextSeq    = [th \in Thread |-> None]
  /\ approval   = [t \in Turn |-> "none"]
  /\ policy     = "on-request"
  /\ job        = Idle
  /\ request    = [t \in Turn |-> None]
  /\ ran        = [t \in Turn |-> 0]
  /\ published  = {}
  /\ faults     = 0
  /\ crashes    = 0

StartThread(th) ==
  /\ At("idle")
  /\ Unused(th)
  /\ job' = Job("put", "thread_started", th, None, NoRecord)
  /\ UNCHANGED <<disk, memory, request, ghosts, limits>>

(* The status becomes active whatever it was and whatever turn is open.    *)
ResumeThread(th) ==
  /\ At("idle")
  /\ th \in Readable
  /\ job' = Job("put", "thread_resumed", th, None, [thread[th] EXCEPT !.status = "active"])
  /\ UNCHANGED <<disk, memory, request, ghosts, limits>>

ForkedThread_SameTurn(rec) == [rec EXCEPT !.status = "active"]
ForkedThread(rec) == [rec EXCEPT !.status = "active", !.latest = None]

ForkThread(parent, child) ==
  /\ At("idle")
  /\ parent \in Readable
  /\ Unused(child)
  /\ job' = Job("put", "thread_forked", child, None, ForkedThread(thread[parent]))
  /\ UNCHANGED <<disk, memory, request, ghosts, limits>>

UpdateRuntimeConfig(p) ==
  /\ At("idle")
  /\ policy' = p
  /\ UNCHANGED <<disk, open, nextSeq, approval, job, request, ghosts, limits>>

(* A tool called by a client outside any turn leaves its entry in the log; *)
(* the thread file is not needed for it.                                   *)
AppendToolEntry(th, t) ==
  /\ Cardinality(ToolEntries(th)) < MaxToolEntries
  /\ AppendEntry(th, ToolEntry(th, t))
  /\ UNCHANGED <<thread, listed, checkpoint, dangling>>

CallTool(th) ==
  /\ At("idle")
  /\ th \in Created
  /\ AppendToolEntry(th, None)
  /\ UNCHANGED <<memory, job, request, ghosts, limits>>

-----------------------------------------------------------------------------
(* Projections a turn transition writes to its thread *)

StartedThread_ForgetsAll(rec, t, g) ==
  [rec EXCEPT !.status = "active", !.latest = t, !.interrupted = FALSE, !.commitments = {}]

StartedThread(rec, t, g) ==
  [rec EXCEPT !.status      = "active",
              !.latest      = t,
              !.interrupted = FALSE,
              !.commitments = {h \in @ : <<h, g>> \notin Mentions}]

InterruptedThread(rec, t, g) ==
  [rec EXCEPT !.status      = "interrupted",
              !.latest      = t,
              !.interrupted = TRUE,
              !.commitments = @ \cup {g}]

WaitingThread(rec, t) == [rec EXCEPT !.status = "waiting_approval", !.latest = t]
RunningThread(rec, t) == [rec EXCEPT !.status = "active", !.latest = t]
FailedThread(rec, t)  == [rec EXCEPT !.status = "failed", !.latest = t]
CompletedThread(rec, t) ==
  [rec EXCEPT !.status = "active", !.latest = t, !.interrupted = FALSE]

-----------------------------------------------------------------------------
(* Turn requests *)

StartTurn(th, t, g, r) ==
  /\ At("idle")
  /\ th \in Readable
  /\ Startable(th)                                   \* turn_already_running
  /\ request[t] = None
  /\ request' = [request EXCEPT ![t] = [thread |-> th, goal |-> g, risk |-> r]]
  /\ job' = Transition("turn_started", th, t, StartedThread(thread[th], t, g))
  /\ UNCHANGED <<disk, memory, ghosts, limits>>

(* TurnManager::cancel_turn: the turn leaves active_turns before anything  *)
(* is written.                                                             *)
BeginCancel(th, t) ==
  /\ th \in Readable
  /\ InActiveTurns(t)                                \* turn_not_found
  /\ request[t].thread = th                          \* turn_thread_mismatch
  /\ open' = Removed(t)
  /\ job' = Transition("turn_cancelled", th, t,
                InterruptedThread(thread[th], t, request[t].goal))
  /\ UNCHANGED <<disk, nextSeq, approval, policy, request, ghosts, limits>>

CancelTurn(th, t) ==
  /\ At("idle")
  /\ BeginCancel(th, t)

(* RuntimeCoordinator::respond_approval overwrites any earlier answer.     *)
RespondApproval(t, d) ==
  /\ At("idle")
  /\ approval[t] # "none"                            \* approval_not_found
  /\ d = "approve" => Cardinality(Resumes(t)) < MaxResumes
  /\ approval' = [approval EXCEPT ![t] = IF d = "deny" THEN "denied" ELSE "approved"]
  /\ Publish(d, t)
  /\ job' = Job("answered", d, request[t].thread, t, NoRecord)
  /\ UNCHANGED <<disk, open, nextSeq, policy, request, ran, limits>>

-----------------------------------------------------------------------------
(* Writing a transition *)

CountUp == nextSeq' = [nextSeq EXCEPT ![job.thread] = NextSequence(job.thread)]

AppendTurnLog ==
  /\ At("append")
  /\ AppendEntry(job.thread, LifecycleEntry)
  /\ CountUp
  /\ job' = [job EXCEPT !.at = "put"]
  /\ UNCHANGED <<thread, listed, checkpoint, dangling, open, approval, policy,
                 request, ghosts, limits>>

PutThread ==
  /\ At("put")
  /\ thread' = [thread EXCEPT ![job.thread] = job.draft]
  /\ job' = [job EXCEPT !.at = IF job.op \in SyncOp THEN "sync" ELSE "done"]
  /\ UNCHANGED <<log, listed, checkpoint, dangling, torn, memory, request, ghosts, limits>>

SyncActiveThreadIds ==
  /\ At("sync")
  /\ CanRead
  /\ listed' = listed \cup {job.thread}
  /\ job' = [job EXCEPT !.at = "done"]
  /\ UNCHANGED <<thread, log, checkpoint, dangling, torn, memory, request, ghosts, limits>>

(* The transition is written: what the handler does next.                  *)
FinishThread ==
  /\ At("done") /\ job.op \in ThreadOp
  /\ job' = Idle
  /\ UNCHANGED <<disk, memory, request, ghosts, limits>>

FinishStart ==
  /\ At("done") /\ job.op = "turn_started"
  /\ open' = [open EXCEPT ![job.turn] = "running"]
  /\ Publish("turn_started", job.turn)
  /\ job' = Job("policy", "turn_started", job.thread, job.turn, NoRecord)
  /\ UNCHANGED <<disk, nextSeq, approval, policy, request, ran, limits>>

FinishWait_Unrecorded ==
  /\ At("done") /\ job.op = "approval_wait"
  /\ Publish("approval_requested", job.turn)
  /\ job' = Idle
  /\ UNCHANGED <<disk, memory, request, ran, limits>>

FinishWait ==
  /\ At("done") /\ job.op = "approval_wait"
  /\ approval' = [approval EXCEPT ![job.turn] = "pending"]
  /\ Publish("approval_requested", job.turn)
  /\ job' = Idle
  /\ UNCHANGED <<disk, open, nextSeq, policy, request, ran, limits>>

FinishResume ==
  /\ At("done") /\ job.op = "approval_resolved"
  /\ job' = Job("resumed", "approval_resolved", job.thread, job.turn, NoRecord)
  /\ UNCHANGED <<disk, memory, request, ghosts, limits>>

FinishEnd ==
  /\ At("done") /\ job.op \in TerminalEvent
  /\ Publish(job.op, job.turn)
  /\ job' = Idle
  /\ UNCHANGED <<disk, memory, request, ran, limits>>

-----------------------------------------------------------------------------
(* After a started turn: policy, checkpoint, approval *)

NeedsApproval_Inverted(t) == policy # "on-request" /\ request[t].risk = "high"
NeedsApproval(t) == policy = "on-request" /\ request[t].risk = "high"

HandToModel(th, t) ==
  /\ ran' = [ran EXCEPT ![t] = @ + 1]
  /\ job' = Job("stream", "none", th, t, NoRecord)

EvaluatePolicy ==
  /\ At("policy")
  /\ CanRead
  /\ IF NeedsApproval(job.turn)
       THEN /\ job' = [job EXCEPT !.at = "checkpoint"]
            /\ UNCHANGED ran
       ELSE HandToModel(job.thread, job.turn)
  /\ UNCHANGED <<disk, memory, request, published, limits>>

PutCheckpoint ==
  /\ At("checkpoint")
  /\ checkpoint' = checkpoint \cup {job.turn}
  /\ job' = [job EXCEPT !.at = "checkpoint_thread"]
  /\ UNCHANGED <<thread, log, listed, dangling, torn, memory, request, ghosts, limits>>

PutCheckpointOnThread ==
  /\ At("checkpoint_thread")
  /\ thread' = [thread EXCEPT ![job.thread].checkpoint = job.turn]
  /\ job' = [job EXCEPT !.at = "wait"]
  /\ UNCHANGED <<log, listed, checkpoint, dangling, torn, memory, request, ghosts, limits>>

(* The turn waits in memory before the wait is on disk.                    *)
MarkWaitingApproval ==
  /\ At("wait")
  /\ InActiveTurns(job.turn)
  /\ open' = [open EXCEPT ![job.turn] = "waiting_approval"]
  /\ job' = Transition("approval_wait", job.thread, job.turn,
                WaitingThread(thread[job.thread], job.turn))
  /\ UNCHANGED <<disk, nextSeq, approval, policy, request, ghosts, limits>>

-----------------------------------------------------------------------------
(* After an answered approval *)

(* Any open turn is set running: mark_running does not look at its status. *)
MarkRunning ==
  /\ At("answered") /\ job.op = "approve"
  /\ CanRead
  /\ InActiveTurns(job.turn)
  /\ open' = [open EXCEPT ![job.turn] = "running"]
  /\ job' = Transition("approval_resolved", job.thread, job.turn,
                RunningThread(thread[job.thread], job.turn))
  /\ UNCHANGED <<disk, nextSeq, approval, policy, request, ghosts, limits>>

CancelDenied ==
  /\ At("answered") /\ job.op = "deny"
  /\ BeginCancel(job.thread, job.turn)

AnswerTooLate_OnlyDenied ==
  /\ At("answered") /\ job.op = "deny"
  /\ ~InActiveTurns(job.turn)
  /\ job' = Idle
  /\ UNCHANGED <<disk, memory, request, ghosts, limits>>

(* The turn is gone: the answer is recorded and nothing follows.           *)
AnswerTooLate ==
  /\ At("answered")
  /\ ~InActiveTurns(job.turn)
  /\ job' = Idle
  /\ UNCHANGED <<disk, memory, request, ghosts, limits>>

ResumeApproved ==
  /\ At("resumed")
  /\ CanRead
  /\ HandToModel(job.thread, job.turn)
  /\ UNCHANGED <<disk, memory, request, published, limits>>

-----------------------------------------------------------------------------
(* The model turn: rounds of tool calls, then an answer or an error *)

RunTool ==
  /\ At("stream")
  /\ AppendToolEntry(job.thread, job.turn)
  /\ UNCHANGED <<memory, job, request, ghosts, limits>>

EndTurn(event, draft) ==
  /\ At("stream")
  /\ InActiveTurns(job.turn)
  /\ open' = Removed(job.turn)
  /\ job' = Transition(event, job.thread, job.turn, draft)
  /\ UNCHANGED <<disk, nextSeq, approval, policy, request, ghosts, limits>>

CompleteTurn == EndTurn("turn_completed", CompletedThread(thread[job.thread], job.turn))
FailTurn     == EndTurn("turn_failed", FailedThread(thread[job.thread], job.turn))

-----------------------------------------------------------------------------
(* What cuts a job short *)

(* A file the next step reads does not parse: the handler returns there,   *)
(* with an error before the response is made, silently afterwards.         *)
ReadFails ==
  /\ ~CanRead
  /\ job' = Idle
  /\ UNCHANGED <<disk, memory, request, ghosts, limits>>

(* What a write cut short leaves: of an entry, a part of it or all but the *)
(* newline; of a file rewritten in place, one that does not parse.         *)
CutEntry(th, e) ==
  /\ LogFile(th) \notin torn
  /\ \/ /\ torn' = torn \cup {LogFile(th)}
        /\ UNCHANGED <<log, dangling>>
     \/ /\ AppendEntry(th, e)
        /\ dangling' = dangling \cup {th}
  /\ UNCHANGED <<thread, listed, checkpoint>>

CutAppend == At("append") /\ CutEntry(job.thread, LifecycleEntry)

CutTool ==
  \E th \in Created, t \in Turn \cup {None} :
    /\ \/ At("idle") /\ t = None
       \/ At("stream") /\ t = job.turn /\ th = job.thread
    /\ Cardinality(ToolEntries(th)) < MaxToolEntries
    /\ CutEntry(th, ToolEntry(th, t))

(* Requests about memory, and its compilation after a turn, rewrite the    *)
(* memory file while this module's job is idle.                            *)
CutFile ==
  /\ \/ job.at \in {"put", "checkpoint_thread"} /\ torn' = torn \cup {ThreadFile(job.thread)}
     \/ job.at \in {"idle", "sync"} /\ torn' = torn \cup {MemoryFile}
  /\ UNCHANGED <<thread, log, listed, checkpoint, dangling>>

(* A store access fails: the handler returns, except that the model is     *)
(* told of the failure of a tool and its turn goes on.  An append that     *)
(* fails has used up its sequence number.                                  *)
FailAccess == job.at \in Step \ {"done"} /\ job' = Idle /\ UNCHANGED <<disk, nextSeq>>
FailAppend == At("append") /\ CanRead /\ (CutAppend \/ UNCHANGED disk) /\ CountUp /\ job' = Idle
FailTool   == CutTool /\ UNCHANGED <<nextSeq, job>>
FailFile   == CutFile /\ job' = Idle /\ UNCHANGED nextSeq

IoFails ==
  /\ faults < MaxFaults
  /\ FailAccess \/ FailAppend \/ FailTool \/ FailFile
  /\ faults' = faults + 1
  /\ UNCHANGED <<open, approval, policy, request, ghosts, crashes>>

(* The process ends, with or without a write under way, and a new one      *)
(* starts on the same store.                                               *)
Restart ==
  /\ crashes < MaxCrashes
  /\ CutAppend \/ CutTool \/ CutFile \/ UNCHANGED disk
  /\ crashes'  = crashes + 1
  /\ open'     = [t \in Turn |-> "none"]
  /\ nextSeq'  = [th \in Thread |-> None]
  /\ approval' = [t \in Turn |-> "none"]
  /\ policy'   = "on-request"
  /\ job'      = Idle
  /\ UNCHANGED <<request, ghosts, faults>>

-----------------------------------------------------------------------------
(* Requests come from clients; the job steps are the server's own.         *)
Client ==
  \/ \E th \in Thread : StartThread(th) \/ ResumeThread(th) \/ CallTool(th)
  \/ \E parent, child \in Thread : ForkThread(parent, child)
  \/ \E th \in Thread, t \in Turn, g \in Goal, r \in Risks : StartTurn(th, t, g, r)
  \/ \E th \in Thread, t \in Turn : CancelTurn(th, t)
  \/ \E t \in Turn, d \in Decision : RespondApproval(t, d)
  \/ \E p \in Policy : UpdateRuntimeConfig(p)

Write  == AppendTurnLog \/ PutThread \/ SyncActiveThreadIds
Finish == FinishThread \/ FinishStart \/ FinishWait \/ FinishResume \/ FinishEnd
Gate   == EvaluatePolicy \/ PutCheckpoint \/ PutCheckpointOnThread \/ MarkWaitingApproval
Answer == MarkRunning \/ CancelDenied \/ AnswerTooLate \/ ResumeApproved
Model  == CompleteTurn \/ FailTurn

Server == Write \/ Finish \/ Gate \/ Answer \/ Model \/ ReadFails

Next == Client \/ Server \/ RunTool \/ IoFails \/ Restart

Spec == Init /\ [][Next]_vars

(* The thread that holds the lock keeps running, and the provider answers  *)
(* in the end.                                                             *)
FairSpec == Spec /\ WF_vars(Server)

-----------------------------------------------------------------------------
(* Properties that hold whatever fails or ends *)

TypeOK ==
  /\ thread     \in [Thread -> ThreadRecord \cup {None}]
  /\ log        \in [Thread -> Seq(LogEntry)]
  /\ listed     \subseteq Thread
  /\ checkpoint \subseteq Turn
  /\ dangling   \subseteq Thread
  /\ torn       \subseteq File
  /\ open       \in [Turn -> TurnStatus]
  /\ nextSeq    \in [Thread -> Nat \cup {None}]
  /\ approval   \in [Turn -> {"none", "pending", "approved", "denied"}]
  /\ policy     \in Policy
  /\ job        \in JobRecord
  /\ request    \in [Turn -> RequestRecord \cup {None}]
  /\ ran        \in [Turn -> Nat]
  /\ published  \subseteq PublishedEvent \X Turn
  /\ faults     \in 0..MaxFaults
  /\ crashes    \in 0..MaxCrashes

(* A thread never has two turns in active_turns: start_turn refuses while  *)
(* one runs or waits, and no later transition brings a turn back.          *)
OneOpenTurn ==
  \A t, u \in Turn :
    open[t] # "none" /\ open[u] # "none" /\ request[t].thread = request[u].thread => t = u

(* Once the log says how a turn ended, the turn is not in active_turns:    *)
(* a late answer, a second cancel or a restart cannot run it again.        *)
EndedStaysEnded == \A t \in Turn : Ended(t) => open[t] = "none"

(* A turn ends once: no log holds two terminal entries for it.             *)
EndsOnce ==
  \A th, uh \in Thread : \A i \in DOMAIN log[th], j \in DOMAIN log[uh] :
    /\ log[th][i].event \in TerminalEvent
    /\ log[uh][j].event \in TerminalEvent
    /\ log[th][i].turn = log[uh][j].turn
    => th = uh /\ i = j

(* How turns end, and the types.                                           *)
EndingsInv == TypeOK /\ EndedStaysEnded /\ EndsOnce

LoggedFor(th, event, t) == \E i \in DOMAIN log[th] : log[th][i].event = event /\ log[th][i].turn = t

(* What a thread file says of its latest turn is in that thread's log: a   *)
(* crash or a failed write leaves the projection behind the log, never     *)
(* ahead of it.                                                            *)
ProjectionTrailsLog ==
  \A th \in Readable :
    LET rec == thread[th] IN
      /\ rec.status = "interrupted"      => LoggedFor(th, "turn_cancelled", rec.latest)
      /\ rec.status = "failed"           => LoggedFor(th, "turn_failed", rec.latest)
      /\ rec.status = "waiting_approval" => LoggedFor(th, "approval_wait", rec.latest)
      /\ rec.latest # None               => LoggedFor(th, "turn_started", rec.latest)

(* Clients are told how a turn ended only when the log holds it.           *)
PublishedIsLogged ==
  \A t \in Turn, event \in TerminalEvent :
    <<event, t>> \in published => LoggedFor(request[t].thread, event, t)

(* The goal of a cancelled turn stays among the commitments of its thread  *)
(* until a turn starts whose input that commitment mentions, or a crash    *)
(* tears the thread file.                                                  *)
CancelledWorkRemembered ==
  \A t \in Turn :
    <<"turn_cancelled", t>> \in published =>
      LET th == request[t].thread
          g  == request[t].goal
      IN \/ g \in thread[th].commitments
         \/ ThreadFile(th) \in torn
         \/ \E i, j \in DOMAIN log[th] :
              /\ i < j
              /\ log[th][i].event = "turn_cancelled" /\ log[th][i].turn = t
              /\ log[th][j].event = "turn_started"
              /\ <<g, request[log[th][j].turn].goal>> \in Mentions

(* No high-risk turn reaches the model under the on-request policy without *)
(* an approval, whichever store access failed on the way.                  *)
ModelRunIsAllowed ==
  [][\A t \in Turn : ran'[t] # ran[t] =>
       \/ approval[t] = "approved"
       \/ policy = "danger-full-access"
       \/ request[t].risk # "high"]_vars

-----------------------------------------------------------------------------
(* The contract with clients this module implements *)

PhaseOf(t) ==
  IF Ended(t)
    THEN CHOOSE e \in TerminalEvent : \E th \in Thread : LoggedFor(th, e, t)
  ELSE IF open[t] # "none" THEN open[t]
  ELSE IF <<"turn_started", t>> \notin published THEN "unborn"
  ELSE IF At("append") /\ job.turn = t THEN "closing"
  ELSE "lost"

Contract == INSTANCE TurnContract WITH
  phase <- [t \in Turn |-> PhaseOf(t)],
  owner <- [t \in Turn |-> IF PhaseOf(t) = "unborn" THEN None ELSE request[t].thread],
  runs  <- ran

(* Every step of the server is a step of TurnContract or leaves its state  *)
(* as it is, whatever fails.                                               *)
ImplementsContract == Contract!Spec

-----------------------------------------------------------------------------
(* Properties that hold as long as no store access fails *)

(* No turn reaches the model twice: a repeated approval finds its turn     *)
(* gone.                                                                   *)
RunsAtMostOnce == \A t \in Turn : ran[t] <= 1

(* A denied turn never reaches the model afterwards, although a later      *)
(* answer may overwrite the denial.                                        *)
DeniedNeverRuns ==
  [][\A t \in Turn : <<"deny", t>> \in published => ran'[t] = ran[t]]_vars

(* A request leaves no turn running behind it, and a turn it leaves        *)
(* waiting has a pending approval that someone can answer, unless a crash  *)
(* has torn a file: then a turn may start that nothing runs or asks for.   *)
NothingLeftBehind ==
  At("idle") /\ torn = {} => \A t \in Turn :
    open[t] # "none" => open[t] = "waiting_approval" /\ approval[t] = "pending"

(* The lifecycle entries of a log have increasing sequence numbers, across *)
(* restarts and tool entries.                                              *)
LifecycleSequencesIncrease ==
  \A th \in Thread : \A i, j \in DOMAIN log[th] :
    /\ i < j
    /\ log[th][i].event # "tool_completed"
    /\ log[th][j].event # "tool_completed"
    => log[th][i].seq < log[th][j].seq

(* A running turn ends or comes to wait for an approval, unless a file is  *)
(* torn.                                                                   *)
RunningTurnSettles ==
  \A t \in Turn : open[t] = "running" ~> open[t] # "running" \/ torn # {}

(* The server's lock is released again and again, torn files or not.       *)
ServerReturns == []<>At("idle")

(* Nothing the server began is left hanging: no turn runs for ever, no     *)
(* request keeps the lock (server/mod.rs:320, websocket.rs:284).           *)
ServerProgress == RunningTurnSettles /\ ServerReturns

-----------------------------------------------------------------------------
(* What the documentation says and the code does not do *)

(* storage/turn_log.rs: "The monotonically increasing sequence number for  *)
(* the thread".  A tool entry is numbered from the length of the log and   *)
(* does not advance the turn manager's counter.                            *)
SequencesIncrease ==
  \A th \in Thread : \A i, j \in DOMAIN log[th] :
    i < j => log[th][i].seq < log[th][j].seq

(* runtime/policy_engine.rs: "Whether a checkpoint should be created       *)
(* before continuing" is true of medium and high risk.  Only a turn that   *)
(* stops for approval gets one.                                            *)
CheckpointBeforeRun ==
  \A t \in Turn : ran[t] > 0 /\ request[t].risk # "low" => t \in checkpoint

=============================================================================

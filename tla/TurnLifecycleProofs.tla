------------------------ MODULE TurnLifecycleProofs ------------------------
(***************************************************************************)
(* Theorems about TurnLifecycle, for every set of threads, turns and goals *)
(* and every number of store failures and restarts: types, one turn at a   *)
(* time, one end to a turn; then what is kept on record, thread files      *)
(* against logs, goals of cancelled turns, the contract of TurnContract,   *)
(* and what holds while no store access fails.                             *)
(***************************************************************************)
EXTENDS TurnLifecycle, TLAPS

(* The job in hand names a thread, and, once it serves a turn, a turn of   *)
(* that thread, both known to the store.                                   *)
JobShape ==
  /\ job.at # "idle" => job.thread \in Thread
  /\ job.at \notin {"idle", "put", "sync", "done"} => job.op \notin ThreadOp
  /\ job.at = "append" => job.op \in LifecycleEvent
  /\ job.at \in {"put", "sync", "done"} => job.op \in ThreadOp \cup LifecycleEvent
  /\ job.at # "idle" /\ job.op \notin ThreadOp =>
       /\ job.turn \in Turn
       /\ request[job.turn] # None
       /\ request[job.turn].thread = job.thread
       /\ thread[job.thread] # None

(* A turn with an active or approval entry was requested on a stored       *)
(* thread.                                                                 *)
TurnShape ==
  \A t \in Turn : open[t] # "none" \/ approval[t] # "none" =>
    /\ request[t] # None
    /\ thread[request[t].thread] # None

Shape == TypeOK /\ JobShape /\ TurnShape

-----------------------------------------------------------------------------
LEMMA LastSeqType ==
  ASSUME NEW entries \in Seq(LogEntry)
  PROVE  LastSeq(entries) \in Nat
<1>1. CASE entries = <<>>
  BY <1>1 DEF LastSeq
<1>2. CASE entries # <<>>
  <2>1. Len(entries) \in DOMAIN entries
    BY <1>2
  <2>2. entries[Len(entries)] \in LogEntry
    BY <2>1
  <2>3. entries[Len(entries)].seq \in Nat
    BY <2>2 DEF LogEntry
  <2>4. QED
    BY <1>2, <2>3 DEF LastSeq
<1>3. QED
  BY <1>1, <1>2

LEMMA NextSequenceType ==
  ASSUME TypeOK, NEW th \in Thread
  PROVE  NextSequence(th) \in Nat
<1>1. LastSeq(log[th]) \in Nat
  BY LastSeqType DEF TypeOK
<1>2. QED
  BY <1>1 DEF TypeOK, NextSequence

LEMMA AppendType ==
  ASSUME TypeOK, NEW th \in Thread, NEW e \in LogEntry
  PROVE  [log EXCEPT ![th] = Append(@, e)] \in [Thread -> Seq(LogEntry)]
<1>1. log[th] \in Seq(LogEntry)
  BY DEF TypeOK
<1>2. Append(log[th], e) \in Seq(LogEntry)
  BY <1>1
<1>3. QED
  BY <1>2 DEF TypeOK

LEMMA EntryTypes ==
  ASSUME TypeOK
  PROVE  /\ \A th \in Thread, t \in Turn \cup {None} :
              /\ ToolEntry(th, t) \in LogEntry
              /\ ToolEntry(th, t).event \notin TerminalEvent
         /\ At("append") /\ JobShape =>
              /\ job.thread \in Thread /\ job.turn \in Turn /\ request[job.turn] # None
              /\ LifecycleEntry \in LogEntry
              /\ LifecycleEntry.turn = job.turn /\ LifecycleEntry.event = job.op
<1>1. ASSUME NEW th \in Thread, NEW t \in Turn \cup {None}
      PROVE  ToolEntry(th, t) \in LogEntry /\ ToolEntry(th, t).event \notin TerminalEvent
  <2>1. NextToolSequence(th) \in Nat
    BY DEF NextToolSequence, TypeOK
  <2>2. QED
    BY <2>1 DEF ToolEntry, LogEntry, TerminalEvent
<1>2. ASSUME At("append"), JobShape
      PROVE  /\ job.thread \in Thread /\ job.turn \in Turn /\ request[job.turn] # None
             /\ LifecycleEntry \in LogEntry
             /\ LifecycleEntry.turn = job.turn /\ LifecycleEntry.event = job.op
  <2>1. job.thread \in Thread /\ job.op \in LifecycleEvent
    BY <1>2 DEF At, JobShape
  <2>2. job.turn \in Turn /\ request[job.turn] # None
    BY <1>2, <2>1 DEF At, JobShape, LifecycleEvent, TerminalEvent, ThreadOp
  <2>3. NextSequence(job.thread) \in Nat
    BY <2>1, NextSequenceType
  <2>4. QED
    BY <2>1, <2>2, <2>3 DEF LifecycleEntry, LogEntry
<1>3. QED
  BY <1>1, <1>2

(* What is written of an entry keeps the disk well typed: the whole entry, *)
(* or what a cut leaves of it.                                             *)
LEMMA EntryWritten ==
  ASSUME TypeOK, NEW th \in Thread, NEW e \in LogEntry,
         (AppendEntry(th, e) /\ UNCHANGED dangling) \/ CutEntry(th, e)
  PROVE  /\ log' \in [Thread -> Seq(LogEntry)]
         /\ dangling' \subseteq Thread
         /\ torn' \subseteq File
         /\ log' = log \/ log' = [log EXCEPT ![th] = Append(@, e)]
<1>1. LogFile(th) \in File
  BY DEF LogFile, File
<1>2. log' = log \/ log' = [log EXCEPT ![th] = Append(@, e)]
  BY DEF AppendEntry, CutEntry
<1>3. log' \in [Thread -> Seq(LogEntry)]
  <2>1. CASE log' = log
    BY <2>1 DEF TypeOK
  <2>2. CASE log' = [log EXCEPT ![th] = Append(@, e)]
    BY <2>2, AppendType
  <2>3. QED
    BY <1>2, <2>1, <2>2
<1>4. dangling' \subseteq Thread
  BY DEF CutEntry, TypeOK
<1>5. torn' \subseteq File
  BY <1>1 DEF AppendEntry, CutEntry, TypeOK
<1>6. QED
  BY <1>2, <1>3, <1>4, <1>5

LEMMA ToolWritten ==
  ASSUME TypeOK, NEW th \in Thread, NEW t \in Turn \cup {None}, AppendToolEntry(th, t)
  PROVE  /\ log' \in [Thread -> Seq(LogEntry)]
         /\ dangling' \subseteq Thread
         /\ torn' \subseteq File
         /\ UNCHANGED <<thread, listed, checkpoint>>
BY EntryTypes, EntryWritten DEF AppendToolEntry

(* What a cut leaves on disk is well typed, adds at most the entry that    *)
(* was being written, and touches no thread projection.                    *)
LEMMA CutWritten ==
  ASSUME Shape, CutAppend \/ CutTool \/ CutFile \/ UNCHANGED disk
  PROVE  /\ log' \in [Thread -> Seq(LogEntry)]
         /\ dangling' \subseteq Thread
         /\ torn' \subseteq File
         /\ UNCHANGED <<thread, listed, checkpoint>>
<1>1. TypeOK /\ JobShape
  BY DEF Shape
<1>2. CASE CutAppend
  <2>1. job.thread \in Thread /\ LifecycleEntry \in LogEntry
    BY <1>1, <1>2, EntryTypes DEF CutAppend
  <2>2. CutEntry(job.thread, LifecycleEntry)
    BY <1>2 DEF CutAppend
  <2>3. QED
    BY <1>1, <2>1, <2>2, EntryWritten DEF CutEntry
<1>3. CASE CutTool
  <2>1. PICK th \in Created, t \in Turn \cup {None} : CutEntry(th, ToolEntry(th, t))
    BY <1>3 DEF CutTool
  <2>2. th \in Thread /\ ToolEntry(th, t) \in LogEntry
    BY <1>1, <2>1, EntryTypes DEF Created
  <2>3. QED
    BY <1>1, <2>1, <2>2, EntryWritten DEF CutEntry
<1>4. CASE CutFile
  <2>1. job.at \in {"put", "checkpoint_thread"} => job.thread \in Thread
    BY <1>1 DEF JobShape
  <2>2. torn' \subseteq File
    BY <1>1, <1>4, <2>1 DEF CutFile, ThreadFile, MemoryFile, File, TypeOK
  <2>3. QED
    BY <1>1, <1>4, <2>2 DEF CutFile, TypeOK
<1>5. CASE UNCHANGED disk
  BY <1>1, <1>5 DEF disk, TypeOK
<1>6. QED
  BY <1>2, <1>3, <1>4, <1>5

(* Every projection a transition writes is a thread record.                *)
LEMMA DraftTypes ==
  ASSUME NEW rec \in ThreadRecord, NEW t \in Turn, NEW g \in Goal
  PROVE  /\ StartedThread(rec, t, g) \in ThreadRecord
         /\ InterruptedThread(rec, t, g) \in ThreadRecord
         /\ WaitingThread(rec, t) \in ThreadRecord
         /\ RunningThread(rec, t) \in ThreadRecord
         /\ FailedThread(rec, t) \in ThreadRecord
         /\ CompletedThread(rec, t) \in ThreadRecord
         /\ ForkedThread(rec) \in ThreadRecord
         /\ [rec EXCEPT !.status = "active"] \in ThreadRecord
         /\ [rec EXCEPT !.checkpoint = t] \in ThreadRecord
         /\ NoRecord \in ThreadRecord
BY DEF ThreadRecord, ThreadStatus, StartedThread, InterruptedThread, WaitingThread,
       RunningThread, FailedThread, CompletedThread, ForkedThread, NoRecord

LEMMA NoRecordType == NoRecord \in ThreadRecord
BY DEF NoRecord, ThreadRecord, ThreadStatus

LEMMA IdleType == Idle \in JobRecord /\ Idle.at = "idle"
BY NoRecordType DEF Idle, JobRecord

LEMMA InitShape == Init => Shape
<1> SUFFICES ASSUME Init PROVE Shape
  OBVIOUS
<1> USE DEF Init, Policy, TurnStatus
<1>1. TypeOK
  BY BoundsAssumption, IdleType DEF TypeOK
<1>2. JobShape /\ TurnShape
  BY IdleType DEF JobShape, TurnShape
<1>3. QED
  BY <1>1, <1>2 DEF Shape

-----------------------------------------------------------------------------
(* Client requests *)

LEMMA CancelShape ==
  ASSUME Shape, NEW th \in Thread, NEW t \in Turn, BeginCancel(th, t)
  PROVE  Shape'
<1> USE DEF Shape, TypeOK, JobShape, TurnShape, At, Created, Readable, Unused, disk, memory, ghosts, limits,
            Op, ThreadOp, LifecycleEvent, TerminalEvent, Decision, Step
<1>1. thread[th] # None /\ thread[th] \in ThreadRecord
  BY DEF BeginCancel
<1>2. request[t] \in RequestRecord /\ request[t].goal \in Goal /\ request[t].thread = th
  BY DEF BeginCancel, InActiveTurns, RequestRecord
<1>3. InterruptedThread(thread[th], t, request[t].goal) \in ThreadRecord
  BY <1>1, <1>2, DraftTypes
<1>4. open' \in [Turn -> TurnStatus]
  BY DEF BeginCancel, Removed, TurnStatus
<1>5. TypeOK'
  BY <1>3, <1>4 DEF BeginCancel, Transition, Job, JobRecord
<1>6. JobShape'
  BY <1>1, <1>2, <1>3 DEF BeginCancel, Transition, InActiveTurns, Job, JobRecord
<1>7. TurnShape'
  BY DEF BeginCancel, Removed
<1>8. QED
  BY <1>5, <1>6, <1>7

LEMMA ClientShape == Shape /\ Client => Shape'
<1> SUFFICES ASSUME Shape, Client PROVE Shape'
  OBVIOUS
<1> USE DEF Shape, TypeOK, JobShape, TurnShape, At, Created, Readable, Unused, disk, memory, ghosts, limits,
            Op, ThreadOp, LifecycleEvent, TerminalEvent, Decision, Step
<1>1. ASSUME NEW th \in Thread, StartThread(th) PROVE Shape'
  BY <1>1, NoRecordType DEF StartThread, Job, JobRecord
<1>2. ASSUME NEW th \in Thread, ResumeThread(th) PROVE Shape'
  <2>1. thread[th] \in ThreadRecord
    BY <1>2 DEF ResumeThread
  <2>2. [thread[th] EXCEPT !.status = "active"] \in ThreadRecord
    BY <2>1 DEF ThreadRecord, ThreadStatus
  <2>3. QED
    BY <1>2, <2>2 DEF ResumeThread, Job, JobRecord
<1>3. ASSUME NEW th \in Thread, CallTool(th) PROVE Shape'
  <2>1. /\ log' \in [Thread -> Seq(LogEntry)]
        /\ dangling' \subseteq Thread
        /\ torn' \subseteq File
        /\ UNCHANGED <<thread, listed, checkpoint>>
    BY <1>3, ToolWritten DEF CallTool
  <2>2. QED
    BY <1>3, <2>1 DEF CallTool
<1>4. ASSUME NEW parent \in Thread, NEW child \in Thread, ForkThread(parent, child)
      PROVE Shape'
  <2>1. thread[parent] \in ThreadRecord
    BY <1>4 DEF ForkThread
  <2>2. ForkedThread(thread[parent]) \in ThreadRecord
    BY <2>1 DEF ThreadRecord, ThreadStatus, ForkedThread
  <2>3. QED
    BY <1>4, <2>2 DEF ForkThread, Job, JobRecord
<1>5. ASSUME NEW th \in Thread, NEW t \in Turn, NEW g \in Goal, NEW r \in Risks,
             StartTurn(th, t, g, r)
      PROVE Shape'
  <2>1. thread[th] # None /\ thread[th] \in ThreadRecord
    BY <1>5 DEF StartTurn
  <2>2. StartedThread(thread[th], t, g) \in ThreadRecord
    BY <2>1, DraftTypes
  <2> DEFINE req == [thread |-> th, goal |-> g, risk |-> r]
  <2>3. req \in RequestRecord /\ req # None /\ req.thread = th
    BY NoneAssumption DEF RequestRecord
  <2>4. request' = [request EXCEPT ![t] = req]
    BY <1>5 DEF StartTurn
  <2>5. job' = Job("append", "turn_started", th, t, StartedThread(thread[th], t, g))
    BY <1>5 DEF StartTurn, Transition
  <2>6. UNCHANGED <<disk, memory, ghosts, limits>>
    BY <1>5 DEF StartTurn
  <2> HIDE DEF req
  <2>7. TypeOK'
    BY <2>2, <2>3, <2>4, <2>5, <2>6 DEF Job, JobRecord
  <2>8. JobShape'
    BY <2>1, <2>2, <2>3, <2>4, <2>5, <2>6 DEF Job, JobRecord
  <2>9. TurnShape'
    BY <2>3, <2>4, <2>6, <1>5 DEF StartTurn
  <2>10. QED
    BY <2>7, <2>8, <2>9
<1>6. ASSUME NEW th \in Thread, NEW t \in Turn, CancelTurn(th, t) PROVE Shape'
  BY <1>6, CancelShape DEF CancelTurn
<1>7. ASSUME NEW t \in Turn, NEW d \in Decision, RespondApproval(t, d) PROVE Shape'
  <2>1. request[t] \in RequestRecord /\ request[t].thread \in Thread /\ request[t] # None
        /\ thread[request[t].thread] # None
    BY <1>7 DEF RespondApproval, RequestRecord
  <2>2. published' \subseteq PublishedEvent \X Turn
    BY <1>7 DEF RespondApproval, Publish, PublishedEvent
  <2>3. TypeOK'
    BY <1>7, <2>1, <2>2, NoRecordType DEF RespondApproval, Job, JobRecord
  <2>4. JobShape'
    BY <1>7, <2>1, NoRecordType DEF RespondApproval, Job, JobRecord
  <2>5. TurnShape'
    BY <1>7 DEF RespondApproval
  <2>6. QED
    BY <2>3, <2>4, <2>5
<1>8. ASSUME NEW p \in Policy, UpdateRuntimeConfig(p) PROVE Shape'
  BY <1>8 DEF UpdateRuntimeConfig
<1>9. QED
  BY <1>1, <1>2, <1>3, <1>4, <1>5, <1>6, <1>7, <1>8 DEF Client

-----------------------------------------------------------------------------
(* The steps of a job, and what cuts it short *)

LEMMA WriteShape == Shape /\ Write => Shape'
<1> SUFFICES ASSUME Shape, Write PROVE Shape'
  OBVIOUS
<1> USE DEF Shape, TypeOK, JobShape, TurnShape, At, disk, memory, ghosts, limits,
            Op, ThreadOp, SyncOp, LifecycleEvent, TerminalEvent, Decision, Step
<1>1. CASE AppendTurnLog
  <2>1. job.thread \in Thread /\ LifecycleEntry \in LogEntry
    BY <1>1, EntryTypes DEF AppendTurnLog
  <2>2. AppendEntry(job.thread, LifecycleEntry) /\ UNCHANGED dangling
    BY <1>1 DEF AppendTurnLog
  <2>3. log' \in [Thread -> Seq(LogEntry)] /\ torn' \subseteq File
    BY <2>1, <2>2, EntryWritten
  <2>4. nextSeq' \in [Thread -> Nat \cup {None}]
    BY <1>1, <2>1, NextSequenceType DEF AppendTurnLog, CountUp
  <2>5. job' \in JobRecord
    BY <1>1 DEF AppendTurnLog, JobRecord
  <2>6. TypeOK'
    BY <1>1, <2>3, <2>4, <2>5 DEF AppendTurnLog
  <2>7. JobShape' /\ TurnShape'
    BY <1>1, <2>1 DEF AppendTurnLog, JobRecord
  <2>8. QED
    BY <2>6, <2>7
<1>2. CASE PutThread
  <2>1. job.draft \in ThreadRecord /\ job.draft # None /\ job.thread \in Thread
    BY <1>2, NoneAssumption DEF PutThread, JobRecord
  <2>2. thread' = [thread EXCEPT ![job.thread] = job.draft]
    BY <1>2 DEF PutThread
  <2>3. thread' \in [Thread -> ThreadRecord \cup {None}]
    BY <2>1, <2>2
  <2>4. \A th \in Thread : thread[th] # None => thread'[th] # None
    BY <2>1, <2>2
  <2>5. job' \in JobRecord
    BY <1>2 DEF PutThread, JobRecord
  <2>6. TypeOK'
    BY <1>2, <2>3, <2>5 DEF PutThread
  <2>7. JobShape'
    BY <1>2, <2>4 DEF PutThread, JobRecord
  <2>8. TurnShape'
    BY <1>2, <2>4 DEF PutThread, RequestRecord
  <2>9. QED
    BY <2>6, <2>7, <2>8
<1>3. CASE SyncActiveThreadIds
  <2>1. job' \in JobRecord
    BY <1>3 DEF SyncActiveThreadIds, JobRecord
  <2>2. QED
    BY <1>3, <2>1 DEF SyncActiveThreadIds, JobRecord
<1>4. QED
  BY <1>1, <1>2, <1>3 DEF Write

LEMMA FinishShape == Shape /\ Finish => Shape'
<1> SUFFICES ASSUME Shape, Finish PROVE Shape'
  OBVIOUS
<1> USE NoRecordType, IdleType
    DEF Shape, TypeOK, JobShape, TurnShape, At, Job, Publish, PublishedEvent, disk, memory,
        ghosts, limits, Op, ThreadOp, LifecycleEvent, TerminalEvent, Decision, Step
<1>1. CASE FinishThread
  BY <1>1 DEF FinishThread
<1>2. CASE FinishStart
  <2>1. job' \in JobRecord
    BY <1>2 DEF FinishStart, JobRecord
  <2>2. open' \in [Turn -> TurnStatus]
    BY <1>2 DEF FinishStart, TurnStatus
  <2>3. TypeOK'
    BY <1>2, <2>1, <2>2 DEF FinishStart
  <2>4. JobShape' /\ TurnShape'
    BY <1>2 DEF FinishStart
  <2>5. QED
    BY <2>3, <2>4
<1>3. CASE FinishWait
  BY <1>3 DEF FinishWait
<1>4. CASE FinishResume
  <2>1. job' \in JobRecord
    BY <1>4 DEF FinishResume, JobRecord
  <2>2. QED
    BY <1>4, <2>1 DEF FinishResume
<1>5. CASE FinishEnd
  BY <1>5 DEF FinishEnd
<1>6. QED
  BY <1>1, <1>2, <1>3, <1>4, <1>5 DEF Finish

LEMMA GateShape == Shape /\ Gate => Shape'
<1> SUFFICES ASSUME Shape, Gate PROVE Shape'
  OBVIOUS
<1> USE NoRecordType
    DEF Shape, TypeOK, JobShape, TurnShape, At, disk, memory,
        ghosts, limits, Op, ThreadOp, LifecycleEvent, TerminalEvent, Decision, Step
<1>1. CASE EvaluatePolicy
  <2>1. job.thread \in Thread /\ job.turn \in Turn
    BY <1>1 DEF EvaluatePolicy
  <2>2. CASE job' = [job EXCEPT !.at = "checkpoint"] /\ UNCHANGED ran
    <3>1. job' \in JobRecord
      BY <2>2 DEF JobRecord
    <3>2. QED
      BY <1>1, <2>2, <3>1 DEF EvaluatePolicy, JobRecord
  <2>3. CASE HandToModel(job.thread, job.turn)
    <3>1. job' \in JobRecord
      BY <2>1, <2>3 DEF HandToModel, Job, JobRecord
    <3>2. ran' \in [Turn -> Nat]
      BY <2>1, <2>3 DEF HandToModel
    <3>3. QED
      BY <1>1, <2>1, <2>3, <3>1, <3>2 DEF EvaluatePolicy, HandToModel, Job
  <2>4. QED
    BY <1>1, <2>2, <2>3 DEF EvaluatePolicy
<1>2. CASE PutCheckpoint
  <2>1. job' \in JobRecord
    BY <1>2 DEF PutCheckpoint, JobRecord
  <2>2. QED
    BY <1>2, <2>1 DEF PutCheckpoint, JobRecord
<1>3. CASE PutCheckpointOnThread
  <2> DEFINE rec == [thread[job.thread] EXCEPT !.checkpoint = job.turn]
  <2>1. job.thread \in Thread /\ thread[job.thread] \in ThreadRecord /\ job.turn \in Turn
    BY <1>3 DEF PutCheckpointOnThread
  <2>2. rec \in ThreadRecord /\ rec # None
    <3>1. rec \in ThreadRecord
      BY <2>1 DEF ThreadRecord
    <3>2. QED
      BY <3>1, NoneAssumption
  <2>3. thread' = [thread EXCEPT ![job.thread] = rec]
    BY <1>3 DEF PutCheckpointOnThread
  <2> HIDE DEF rec
  <2>4. thread' \in [Thread -> ThreadRecord \cup {None}]
    BY <2>1, <2>2, <2>3
  <2>5. \A th \in Thread : thread[th] # None => thread'[th] # None
    BY <2>1, <2>2, <2>3
  <2>6. job' \in JobRecord
    BY <1>3 DEF PutCheckpointOnThread, JobRecord
  <2>7. TypeOK'
    BY <1>3, <2>4, <2>6 DEF PutCheckpointOnThread
  <2>8. JobShape'
    BY <1>3, <2>5 DEF PutCheckpointOnThread, JobRecord
  <2>9. TurnShape'
    BY <1>3, <2>5 DEF PutCheckpointOnThread, RequestRecord
  <2>10. QED
    BY <2>7, <2>8, <2>9
<1>4. CASE MarkWaitingApproval
  <2>1. job.thread \in Thread /\ thread[job.thread] \in ThreadRecord /\ job.turn \in Turn
    BY <1>4 DEF MarkWaitingApproval
  <2>2. WaitingThread(thread[job.thread], job.turn) \in ThreadRecord
    BY <2>1 DEF WaitingThread, ThreadRecord, ThreadStatus
  <2>3. job' \in JobRecord
    BY <1>4, <2>1, <2>2 DEF MarkWaitingApproval, Transition, Job, JobRecord
  <2>4. open' \in [Turn -> TurnStatus]
    BY <1>4 DEF MarkWaitingApproval, TurnStatus
  <2>5. TypeOK'
    BY <1>4, <2>3, <2>4 DEF MarkWaitingApproval
  <2>6. JobShape' /\ TurnShape'
    BY <1>4, <2>1 DEF MarkWaitingApproval, Transition, Job
  <2>7. QED
    BY <2>5, <2>6
<1>5. QED
  BY <1>1, <1>2, <1>3, <1>4 DEF Gate

LEMMA AnswerShape == Shape /\ Answer => Shape'
<1> SUFFICES ASSUME Shape, Answer PROVE Shape'
  OBVIOUS
<1> USE NoRecordType, IdleType
    DEF Shape, TypeOK, JobShape, TurnShape, At, disk, memory,
        ghosts, limits, Op, ThreadOp, LifecycleEvent, TerminalEvent, Decision, Step
<1>1. CASE MarkRunning
  <2>1. job.thread \in Thread /\ thread[job.thread] \in ThreadRecord /\ job.turn \in Turn
    BY <1>1 DEF MarkRunning
  <2>2. RunningThread(thread[job.thread], job.turn) \in ThreadRecord
    BY <2>1 DEF RunningThread, ThreadRecord, ThreadStatus
  <2>3. job' \in JobRecord
    BY <1>1, <2>1, <2>2 DEF MarkRunning, Transition, Job, JobRecord
  <2>4. open' \in [Turn -> TurnStatus]
    BY <1>1 DEF MarkRunning, TurnStatus
  <2>5. TypeOK'
    BY <1>1, <2>3, <2>4 DEF MarkRunning
  <2>6. JobShape' /\ TurnShape'
    BY <1>1, <2>1 DEF MarkRunning, Transition, Job
  <2>7. QED
    BY <2>5, <2>6
<1>2. CASE CancelDenied
  BY <1>2, CancelShape DEF CancelDenied
<1>3. CASE AnswerTooLate
  BY <1>3 DEF AnswerTooLate
<1>4. CASE ResumeApproved
  <2>1. job' \in JobRecord
    BY <1>4 DEF ResumeApproved, HandToModel, Job, JobRecord
  <2>2. ran' \in [Turn -> Nat]
    BY <1>4 DEF ResumeApproved, HandToModel
  <2>3. QED
    BY <1>4, <2>1, <2>2 DEF ResumeApproved, HandToModel, Job
<1>5. QED
  BY <1>1, <1>2, <1>3, <1>4 DEF Answer

LEMMA EndShape ==
  ASSUME Shape, NEW event \in {"turn_completed", "turn_failed"}, NEW draft \in ThreadRecord,
         EndTurn(event, draft)
  PROVE  Shape'
<1> USE DEF Shape, TypeOK, JobShape, TurnShape, At, disk, memory,
        ghosts, limits, Op, ThreadOp, LifecycleEvent, TerminalEvent, Decision, Step
<1>1. job' \in JobRecord
  BY DEF EndTurn, Transition, Job, JobRecord
<1>2. open' \in [Turn -> TurnStatus]
  BY DEF EndTurn, Removed, TurnStatus
<1>3. TypeOK'
  BY <1>1, <1>2 DEF EndTurn
<1>4. JobShape' /\ TurnShape'
  BY DEF EndTurn, Transition, Job, Removed
<1>5. QED
  BY <1>3, <1>4

LEMMA ModelShape == Shape /\ Model => Shape'
<1> SUFFICES ASSUME Shape, Model PROVE Shape'
  OBVIOUS
<1>1. job.turn \in Turn /\ thread[job.thread] \in ThreadRecord
  BY DEF Model, CompleteTurn, FailTurn, EndTurn, At, Shape, TypeOK, JobShape
<1>2. /\ CompletedThread(thread[job.thread], job.turn) \in ThreadRecord
      /\ FailedThread(thread[job.thread], job.turn) \in ThreadRecord
  BY <1>1 DEF CompletedThread, FailedThread, ThreadRecord, ThreadStatus
<1>3. QED
  BY <1>2, EndShape DEF Model, CompleteTurn, FailTurn

LEMMA CutShape == Shape /\ (RunTool \/ ReadFails \/ IoFails \/ Restart) => Shape'
<1> SUFFICES ASSUME Shape, RunTool \/ ReadFails \/ IoFails \/ Restart PROVE Shape'
  OBVIOUS
<1> USE IdleType
    DEF Shape, TypeOK, JobShape, TurnShape, At, memory, ghosts, limits
<1>1. CASE RunTool
  <2>1. job.thread \in Thread /\ job.turn \in Turn \cup {None}
    BY <1>1 DEF RunTool, JobRecord
  <2>2. /\ log' \in [Thread -> Seq(LogEntry)]
        /\ dangling' \subseteq Thread
        /\ torn' \subseteq File
        /\ UNCHANGED <<thread, listed, checkpoint>>
    BY <1>1, <2>1, ToolWritten DEF RunTool
  <2>3. QED
    BY <1>1, <2>2 DEF RunTool
<1>2. CASE IoFails
  <2>1. CutAppend \/ CutTool \/ CutFile \/ UNCHANGED disk
    BY <1>2 DEF IoFails, FailAccess, FailAppend, FailTool, FailFile
  <2>2. /\ log' \in [Thread -> Seq(LogEntry)]
        /\ dangling' \subseteq Thread
        /\ torn' \subseteq File
        /\ UNCHANGED <<thread, listed, checkpoint>>
    BY <2>1, CutWritten
  <2>3. nextSeq' \in [Thread -> Nat \cup {None}]
    BY <1>2, NextSequenceType
    DEF IoFails, FailAccess, FailAppend, FailTool, FailFile, CountUp
  <2>4. faults' \in 0..MaxFaults
    BY <1>2, BoundsAssumption DEF IoFails
  <2>5. job' = Idle \/ job' = job
    BY <1>2 DEF IoFails, FailAccess, FailAppend, FailTool, FailFile
  <2>6. QED
    BY <1>2, <2>2, <2>3, <2>4, <2>5 DEF IoFails
<1>3. CASE Restart
  <2>1. /\ log' \in [Thread -> Seq(LogEntry)]
        /\ dangling' \subseteq Thread
        /\ torn' \subseteq File
        /\ UNCHANGED <<thread, listed, checkpoint>>
    BY <1>3, CutWritten DEF Restart
  <2>2. crashes' \in 0..MaxCrashes
    BY <1>3, BoundsAssumption DEF Restart
  <2>3. QED
    BY <1>3, <2>1, <2>2 DEF Restart, TurnStatus, Policy
<1>4. CASE ReadFails
  BY <1>4 DEF ReadFails, disk
<1>5. QED
  BY <1>1, <1>2, <1>3, <1>4

LEMMA NextShape == Shape /\ [Next]_vars => Shape'
<1>1. ASSUME Shape, UNCHANGED vars PROVE Shape'
  BY <1>1 DEF Shape, TypeOK, JobShape, TurnShape, vars, disk, memory, ghosts, limits
<1>2. QED
  BY <1>1, ClientShape, WriteShape, FinishShape, GateShape, AnswerShape, ModelShape, CutShape
  DEF Next, Server

(* Every reachable state is well typed: the projections, logs and tables   *)
(* hold what the code's types allow, and the job in hand is one the        *)
(* handlers can be in.                                                     *)
THEOREM TypeCorrect == Spec => []TypeOK
<1>1. Spec => []Shape
  BY InitShape, NextShape, PTL DEF Spec
<1>2. Shape => TypeOK
  BY DEF Shape
<1>3. QED
  BY <1>1, <1>2, PTL

-----------------------------------------------------------------------------
(* At most one open turn per thread.  The check of start_turn and the      *)
(* insertion into active_turns are several store accesses apart: the       *)
(* invariant carries the check's result across them.                       *)

Starting == job.op = "turn_started" /\ job.at \in {"append", "put", "sync", "done"}

Unique ==
  /\ OneOpenTurn
  /\ Starting => \A u \in Turn : open[u] # "none" => request[u].thread # job.thread

(* A step that opens no turn, and begins no start, keeps uniqueness.       *)
LEMMA UniqueKept ==
  ASSUME Unique, TurnShape, UNCHANGED request,
         \A u \in Turn : open'[u] # "none" => open[u] # "none",
         Starting' => Starting /\ job'.thread = job.thread
  PROVE  Unique'
BY DEF Unique, OneOpenTurn, Starting, TurnShape

LEMMA UniqueNext == Shape /\ Unique /\ [Next]_vars => Unique'
<1> SUFFICES ASSUME Shape, Unique, [Next]_vars PROVE Unique'
  OBVIOUS
<1> USE DEF Shape, At, disk, memory, ghosts, limits
<1>1. ASSUME NEW th \in Thread, NEW t \in Turn, NEW g \in Goal, NEW r \in Risks,
             StartTurn(th, t, g, r)
      PROVE Unique'
  <2>1. open[t] = "none" /\ open' = open
    BY <1>1 DEF StartTurn, TurnShape, TypeOK
  <2>2. \A u \in Turn : open[u] # "none" => request[u].thread # th /\ request'[u] = request[u]
    BY <1>1, <2>1 DEF StartTurn, Startable, OpenTurns, TypeOK
  <2>3. job'.thread = th
    BY <1>1 DEF StartTurn, Transition, Job
  <2>4. QED
    BY <2>1, <2>2, <2>3 DEF Unique, OneOpenTurn
<1>2. CASE FinishStart
  <2>1. Starting /\ job.turn \in Turn /\ request[job.turn].thread = job.thread
    BY <1>2 DEF FinishStart, Starting, JobShape, ThreadOp
  <2>2. open' = [open EXCEPT ![job.turn] = "running"] /\ request' = request /\ ~Starting'
    BY <1>2 DEF FinishStart, Starting, Job
  <2>3. QED
    BY <2>1, <2>2 DEF Unique, OneOpenTurn, TypeOK
<1>3. ASSUME NEW th \in Thread, NEW t \in Turn, BeginCancel(th, t) PROVE Unique'
  <2>1. \A u \in Turn : open'[u] # "none" => open[u] # "none"
    BY <1>3 DEF BeginCancel, Removed, TypeOK
  <2>2. ~Starting'
    BY <1>3 DEF BeginCancel, Transition, Job, Starting
  <2>3. QED
    BY <1>3, <2>1, <2>2, UniqueKept DEF BeginCancel
<1>4. ASSUME NEW event \in {"turn_completed", "turn_failed"}, NEW draft, EndTurn(event, draft)
      PROVE Unique'
  <2>1. \A u \in Turn : open'[u] # "none" => open[u] # "none"
    BY <1>4 DEF EndTurn, Removed, TypeOK
  <2>2. ~Starting'
    BY <1>4 DEF EndTurn, Transition, Job, Starting
  <2>3. QED
    BY <1>4, <2>1, <2>2, UniqueKept DEF EndTurn
<1>5. CASE MarkRunning
  <2>1. \A u \in Turn : open'[u] # "none" => open[u] # "none"
    BY <1>5 DEF MarkRunning, InActiveTurns, TypeOK
  <2>2. QED
    BY <1>5, <2>1, UniqueKept DEF MarkRunning, Transition, Job, Starting
<1>6. CASE MarkWaitingApproval
  <2>1. \A u \in Turn : open'[u] # "none" => open[u] # "none"
    BY <1>6 DEF MarkWaitingApproval, InActiveTurns, TypeOK
  <2>2. QED
    BY <1>6, <2>1, UniqueKept DEF MarkWaitingApproval, Transition, Job, Starting
<1>7. CASE Restart
  BY <1>7, UniqueKept DEF Restart, Idle, Starting
<1>8. CASE Write
  <2>1. UNCHANGED <<open, request>>
    BY <1>8 DEF Write, AppendTurnLog, PutThread, SyncActiveThreadIds
  <2>2. Starting' => Starting /\ job'.thread = job.thread
    BY <1>8 DEF Write, AppendTurnLog, PutThread, SyncActiveThreadIds, Starting, TypeOK, JobRecord
  <2>3. QED
    BY <2>1, <2>2, UniqueKept
<1>9. ASSUME UNCHANGED <<open, request>>, ~Starting' PROVE Unique'
  BY <1>9, UniqueKept
<1>10. ASSUME UNCHANGED <<open, request, job>> PROVE Unique'
  BY <1>10, UniqueKept DEF Starting
<1>11. CASE Client
  <2>1. ASSUME NEW th \in Thread, StartThread(th) \/ ResumeThread(th) PROVE Unique'
    BY <2>1, <1>9 DEF StartThread, ResumeThread, Starting, Job
  <2>2. ASSUME NEW th \in Thread, CallTool(th) PROVE Unique'
    BY <2>2, <1>10 DEF CallTool
  <2>3. ASSUME NEW parent \in Thread, NEW child \in Thread, ForkThread(parent, child)
        PROVE Unique'
    BY <2>3, <1>9 DEF ForkThread, Starting, Job
  <2>4. ASSUME NEW th \in Thread, NEW t \in Turn, CancelTurn(th, t) PROVE Unique'
    BY <2>4, <1>3 DEF CancelTurn
  <2>5. ASSUME NEW t \in Turn, NEW d \in Decision, RespondApproval(t, d) PROVE Unique'
    BY <2>5, <1>9 DEF RespondApproval, Starting, Job
  <2>6. ASSUME NEW p \in Policy, UpdateRuntimeConfig(p) PROVE Unique'
    BY <2>6, <1>10 DEF UpdateRuntimeConfig
  <2>7. QED
    BY <1>1, <1>11, <2>1, <2>2, <2>3, <2>4, <2>5, <2>6 DEF Client
<1>12. CASE Finish
  BY <1>2, <1>9, <1>12
  DEF Finish, FinishThread, FinishWait, FinishResume, FinishEnd, Starting, Job, Idle
<1>13. CASE Gate
  <2>1. CASE EvaluatePolicy
    BY <2>1, <1>9 DEF EvaluatePolicy, HandToModel, Starting, Job, TypeOK, JobRecord
  <2>2. CASE PutCheckpoint \/ PutCheckpointOnThread
    BY <2>2, <1>9 DEF PutCheckpoint, PutCheckpointOnThread, Starting, TypeOK, JobRecord
  <2>3. QED
    BY <1>6, <1>13, <2>1, <2>2 DEF Gate
<1>14. CASE Answer
  <2>1. CASE CancelDenied
    BY <2>1, <1>3 DEF CancelDenied, JobShape, Decision, ThreadOp
  <2>2. CASE AnswerTooLate \/ ResumeApproved
    BY <2>2, <1>9 DEF AnswerTooLate, ResumeApproved, HandToModel, Starting, Job, Idle
  <2>3. QED
    BY <1>5, <1>14, <2>1, <2>2 DEF Answer
<1>15. CASE Model
  BY <1>4, <1>15 DEF Model, CompleteTurn, FailTurn
<1>16. CASE RunTool
  BY <1>16, <1>10 DEF RunTool
<1>17. CASE IoFails
  <2>1. job' = Idle \/ job' = job
    BY <1>17 DEF IoFails, FailAccess, FailAppend, FailTool, FailFile
  <2>2. CASE job' = Idle
    BY <1>17, <2>2, <1>9 DEF IoFails, Starting, Idle
  <2>3. CASE job' = job
    BY <1>17, <2>3, <1>10 DEF IoFails
  <2>4. QED
    BY <2>1, <2>2, <2>3
<1>18. CASE UNCHANGED vars
  BY <1>18, <1>10 DEF vars
<1>19. CASE ReadFails
  BY <1>19, <1>9 DEF ReadFails, Starting, Idle
<1>20. QED
  BY <1>7, <1>8, <1>11, <1>12, <1>13, <1>14, <1>15, <1>16, <1>17, <1>18, <1>19
  DEF Next, Server

(* No thread ever has two turns in active_turns, whatever the store does   *)
(* between the check of start_turn and the insertion.                      *)
THEOREM OneTurnPerThread == Spec => []OneOpenTurn
<1>1. Init => Unique
  BY DEF Init, Unique, OneOpenTurn, Starting, Idle
<1>2. Spec => [](Shape /\ Unique)
  BY <1>1, InitShape, NextShape, UniqueNext, PTL DEF Spec
<1>3. Unique => OneOpenTurn
  BY DEF Unique
<1>4. QED
  BY <1>2, <1>3, PTL

-----------------------------------------------------------------------------
(* An end is final.  The turn leaves active_turns before its end is in the *)
(* log, and a turn enters active_turns several store accesses after its    *)
(* identifier was handed out: the invariant says what holds in between.    *)

Final ==
  /\ EndedStaysEnded
  /\ EndsOnce
  /\ \A t \in Turn : Ended(t) => request[t] # None
  /\ Starting => ~Ended(job.turn)
  /\ At("append") /\ job.op \in TerminalEvent =>
       open[job.turn] = "none" /\ ~Ended(job.turn)

LEMMA EndedSame == log' = log => \A t : Ended(t)' = Ended(t)
BY DEF Ended

(* What one appended entry adds to the ends on record.                     *)
LEMMA AppendEnded ==
  ASSUME TypeOK, NEW th \in Thread, NEW e \in LogEntry,
         log' = [log EXCEPT ![th] = Append(@, e)]
  PROVE  /\ \A t : Ended(t)' <=> Ended(t) \/ (e.turn = t /\ e.event \in TerminalEvent)
         /\ EndsOnce /\ (e.event \in TerminalEvent => ~Ended(e.turn)) => EndsOnce'
<1> DEFINE n == Len(log[th]) + 1
<1>1. log[th] \in Seq(LogEntry) /\ n \in Nat \ {0}
  BY DEF TypeOK
<1>2. /\ log'[th] = Append(log[th], e)
      /\ \A uh \in Thread : uh # th => log'[uh] = log[uh]
  BY DEF TypeOK
<1>3. /\ DOMAIN log'[th] = DOMAIN log[th] \cup {n}
      /\ n \notin DOMAIN log[th]
      /\ log'[th][n] = e
      /\ \A i \in DOMAIN log[th] : log'[th][i] = log[th][i]
  BY <1>1, <1>2
<1> HIDE DEF n
<1>4. \A uh \in Thread : \A i \in DOMAIN log'[uh] :
        \/ i \in DOMAIN log[uh] /\ log'[uh][i] = log[uh][i]
        \/ uh = th /\ i = n /\ log'[uh][i] = e
  BY <1>2, <1>3
<1>5. \A uh \in Thread : \A i \in DOMAIN log[uh] :
        i \in DOMAIN log'[uh] /\ log'[uh][i] = log[uh][i]
  BY <1>2, <1>3
<1>6. ASSUME NEW t PROVE Ended(t)' <=> Ended(t) \/ (e.turn = t /\ e.event \in TerminalEvent)
  <2>1. Ended(t) => Ended(t)'
    BY <1>5 DEF Ended
  <2>2. e.turn = t /\ e.event \in TerminalEvent => Ended(t)'
    BY <1>3 DEF Ended
  <2>3. Ended(t)' => Ended(t) \/ (e.turn = t /\ e.event \in TerminalEvent)
    BY <1>4 DEF Ended
  <2>4. QED
    BY <2>1, <2>2, <2>3
<1>7. ASSUME EndsOnce, e.event \in TerminalEvent => ~Ended(e.turn),
             NEW uh \in Thread, NEW vh \in Thread,
             NEW i \in DOMAIN log'[uh], NEW j \in DOMAIN log'[vh],
             log'[uh][i].event \in TerminalEvent, log'[vh][j].event \in TerminalEvent,
             log'[uh][i].turn = log'[vh][j].turn
      PROVE  uh = vh /\ i = j
  <2>1. CASE (i \in DOMAIN log[uh] /\ log'[uh][i] = log[uh][i])
             /\ (j \in DOMAIN log[vh] /\ log'[vh][j] = log[vh][j])
    BY <1>7, <2>1 DEF EndsOnce
  <2>2. CASE (i \in DOMAIN log[uh] /\ log'[uh][i] = log[uh][i])
             /\ (vh = th /\ j = n /\ log'[vh][j] = e)
    BY <1>7, <2>2 DEF Ended
  <2>3. CASE (uh = th /\ i = n /\ log'[uh][i] = e)
             /\ (j \in DOMAIN log[vh] /\ log'[vh][j] = log[vh][j])
    BY <1>7, <2>3 DEF Ended
  <2>4. CASE (uh = th /\ i = n) /\ (vh = th /\ j = n)
    BY <2>4
  <2>5. QED
    BY <1>4, <2>1, <2>2, <2>3, <2>4
<1>8. QED
  BY <1>6, <1>7 DEF EndsOnce

(* A step that leaves the log alone, opens no turn and begins no start     *)
(* keeps an end final.                                                     *)
LEMMA FinalKept ==
  ASSUME Final, Shape, log' = log,
         \A t \in Turn : request[t] # None => request'[t] # None,
         \A t \in Turn : open'[t] # "none" => open[t] # "none",
         Starting' => Starting /\ job'.turn = job.turn,
         ~(At("append")' /\ job'.op \in TerminalEvent)
  PROVE  Final'
BY EndedSame DEF Final, EndedStaysEnded, EndsOnce, Shape, TypeOK

(* A turn that leaves active_turns has no end on record yet.               *)
LEMMA FinalClosed ==
  ASSUME Final, Shape, NEW t \in Turn, InActiveTurns(t), log' = log, request' = request,
         open' = Removed(t), ~Starting', job'.turn = t
  PROVE  Final'
<1>1. ~Ended(t)
  BY DEF Final, EndedStaysEnded, InActiveTurns
<1>2. open'[t] = "none" /\ \A u \in Turn : open'[u] # "none" => open[u] # "none"
  BY DEF Removed, Shape, TypeOK
<1>3. QED
  BY <1>1, <1>2, EndedSame DEF Final, EndedStaysEnded, EndsOnce

(* An entry that ends no turn, whole or cut, keeps an end final.           *)
LEMMA FinalEntry ==
  ASSUME Final, Shape, NEW th \in Thread, NEW e \in LogEntry, e.event \notin TerminalEvent,
         log' = log \/ log' = [log EXCEPT ![th] = Append(@, e)],
         request' = request, ~Starting', ~At("append")',
         \A t \in Turn : open'[t] # "none" => open[t] # "none"
  PROVE  Final'
<1>1. (\A t : Ended(t)' <=> Ended(t)) /\ EndsOnce'
  <2>1. CASE log' = log
    BY <2>1, EndedSame DEF Final, EndsOnce
  <2>2. CASE log' = [log EXCEPT ![th] = Append(@, e)]
    BY <2>2, AppendEnded DEF Final, Shape
  <2>3. QED
    BY <2>1, <2>2
<1>2. QED
  BY <1>1 DEF Final, EndedStaysEnded

LEMMA FinalTool ==
  ASSUME Final, Shape, NEW th \in Thread, NEW t \in Turn \cup {None}, AppendToolEntry(th, t),
         UNCHANGED <<open, request, job>>, ~Starting, ~At("append")
  PROVE  Final'
<1>1. ToolEntry(th, t) \in LogEntry /\ ToolEntry(th, t).event \notin TerminalEvent
  BY EntryTypes DEF Shape
<1>2. log' = [log EXCEPT ![th] = Append(@, ToolEntry(th, t))]
  BY DEF AppendToolEntry, AppendEntry
<1>3. ~Starting' /\ ~At("append")'
  BY DEF Starting, At
<1>4. QED
  BY <1>1, <1>2, <1>3, FinalEntry

(* The entry in hand, whole or cut, ends its turn at most once: the turn   *)
(* left active_turns when the job began.                                   *)
LEMMA FinalAppend ==
  ASSUME Final, Shape, At("append"), request' = request,
         log' = log \/ log' = [log EXCEPT ![job.thread] = Append(@, LifecycleEntry)],
         \A t \in Turn : open'[t] # "none" => open[t] # "none",
         Starting' => job' = [job EXCEPT !.at = "put"], ~At("append")'
  PROVE  Final'
<1>1. /\ job.thread \in Thread /\ job.turn \in Turn /\ request[job.turn] # None
      /\ LifecycleEntry \in LogEntry
      /\ LifecycleEntry.turn = job.turn /\ LifecycleEntry.event = job.op
  BY EntryTypes DEF Shape
<1>2. job.op \in TerminalEvent => ~Ended(job.turn) /\ open[job.turn] = "none"
  BY DEF Final
<1>3. /\ \A t : Ended(t)' => Ended(t) \/ (job.turn = t /\ job.op \in TerminalEvent)
      /\ EndsOnce'
  <2>1. CASE log' = log
    BY <2>1, EndedSame DEF Final, EndsOnce
  <2>2. CASE log' = [log EXCEPT ![job.thread] = Append(@, LifecycleEntry)]
    BY <1>1, <1>2, <2>2, AppendEnded DEF Final, Shape
  <2>3. QED
    BY <2>1, <2>2
<1>4. EndedStaysEnded'
  BY <1>1, <1>2, <1>3 DEF Final, EndedStaysEnded, Shape, TypeOK
<1>5. (Starting => ~Ended(job.turn))'
  <2>1. SUFFICES ASSUME Starting' PROVE ~Ended(job.turn)'
    OBVIOUS
  <2>2. job'.turn = job.turn /\ job'.op = job.op
    BY <2>1 DEF Shape, TypeOK, JobRecord
  <2>3. job.op = "turn_started" /\ Starting
    BY <2>1, <2>2 DEF Starting, At
  <2>4. job.op \notin TerminalEvent /\ ~Ended(job.turn)
    BY <2>3 DEF Final, TerminalEvent
  <2>5. QED
    <3>1. ~ \E th \in Thread : \E i \in DOMAIN log'[th] :
              log'[th][i].turn = job.turn /\ log'[th][i].event \in TerminalEvent
      BY <1>3, <2>4 DEF Ended
    <3>2. QED
      BY <2>2, <3>1 DEF Ended
<1>6. QED
  BY <1>1, <1>3, <1>4, <1>5 DEF Final

LEMMA FinalCut ==
  ASSUME Final, Shape, CutAppend \/ CutTool \/ CutFile \/ UNCHANGED disk,
         job' = Idle \/ (job' = job /\ ~At("append") /\ ~Starting), request' = request,
         \A t \in Turn : open'[t] # "none" => open[t] # "none"
  PROVE  Final'
<1>1. ~Starting' /\ ~At("append")'
  BY DEF Idle, Starting, At
<1>2. CASE CutAppend
  <2>1. At("append") /\ CutEntry(job.thread, LifecycleEntry)
    BY <1>2 DEF CutAppend
  <2>2. log' = log \/ log' = [log EXCEPT ![job.thread] = Append(@, LifecycleEntry)]
    BY <2>1 DEF CutEntry, AppendEntry
  <2>3. QED
    BY <1>1, <2>1, <2>2, FinalAppend
<1>3. CASE CutTool
  <2>1. PICK th \in Created, t \in Turn \cup {None} : CutEntry(th, ToolEntry(th, t))
    BY <1>3 DEF CutTool
  <2>2. /\ th \in Thread
        /\ ToolEntry(th, t) \in LogEntry /\ ToolEntry(th, t).event \notin TerminalEvent
    BY <2>1, EntryTypes DEF Created, Shape
  <2>3. log' = log \/ log' = [log EXCEPT ![th] = Append(@, ToolEntry(th, t))]
    BY <2>1 DEF CutEntry, AppendEntry
  <2>4. QED
    BY <1>1, <2>2, <2>3, FinalEntry
<1>4. CASE CutFile \/ UNCHANGED disk
  <2>1. log' = log
    BY <1>4 DEF CutFile, disk
  <2>2. QED
    BY <1>1, <2>1, FinalKept
<1>5. QED
  BY <1>2, <1>3, <1>4

LEMMA FinalClient == Shape /\ Final /\ Client => Final'
<1> SUFFICES ASSUME Shape, Final, Client PROVE Final'
  OBVIOUS
<1> USE DEF disk, memory, ghosts, limits
<1>1. ASSUME NEW th \in Thread, StartThread(th) \/ ResumeThread(th) PROVE Final'
  BY <1>1, FinalKept DEF StartThread, ResumeThread, Starting, Job, At
<1>2. ASSUME NEW th \in Thread, CallTool(th) PROVE Final'
  BY <1>2, FinalTool DEF CallTool, Starting, At
<1>3. ASSUME NEW parent \in Thread, NEW child \in Thread, ForkThread(parent, child)
      PROVE Final'
  BY <1>3, FinalKept DEF ForkThread, Starting, Job, At
<1>4. ASSUME NEW th \in Thread, NEW t \in Turn, NEW g \in Goal, NEW r \in Risks,
             StartTurn(th, t, g, r)
      PROVE Final'
  <2> DEFINE req == [thread |-> th, goal |-> g, risk |-> r]
  <2>1. request' = [request EXCEPT ![t] = req] /\ req # None
    BY <1>4, NoneAssumption DEF StartTurn, RequestRecord
  <2> HIDE DEF req
  <2>2. ~Ended(t) /\ UNCHANGED <<log, open>> /\ request[t] = None
    BY <1>4 DEF StartTurn, Final
  <2>3. \A u \in Turn : request[u] # None => request'[u] # None
    BY <2>1, <2>2 DEF Shape, TypeOK
  <2>4. job'.turn = t /\ job'.op = "turn_started"
    BY <1>4 DEF StartTurn, Transition, Job
  <2>5. QED
    BY <2>2, <2>3, <2>4, EndedSame
    DEF Final, EndedStaysEnded, EndsOnce, Starting, TerminalEvent
<1>5. ASSUME NEW th \in Thread, NEW t \in Turn, CancelTurn(th, t) PROVE Final'
  BY <1>5, FinalClosed DEF CancelTurn, BeginCancel, Transition, Job, Starting
<1>6. ASSUME NEW t \in Turn, NEW d \in Decision, RespondApproval(t, d) PROVE Final'
  BY <1>6, FinalKept DEF RespondApproval, Starting, Job, At
<1>7. ASSUME NEW p \in Policy, UpdateRuntimeConfig(p) PROVE Final'
  BY <1>7, FinalKept DEF UpdateRuntimeConfig, Starting, At
<1>8. QED
  BY <1>1, <1>2, <1>3, <1>4, <1>5, <1>6, <1>7 DEF Client

LEMMA FinalWrite == Shape /\ Final /\ Write => Final'
<1> SUFFICES ASSUME Shape, Final, Write PROVE Final'
  OBVIOUS
<1>1. CASE AppendTurnLog
  <2>1. At("append") /\ UNCHANGED <<open, request>> /\ job' = [job EXCEPT !.at = "put"]
        /\ log' = [log EXCEPT ![job.thread] = Append(@, LifecycleEntry)]
    BY <1>1 DEF AppendTurnLog, AppendEntry
  <2>2. ~At("append")'
    BY <2>1 DEF At, Shape, TypeOK, JobRecord
  <2>3. QED
    BY <2>1, <2>2, FinalAppend
<1>2. CASE PutThread
  <2>1. job' = [job EXCEPT !.at = IF job.op \in SyncOp THEN "sync" ELSE "done"]
        /\ UNCHANGED <<log, open, request>> /\ At("put")
    BY <1>2 DEF PutThread, memory
  <2>2. job'.turn = job.turn /\ job'.op = job.op /\ job'.at # "append"
    BY <2>1 DEF Shape, TypeOK, JobRecord
  <2>3. QED
    BY <2>1, <2>2, FinalKept DEF Starting, At
<1>3. CASE SyncActiveThreadIds
  <2>1. job' = [job EXCEPT !.at = "done"] /\ UNCHANGED <<log, open, request>> /\ At("sync")
    BY <1>3 DEF SyncActiveThreadIds, memory
  <2>2. job'.turn = job.turn /\ job'.op = job.op /\ job'.at # "append"
    BY <2>1 DEF Shape, TypeOK, JobRecord
  <2>3. QED
    BY <2>1, <2>2, FinalKept DEF Starting, At
<1>4. QED
  BY <1>1, <1>2, <1>3 DEF Write

LEMMA FinalFinish == Shape /\ Final /\ Finish => Final'
<1> SUFFICES ASSUME Shape, Final, Finish PROVE Final'
  OBVIOUS
<1> USE DEF disk, memory, At, Starting, Job
<1>1. CASE FinishStart
  <2>1. ~Ended(job.turn) /\ job.turn \in Turn
    BY <1>1 DEF FinishStart, Final, Shape, JobShape, ThreadOp
  <2>2. open' = [open EXCEPT ![job.turn] = "running"] /\ UNCHANGED <<log, request>>
    BY <1>1 DEF FinishStart
  <2>3. ~Starting' /\ job'.at = "policy"
    BY <1>1 DEF FinishStart
  <2>4. QED
    BY <2>1, <2>2, <2>3, EndedSame
    DEF Final, EndedStaysEnded, EndsOnce, Shape, TypeOK
<1>2. CASE FinishThread \/ FinishWait \/ FinishResume \/ FinishEnd
  BY <1>2, FinalKept DEF FinishThread, FinishWait, FinishResume, FinishEnd, Idle
<1>3. QED
  BY <1>1, <1>2 DEF Finish

LEMMA FinalGate == Shape /\ Final /\ Gate => Final'
<1> SUFFICES ASSUME Shape, Final, Gate PROVE Final'
  OBVIOUS
<1> USE DEF disk, memory, At, Starting, Job
<1>1. CASE EvaluatePolicy
  BY <1>1, FinalKept DEF EvaluatePolicy, HandToModel, Shape, TypeOK, JobRecord
<1>2. CASE PutCheckpoint \/ PutCheckpointOnThread
  BY <1>2, FinalKept DEF PutCheckpoint, PutCheckpointOnThread, Shape, TypeOK, JobRecord
<1>3. CASE MarkWaitingApproval
  <2>1. \A u \in Turn : open'[u] # "none" => open[u] # "none"
    BY <1>3 DEF MarkWaitingApproval, InActiveTurns, Shape, TypeOK
  <2>2. QED
    BY <1>3, <2>1, FinalKept DEF MarkWaitingApproval, Transition, TerminalEvent
<1>4. QED
  BY <1>1, <1>2, <1>3 DEF Gate

LEMMA FinalAnswer == Shape /\ Final /\ Answer => Final'
<1> SUFFICES ASSUME Shape, Final, Answer PROVE Final'
  OBVIOUS
<1> USE DEF disk, memory, At, Starting, Job
<1>1. CASE MarkRunning
  <2>1. \A u \in Turn : open'[u] # "none" => open[u] # "none"
    BY <1>1 DEF MarkRunning, InActiveTurns, Shape, TypeOK
  <2>2. QED
    BY <1>1, <2>1, FinalKept DEF MarkRunning, Transition, TerminalEvent
<1>2. CASE CancelDenied
  BY <1>2, FinalClosed
  DEF CancelDenied, BeginCancel, Transition, Shape, JobShape, Decision, ThreadOp
<1>3. CASE AnswerTooLate
  BY <1>3, FinalKept DEF AnswerTooLate, Idle
<1>4. CASE ResumeApproved
  BY <1>4, FinalKept DEF ResumeApproved, HandToModel
<1>5. QED
  BY <1>1, <1>2, <1>3, <1>4 DEF Answer

LEMMA FinalNext == Shape /\ Final /\ [Next]_vars => Final'
<1> SUFFICES ASSUME Shape, Final, [Next]_vars PROVE Final'
  OBVIOUS
<1> USE DEF disk, memory, ghosts, At, Starting
<1>1. CASE Model
  <2>1. PICK event \in {"turn_completed", "turn_failed"}, draft \in ThreadRecord :
          EndTurn(event, draft)
    <3>1. job.turn \in Turn /\ thread[job.thread] \in ThreadRecord
      BY <1>1 DEF Model, CompleteTurn, FailTurn, EndTurn, Shape, TypeOK, JobShape
    <3>2. /\ CompletedThread(thread[job.thread], job.turn) \in ThreadRecord
          /\ FailedThread(thread[job.thread], job.turn) \in ThreadRecord
      BY <3>1 DEF CompletedThread, FailedThread, ThreadRecord, ThreadStatus
    <3>3. QED
      BY <1>1, <3>2 DEF Model, CompleteTurn, FailTurn
  <2>2. job.turn \in Turn
    BY <2>1 DEF EndTurn, Shape, JobShape
  <2>3. QED
    BY <2>1, <2>2, FinalClosed DEF EndTurn, Transition, Job
<1>2. CASE RunTool
  <2>1. job.thread \in Thread /\ job.turn \in Turn \cup {None}
    BY <1>2 DEF RunTool, Shape, JobShape, TypeOK, JobRecord
  <2>2. QED
    BY <1>2, <2>1, FinalTool DEF RunTool
<1>3. CASE IoFails
  <2>1. CutAppend \/ CutTool \/ CutFile \/ UNCHANGED disk
    BY <1>3 DEF IoFails, FailAccess, FailAppend, FailTool, FailFile
  <2>2. job' = Idle \/ (job' = job /\ ~At("append") /\ ~Starting)
    BY <1>3 DEF IoFails, FailAccess, FailAppend, FailTool, CutTool, FailFile
  <2>3. QED
    BY <1>3, <2>1, <2>2, FinalCut DEF IoFails
<1>4. CASE Restart
  BY <1>4, FinalCut DEF Restart
<1>5. CASE UNCHANGED vars
  BY <1>5, EndedSame DEF vars, Final, EndedStaysEnded, EndsOnce
<1>6. CASE ReadFails
  BY <1>6, FinalKept DEF ReadFails, Idle
<1>7. QED
  BY <1>1, <1>2, <1>3, <1>4, <1>5, <1>6, FinalClient, FinalWrite, FinalFinish, FinalGate, FinalAnswer
  DEF Next, Server

LEMMA FinalAlways == Spec => []Final
<1>1. Init => Final
  BY DEF Init, Final, EndedStaysEnded, EndsOnce, Ended, Starting, Idle, At
<1>2. QED
  BY <1>1, InitShape, NextShape, FinalNext, PTL DEF Spec

(* No late answer, second cancel, failed write or restart brings a turn    *)
(* back into active_turns once its end is in the log.                      *)
THEOREM EndIsFinal == Spec => []EndedStaysEnded
<1>1. Final => EndedStaysEnded
  BY DEF Final
<1>2. QED
  BY <1>1, FinalAlways, PTL

(* The logs hold at most one terminal entry for a turn, however often it   *)
(* is cancelled, answered or cut short by a failure.                       *)
THEOREM OneEndPerTurn == Spec => []EndsOnce
<1>1. Final => EndsOnce
  BY DEF Final
<1>2. QED
  BY <1>1, FinalAlways, PTL

(* A turn that a request, a failure or a restart ends, ends once and for   *)
(* good.                                                                   *)
THEOREM EndsAreFinal == Spec => []EndingsInv
<1>1. TypeOK /\ EndedStaysEnded /\ EndsOnce => EndingsInv
  BY DEF EndingsInv
<1>2. QED
  BY <1>1, TypeCorrect, EndIsFinal, OneEndPerTurn, PTL

-----------------------------------------------------------------------------
(* The approval that resumes a turn was given at the start of the request  *)
(* that resumes it; no write in between takes it back.                     *)

Cleared ==
  \/ job.op = "approval_resolved"
  \/ At("answered") /\ job.op = "approve"
  \/ At("resumed")

Allowed == Cleared => approval[job.turn] = "approved"

LEMMA AllowedKept ==
  ASSUME Allowed, UNCHANGED approval, Cleared' => Cleared /\ job'.turn = job.turn
  PROVE  Allowed'
BY DEF Allowed

LEMMA AllowedNext == Shape /\ Allowed /\ [Next]_vars => Allowed'
<1> SUFFICES ASSUME Shape, Allowed, [Next]_vars PROVE Allowed'
  OBVIOUS
<1> USE DEF memory, At, Cleared
<1>1. CASE Client
  <2>1. ASSUME NEW t \in Turn, NEW d \in Decision, RespondApproval(t, d) PROVE Allowed'
    BY <2>1 DEF RespondApproval, Job, Allowed, Decision, Shape, TypeOK
  <2>2. ASSUME NEW th \in Thread, CallTool(th) PROVE Allowed'
    BY <2>2, AllowedKept DEF CallTool
  <2>3. ASSUME NEW p \in Policy, UpdateRuntimeConfig(p) PROVE Allowed'
    BY <2>3, AllowedKept DEF UpdateRuntimeConfig
  <2>4. ASSUME NEW th \in Thread, StartThread(th) \/ ResumeThread(th) PROVE Allowed'
    BY <2>4, AllowedKept DEF StartThread, ResumeThread, Job
  <2>5. ASSUME NEW parent \in Thread, NEW child \in Thread, ForkThread(parent, child)
        PROVE Allowed'
    BY <2>5, AllowedKept DEF ForkThread, Job
  <2>6. ASSUME NEW th \in Thread, NEW t \in Turn, NEW g \in Goal, NEW r \in Risks,
               StartTurn(th, t, g, r)
        PROVE Allowed'
    BY <2>6, AllowedKept DEF StartTurn, Transition, Job
  <2>7. ASSUME NEW th \in Thread, NEW t \in Turn, CancelTurn(th, t) PROVE Allowed'
    BY <2>7, AllowedKept DEF CancelTurn, BeginCancel, Transition, Job
  <2>8. QED
    BY <1>1, <2>1, <2>2, <2>3, <2>4, <2>5, <2>6, <2>7 DEF Client
<1>2. CASE Write
  <2>1. UNCHANGED approval /\ job'.op = job.op /\ job'.turn = job.turn
        /\ job'.at \notin {"answered", "resumed"}
    BY <1>2 DEF Write, AppendTurnLog, PutThread, SyncActiveThreadIds, Shape, TypeOK, JobRecord
  <2>2. QED
    BY <2>1, AllowedKept
<1>3. CASE Finish
  <2>1. ASSUME FinishResume PROVE Allowed'
    BY <2>1 DEF FinishResume, Job, Allowed
  <2>2. ASSUME FinishThread \/ FinishStart \/ FinishEnd PROVE Allowed'
    BY <2>2, AllowedKept DEF FinishThread, FinishStart, FinishEnd, Idle, Job
  <2>3. ASSUME FinishWait PROVE Allowed'
    BY <2>3 DEF FinishWait, Idle, Allowed
  <2>4. QED
    BY <1>3, <2>1, <2>2, <2>3 DEF Finish
<1>4. CASE Gate
  <2>1. ASSUME EvaluatePolicy \/ PutCheckpoint \/ PutCheckpointOnThread PROVE Allowed'
    BY <2>1, AllowedKept
    DEF EvaluatePolicy, HandToModel, PutCheckpoint, PutCheckpointOnThread, Job,
        Shape, TypeOK, JobRecord
  <2>2. ASSUME MarkWaitingApproval PROVE Allowed'
    BY <2>2, AllowedKept DEF MarkWaitingApproval, Transition, Job
  <2>3. QED
    BY <1>4, <2>1, <2>2 DEF Gate
<1>5. CASE Answer
  <2>1. ASSUME MarkRunning PROVE Allowed'
    BY <2>1 DEF MarkRunning, Transition, Job, Allowed
  <2>2. ASSUME CancelDenied \/ AnswerTooLate \/ ResumeApproved PROVE Allowed'
    BY <2>2, AllowedKept
    DEF CancelDenied, BeginCancel, AnswerTooLate, ResumeApproved, HandToModel, Transition,
        Job, Idle
  <2>3. QED
    BY <1>5, <2>1, <2>2 DEF Answer
<1>6. CASE Model
  BY <1>6, AllowedKept DEF Model, CompleteTurn, FailTurn, EndTurn, Transition, Job
<1>7. CASE RunTool \/ UNCHANGED vars
  BY <1>7, AllowedKept DEF RunTool, vars
<1>8. CASE IoFails \/ ReadFails
  <2>1. UNCHANGED approval /\ (job' = Idle \/ job' = job)
    BY <1>8 DEF IoFails, FailAccess, FailAppend, FailTool, FailFile, ReadFails
  <2>2. QED
    BY <2>1, AllowedKept DEF Idle
<1>9. CASE Restart
  BY <1>9 DEF Restart, Idle, Allowed
<1>10. QED
  BY <1>1, <1>2, <1>3, <1>4, <1>5, <1>6, <1>7, <1>8, <1>9 DEF Next, Server

(* Only the two steps that call the model count a run.                     *)
LEMMA RunsCounted == [Next]_vars => ran' = ran \/ EvaluatePolicy \/ ResumeApproved
BY DEF Next, Client, StartThread, ResumeThread, CallTool, AppendToolEntry, ForkThread, StartTurn,
       CancelTurn, BeginCancel, RespondApproval, UpdateRuntimeConfig, Server, Write, AppendTurnLog,
       PutThread, SyncActiveThreadIds, Finish, FinishThread, FinishStart, FinishWait, FinishResume,
       FinishEnd, Gate, PutCheckpoint, PutCheckpointOnThread, MarkWaitingApproval, Answer,
       MarkRunning, CancelDenied, AnswerTooLate, Model, CompleteTurn, FailTurn, EndTurn, ReadFails,
       RunTool, IoFails, Restart, vars, ghosts

(* A high-risk turn reaches the model under the on-request policy only     *)
(* with an approval, whatever fails between the answer and the model.      *)
THEOREM RunsAreAllowed == Spec => ModelRunIsAllowed
<1>1. Init => Allowed
  BY DEF Init, Allowed, Cleared, Idle, At
<1>2. Spec => [](Shape /\ Allowed)
  BY <1>1, InitShape, NextShape, AllowedNext, PTL DEF Spec
<1>3. Shape /\ Allowed /\ [Next]_vars =>
        [\A t \in Turn : ran'[t] # ran[t] =>
           \/ approval[t] = "approved"
           \/ policy = "danger-full-access"
           \/ request[t].risk # "high"]_vars
  <2> SUFFICES ASSUME Shape, Allowed, [Next]_vars, NEW t \in Turn, ran'[t] # ran[t]
               PROVE  \/ approval[t] = "approved" \/ policy = "danger-full-access"
                      \/ request[t].risk # "high"
    OBVIOUS
  <2>1. CASE EvaluatePolicy
    <3>1. ~NeedsApproval(job.turn) /\ ran' = [ran EXCEPT ![job.turn] = @ + 1]
      BY <2>1 DEF EvaluatePolicy, HandToModel
    <3>2. t = job.turn
      BY <3>1 DEF Shape, TypeOK
    <3>3. QED
      BY <3>1, <3>2 DEF NeedsApproval, Shape, TypeOK, Policy
  <2>2. CASE ResumeApproved
    <3>1. At("resumed") /\ ran' = [ran EXCEPT ![job.turn] = @ + 1]
      BY <2>2 DEF ResumeApproved, HandToModel
    <3>2. t = job.turn
      BY <3>1 DEF Shape, TypeOK
    <3>3. QED
      BY <3>1, <3>2 DEF Allowed, Cleared
  <2>3. QED
    BY <2>1, <2>2, RunsCounted
<1>4. QED
  BY <1>2, <1>3, PTL DEF Spec, ModelRunIsAllowed

-----------------------------------------------------------------------------
(* What clients are told of an end is on record.  The event is published   *)
(* two writes after the entry: the invariant carries the entry to it.      *)

Writing == job.at \in {"put", "sync", "done"} /\ job.op \in TerminalEvent

Recorded ==
  /\ PublishedIsLogged
  /\ \A t \in Turn, e \in TerminalEvent : <<e, t>> \in published => request[t] # None
  /\ Writing => LoggedFor(job.thread, job.op, job.turn)

(* Nothing but an append ever happens to a log.                            *)
LEMMA LogGrows ==
  Shape /\ [Next]_vars =>
    log' = log \/ \E th \in Thread, e \in LogEntry : log' = [log EXCEPT ![th] = Append(@, e)]
<1> SUFFICES ASSUME Shape, [Next]_vars
             PROVE  log' = log \/ \E th \in Thread, e \in LogEntry :
                                    log' = [log EXCEPT ![th] = Append(@, e)]
  OBVIOUS
<1> USE DEF disk, memory, ghosts
<1>1. ASSUME NEW th \in Thread, NEW t \in Turn \cup {None}, AppendToolEntry(th, t)
      PROVE  \E e \in LogEntry : log' = [log EXCEPT ![th] = Append(@, e)]
  BY <1>1, EntryTypes DEF AppendToolEntry, AppendEntry, Shape
<1>2. CASE Client
  BY <1>1, <1>2
  DEF Client, StartThread, ResumeThread, CallTool, ForkThread, StartTurn, CancelTurn,
      BeginCancel, RespondApproval, UpdateRuntimeConfig
<1>3. CASE AppendTurnLog
  BY <1>3, EntryTypes DEF AppendTurnLog, AppendEntry, Shape
<1>4. CASE RunTool
  <2>1. job.thread \in Thread /\ job.turn \in Turn \cup {None}
    BY <1>4 DEF RunTool, At, Shape, JobShape, TypeOK, JobRecord
  <2>2. QED
    BY <1>1, <1>4, <2>1 DEF RunTool
<1>5. CASE CutAppend \/ CutTool \/ CutFile \/ UNCHANGED disk
  <2>1. CASE CutAppend
    BY <2>1, EntryTypes DEF CutAppend, CutEntry, AppendEntry, Shape
  <2>2. CASE CutTool
    BY <2>2, EntryTypes DEF CutTool, CutEntry, AppendEntry, Created, Shape
  <2>3. QED
    BY <1>5, <2>1, <2>2 DEF CutFile
<1>6. CASE PutThread \/ SyncActiveThreadIds \/ Finish \/ Gate \/ Answer \/ Model \/ ReadFails
  BY <1>6
  DEF PutThread, SyncActiveThreadIds, Finish, FinishThread, FinishStart, FinishWait, FinishResume,
      FinishEnd, Gate, EvaluatePolicy, PutCheckpoint, PutCheckpointOnThread, MarkWaitingApproval,
      Answer, MarkRunning, CancelDenied, BeginCancel, AnswerTooLate, ResumeApproved, Model,
      CompleteTurn, FailTurn, EndTurn, ReadFails
<1>7. CASE IoFails \/ Restart
  BY <1>5, <1>7 DEF IoFails, FailAccess, FailAppend, FailTool, FailFile, Restart
<1>8. QED
  BY <1>2, <1>3, <1>4, <1>6, <1>7 DEF Next, Server, Write, vars

LEMMA LogKept ==
  ASSUME Shape, [Next]_vars, NEW th \in Thread, NEW event, NEW t, LoggedFor(th, event, t)
  PROVE  LoggedFor(th, event, t)'
<1>1. PICK i \in DOMAIN log[th] : log[th][i].event = event /\ log[th][i].turn = t
  BY DEF LoggedFor
<1>2. i \in DOMAIN log'[th] /\ log'[th][i] = log[th][i]
  <2>1. ASSUME NEW uh \in Thread, NEW e \in LogEntry,
               log' = [log EXCEPT ![uh] = Append(@, e)]
        PROVE  i \in DOMAIN log'[th] /\ log'[th][i] = log[th][i]
    <3>1. log[th] \in Seq(LogEntry) /\ log'[th] \in {log[th], Append(log[th], e)}
      BY <2>1 DEF Shape, TypeOK
    <3>2. QED
      BY <3>1
  <2>2. QED
    BY <2>1, LogGrows
<1>3. QED
  BY <1>1, <1>2 DEF LoggedFor

(* An identifier stands for one request for good.                          *)
LEMMA RequestKept ==
  Shape /\ [Next]_vars => \A t \in Turn : request[t] # None => request'[t] = request[t]
BY DEF Shape, TypeOK, Next, Client, StartThread, ResumeThread, CallTool, AppendToolEntry,
       ForkThread, StartTurn, CancelTurn, BeginCancel, RespondApproval, UpdateRuntimeConfig, Server,
       Write, AppendTurnLog, PutThread, SyncActiveThreadIds, Finish, FinishThread, FinishStart,
       FinishWait, FinishResume, FinishEnd, Gate, EvaluatePolicy, PutCheckpoint,
       PutCheckpointOnThread, MarkWaitingApproval, Answer, MarkRunning, CancelDenied, AnswerTooLate,
       ResumeApproved, Model, CompleteTurn, FailTurn, EndTurn, ReadFails, RunTool, IoFails, Restart,
       vars

(* Only FinishEnd tells clients of an end.                                 *)
LEMMA EndsPublished ==
  [Next]_vars => \/ FinishEnd
                 \/ \A t \in Turn, e \in TerminalEvent :
                      <<e, t>> \in published' => <<e, t>> \in published
<1> SUFFICES ASSUME [Next]_vars, ~FinishEnd
             PROVE  \A t \in Turn, e \in TerminalEvent :
                      <<e, t>> \in published' => <<e, t>> \in published
  OBVIOUS
<1>1. CASE UNCHANGED published
  BY <1>1
<1>2. ASSUME NEW t, NEW event, event \notin TerminalEvent, Publish(event, t)
      PROVE  \A u \in Turn, e \in TerminalEvent :
               <<e, u>> \in published' => <<e, u>> \in published
  BY <1>2 DEF Publish
<1>3. CASE Client
  <2>1. CASE \E t \in Turn, d \in Decision : RespondApproval(t, d)
    BY <1>2, <2>1 DEF RespondApproval, Decision, TerminalEvent
  <2>2. CASE ~\E t \in Turn, d \in Decision : RespondApproval(t, d)
    BY <1>1, <1>3, <2>2
    DEF Client, StartThread, ResumeThread, CallTool, AppendToolEntry, ForkThread, StartTurn,
        CancelTurn, BeginCancel, UpdateRuntimeConfig, ghosts
  <2>3. QED
    BY <2>1, <2>2
<1>4. CASE FinishStart
  BY <1>2, <1>4 DEF FinishStart, TerminalEvent
<1>5. CASE FinishWait
  BY <1>2, <1>5 DEF FinishWait, TerminalEvent
<1>6. CASE Write \/ FinishThread \/ FinishResume
  BY <1>1, <1>6 DEF Write, AppendTurnLog, PutThread, SyncActiveThreadIds, FinishThread,
                    FinishResume, ghosts
<1>7. CASE Gate
  BY <1>1, <1>7 DEF Gate, EvaluatePolicy, HandToModel, PutCheckpoint, PutCheckpointOnThread,
                    MarkWaitingApproval, ghosts
<1>8. CASE Answer \/ Model \/ ReadFails
  BY <1>1, <1>8 DEF Answer, MarkRunning, CancelDenied, BeginCancel, AnswerTooLate, ResumeApproved,
                    HandToModel, Model, CompleteTurn, FailTurn, EndTurn, ReadFails, ghosts
<1>9. CASE RunTool \/ IoFails \/ Restart \/ UNCHANGED vars
  BY <1>1, <1>9 DEF RunTool, IoFails, Restart, vars, ghosts
<1>10. QED
  BY <1>3, <1>4, <1>5, <1>6, <1>7, <1>8, <1>9 DEF Next, Server, Finish

(* A job comes to write an end by appending it.                            *)
LEMMA WritingKept ==
  Shape /\ [Next]_vars /\ Writing' =>
    \/ AppendTurnLog
    \/ Writing /\ UNCHANGED <<job.thread, job.op, job.turn>>
BY IdleType
DEF Writing, Shape, TypeOK, JobRecord, At, Next, Client, StartThread, ResumeThread, CallTool,
    ForkThread, StartTurn, CancelTurn, BeginCancel, RespondApproval, UpdateRuntimeConfig, Server,
    Write, PutThread, SyncActiveThreadIds, Finish, FinishThread, FinishStart, FinishWait,
    FinishResume, FinishEnd, Gate, EvaluatePolicy, HandToModel, PutCheckpoint,
    PutCheckpointOnThread, MarkWaitingApproval, Answer, MarkRunning, CancelDenied, AnswerTooLate,
    ResumeApproved, Model, CompleteTurn, FailTurn, EndTurn, ReadFails, RunTool, IoFails, FailAccess,
    FailAppend, FailTool, FailFile, Restart, vars, memory, Job, Transition, TerminalEvent

LEMMA RecordedNext == Shape /\ Recorded /\ [Next]_vars => Recorded'
<1> SUFFICES ASSUME Shape, Recorded, [Next]_vars PROVE Recorded'
  OBVIOUS
<1>1. ASSUME NEW t \in Turn, NEW e \in TerminalEvent, <<e, t>> \in published'
      PROVE  request'[t] # None /\ LoggedFor(request[t].thread, e, t)'
  <2>1. CASE <<e, t>> \in published
    <3>1. request[t] # None /\ LoggedFor(request[t].thread, e, t)
      BY <2>1 DEF Recorded, PublishedIsLogged
    <3>2. request'[t] = request[t] /\ request[t].thread \in Thread
      BY <3>1, RequestKept DEF Shape, TypeOK, RequestRecord
    <3>3. LoggedFor(request[t].thread, e, t)'
      <4> DEFINE th == request[t].thread
      <4>1. \E i \in DOMAIN log'[th] : log'[th][i].event = e /\ log'[th][i].turn = t
        BY <3>1, <3>2, LogKept DEF LoggedFor
      <4>2. QED
        BY <3>2, <4>1 DEF LoggedFor
    <3>4. QED
      BY <3>1, <3>2, <3>3
  <2>2. CASE <<e, t>> \notin published
    <3>1. FinishEnd
      BY <1>1, <2>2, EndsPublished
    <3>2. e = job.op /\ t = job.turn /\ Writing /\ UNCHANGED <<log, request>>
      BY <1>1, <2>2, <3>1 DEF FinishEnd, Publish, Writing, At, disk
    <3>3. request[t] # None /\ request[t].thread = job.thread
      BY <3>1, <3>2 DEF FinishEnd, Shape, JobShape, At, TerminalEvent, ThreadOp
    <3>4. QED
      BY <3>2, <3>3 DEF Recorded, LoggedFor
  <2>3. QED
    BY <2>1, <2>2
<1>2. ASSUME Writing' PROVE LoggedFor(job.thread, job.op, job.turn)'
  <2>1. CASE AppendTurnLog
    <3>1. /\ job.thread \in Thread /\ LifecycleEntry \in LogEntry
          /\ LifecycleEntry.turn = job.turn /\ LifecycleEntry.event = job.op
      BY <2>1, EntryTypes DEF AppendTurnLog, Shape
    <3>2. log' = [log EXCEPT ![job.thread] = Append(@, LifecycleEntry)]
          /\ UNCHANGED <<job.thread, job.op, job.turn>>
      BY <2>1 DEF AppendTurnLog, AppendEntry, Shape, TypeOK, JobRecord
    <3>3. log[job.thread] \in Seq(LogEntry)
          /\ log'[job.thread] = Append(log[job.thread], LifecycleEntry)
      BY <3>1, <3>2 DEF Shape, TypeOK
    <3>4. /\ Len(log[job.thread]) + 1 \in DOMAIN log'[job.thread]
          /\ log'[job.thread][Len(log[job.thread]) + 1] = LifecycleEntry
      BY <3>3
    <3>5. QED
      BY <3>1, <3>2, <3>4 DEF LoggedFor
  <2>2. CASE Writing /\ UNCHANGED <<job.thread, job.op, job.turn>>
    <3>1. job.thread \in Thread
      BY <2>2 DEF Writing, Shape, JobShape
    <3>2. LoggedFor(job.thread, job.op, job.turn)
      BY <2>2 DEF Recorded
    <3> DEFINE th == job.thread
               e  == job.op
               t  == job.turn
    <3>3. \E i \in DOMAIN log'[th] : log'[th][i].event = e /\ log'[th][i].turn = t
      BY <3>1, <3>2, LogKept DEF LoggedFor
    <3>4. QED
      BY <2>2, <3>3 DEF LoggedFor
  <2>3. QED
    BY <1>2, <2>1, <2>2, WritingKept
<1>3. QED
  BY <1>1, <1>2 DEF Recorded, PublishedIsLogged

(* Clients are told that a turn completed, failed or was cancelled only    *)
(* after its log says so, whichever write failed on the way.               *)
THEOREM EndsAreOnRecord == Spec => []PublishedIsLogged
<1>1. Init => Recorded
  BY DEF Init, Recorded, PublishedIsLogged, Writing, Idle
<1>2. Recorded => PublishedIsLogged
  BY DEF Recorded
<1>3. QED
  BY <1>1, <1>2, InitShape, NextShape, RecordedNext, PTL DEF Spec

-----------------------------------------------------------------------------
(* A thread file never runs ahead of its log.  The projection is drafted   *)
(* when a transition begins and written after the entry: the invariant     *)
(* says what the log must hold at each step in between.                    *)

Holds(entries, event, t) ==
  \E i \in DOMAIN entries : entries[i].event = event /\ entries[i].turn = t

Backed(entries, rec) ==
  /\ rec.status = "interrupted"      => Holds(entries, "turn_cancelled", rec.latest)
  /\ rec.status = "failed"           => Holds(entries, "turn_failed", rec.latest)
  /\ rec.status = "waiting_approval" => Holds(entries, "approval_wait", rec.latest)
  /\ rec.latest # None               => Holds(entries, "turn_started", rec.latest)

(* What the entry of an event lets a draft say.                            *)
Drafted(event, t, rec) ==
  /\ rec.latest = t
  /\ rec.status = "interrupted"      => event = "turn_cancelled"
  /\ rec.status = "failed"           => event = "turn_failed"
  /\ rec.status = "waiting_approval" => event = "approval_wait"

(* The job serves a turn whose start is on record.                         *)
Serving ==
  /\ job.at # "idle" /\ job.op \notin ThreadOp
  /\ ~(At("append") /\ job.op = "turn_started")

TrailFiles == \A th \in Thread : thread[th] # None => Backed(log[th], thread[th])
TrailTurns == \A t \in Turn : open[t] # "none" \/ approval[t] # "none" =>
                Holds(log[request[t].thread], "turn_started", t)
TrailJob ==
  /\ Serving => Holds(log[job.thread], "turn_started", job.turn)
  /\ At("append") => Drafted(job.op, job.turn, job.draft)
  /\ At("put") => Backed(log[job.thread], job.draft)

Trail == TrailFiles /\ TrailTurns /\ TrailJob

(* Entries stay.                                                           *)
LEMMA HoldsKept ==
  ASSUME Shape, [Next]_vars
  PROVE  /\ \A th \in Thread : \A event, t :
              Holds(log[th], event, t) => Holds(log'[th], event, t)
         /\ \A th \in Thread : \A rec : Backed(log[th], rec) => Backed(log'[th], rec)
<1>1. ASSUME NEW th \in Thread, NEW event, NEW t, Holds(log[th], event, t)
      PROVE  Holds(log'[th], event, t)
  <2>1. LoggedFor(th, event, t)
    BY <1>1 DEF Holds, LoggedFor
  <2>2. LoggedFor(th, event, t)'
    BY <2>1, LogKept
  <2>3. QED
    BY <2>2 DEF Holds, LoggedFor
<1>2. QED
  BY <1>1 DEF Backed

(* The entry that was appended is on record.                               *)
LEMMA HoldsAppended ==
  ASSUME Shape, AppendTurnLog
  PROVE  /\ Holds(log'[job.thread], job.op, job.turn)
         /\ job.thread \in Thread /\ job.turn \in Turn /\ job.op \in LifecycleEvent
         /\ log[job.thread] \in Seq(LogEntry) /\ LifecycleEntry \in LogEntry
         /\ log'[job.thread] = Append(log[job.thread], LifecycleEntry)
         /\ LifecycleEntry.turn = job.turn /\ LifecycleEntry.event = job.op
         /\ job'.thread = job.thread /\ job'.op = job.op /\ job'.turn = job.turn
         /\ job'.draft = job.draft /\ job'.at = "put"
<1>1. /\ job.thread \in Thread /\ job.turn \in Turn /\ job.op \in LifecycleEvent
      /\ LifecycleEntry \in LogEntry
      /\ LifecycleEntry.turn = job.turn /\ LifecycleEntry.event = job.op
  BY EntryTypes DEF AppendTurnLog, Shape, JobShape, At
<1>2. /\ log[job.thread] \in Seq(LogEntry)
      /\ log'[job.thread] = Append(log[job.thread], LifecycleEntry)
  BY <1>1 DEF AppendTurnLog, AppendEntry, Shape, TypeOK
<1>3. /\ Len(log[job.thread]) + 1 \in DOMAIN log'[job.thread]
      /\ log'[job.thread][Len(log[job.thread]) + 1] = LifecycleEntry
  BY <1>1, <1>2
<1>4. /\ job'.thread = job.thread /\ job'.op = job.op /\ job'.turn = job.turn
      /\ job'.draft = job.draft /\ job'.at = "put"
  BY DEF AppendTurnLog, Shape, TypeOK, JobRecord
<1>5. QED
  BY <1>1, <1>2, <1>3, <1>4 DEF Holds

(* Only a projection's write and a checkpoint's touch a thread file.       *)
LEMMA FilesWritten ==
  Shape /\ [Next]_vars => thread' = thread \/ PutThread \/ PutCheckpointOnThread
BY CutWritten
DEF Next, Client, StartThread, ResumeThread, CallTool, AppendToolEntry, ForkThread, StartTurn,
    CancelTurn, BeginCancel, RespondApproval, UpdateRuntimeConfig, Server, Write, AppendTurnLog,
    SyncActiveThreadIds, Finish, FinishThread, FinishStart, FinishWait, FinishResume,
    FinishEnd, Gate, EvaluatePolicy, PutCheckpoint, MarkWaitingApproval, Answer,
    MarkRunning, CancelDenied, AnswerTooLate, ResumeApproved, Model, CompleteTurn, FailTurn,
    EndTurn, ReadFails, RunTool, IoFails, FailAccess, FailAppend, FailTool, FailFile, Restart,
    vars, disk

LEMMA TrailFilesNext == Shape /\ Trail /\ [Next]_vars => TrailFiles'
<1> SUFFICES ASSUME Shape, Trail, [Next]_vars, NEW th \in Thread, thread'[th] # None
             PROVE  Backed(log'[th], thread'[th])
  BY DEF TrailFiles
<1>1. CASE thread'[th] = thread[th]
  BY <1>1, HoldsKept DEF Trail, TrailFiles
<1>2. CASE PutThread
  <2>1. thread'[th] # thread[th] => th = job.thread /\ thread'[th] = job.draft
    BY <1>2 DEF PutThread, Shape, TypeOK
  <2>2. Backed(log[job.thread], job.draft)
    BY <1>2 DEF PutThread, Trail, TrailJob
  <2>3. QED
    BY <1>1, <2>1, <2>2, HoldsKept
<1>3. CASE PutCheckpointOnThread
  <2>1. thread'[th] # thread[th] =>
          th = job.thread /\ thread'[th] = [thread[th] EXCEPT !.checkpoint = job.turn]
    BY <1>3 DEF PutCheckpointOnThread, Shape, TypeOK
  <2>2. job.thread \in Thread /\ thread[job.thread] # None /\ thread[job.thread] \in ThreadRecord
    BY <1>3 DEF PutCheckpointOnThread, At, Shape, TypeOK, JobShape
  <2>3. thread'[th] # thread[th] =>
          Backed(log[th], thread[th]) /\ thread'[th].status = thread[th].status
                                      /\ thread'[th].latest = thread[th].latest
    BY <2>1, <2>2 DEF ThreadRecord, Trail, TrailFiles
  <2>4. thread'[th] # thread[th] => Backed(log[th], thread'[th])
    BY <2>3 DEF Backed
  <2>5. QED
    BY <1>1, <2>4, HoldsKept
<1>4. QED
  BY <1>1, <1>2, <1>3, FilesWritten

(* A turn enters active_turns when its start is written; an approval       *)
(* request is made when its wait is.                                       *)
LEMMA OpenedBy ==
  Shape /\ [Next]_vars =>
    \/ \A t \in Turn : open'[t] # "none" => open[t] # "none"
    \/ FinishStart
<1> SUFFICES ASSUME Shape, [Next]_vars, ~FinishStart, NEW t \in Turn, open'[t] # "none"
             PROVE  open[t] # "none"
  OBVIOUS
<1>1. CASE open' = open
  BY <1>1
<1>2. ASSUME NEW u \in Turn, open' = Removed(u) PROVE open[t] # "none"
  BY <1>2 DEF Removed, Shape, TypeOK
<1>3. ASSUME NEW u \in Turn, InActiveTurns(u), NEW s, open' = [open EXCEPT ![u] = s]
      PROVE  open[t] # "none"
  BY <1>3 DEF InActiveTurns, Shape, TypeOK
<1>4. CASE Client
  BY <1>1, <1>2, <1>4
  DEF Client, StartThread, ResumeThread, CallTool, ForkThread, StartTurn, CancelTurn,
      BeginCancel, RespondApproval, UpdateRuntimeConfig, memory
<1>5. CASE Write \/ Finish \/ ReadFails \/ RunTool \/ IoFails \/ UNCHANGED vars
  BY <1>1, <1>5
  DEF Write, AppendTurnLog, PutThread, SyncActiveThreadIds, Finish, FinishThread, FinishWait,
      FinishResume, FinishEnd, ReadFails, RunTool, IoFails, memory, vars
<1>6. CASE Gate \/ Answer \/ Model
  <2>1. CASE EvaluatePolicy \/ PutCheckpoint \/ PutCheckpointOnThread \/ AnswerTooLate \/ ResumeApproved
    BY <1>1, <2>1 DEF EvaluatePolicy, PutCheckpoint, PutCheckpointOnThread, AnswerTooLate,
                      ResumeApproved, memory
  <2>2. CASE MarkWaitingApproval \/ MarkRunning
    <3>1. job.turn \in Turn
      BY <2>2 DEF MarkWaitingApproval, MarkRunning, At, Shape, JobShape, ThreadOp
    <3>2. QED
      BY <1>3, <2>2, <3>1 DEF MarkWaitingApproval, MarkRunning
  <2>3. CASE CancelDenied \/ Model
    <3>1. job.turn \in Turn
      BY <2>3 DEF CancelDenied, Model, CompleteTurn, FailTurn, EndTurn, At, Shape, JobShape, ThreadOp
    <3>2. QED
      BY <1>2, <2>3, <3>1 DEF CancelDenied, BeginCancel, Model, CompleteTurn, FailTurn, EndTurn
  <2>4. QED
    BY <1>6, <2>1, <2>2, <2>3 DEF Gate, Answer, Model
<1>7. CASE Restart
  BY <1>7 DEF Restart
<1>8. QED
  BY <1>4, <1>5, <1>6, <1>7 DEF Next, Server, Finish

LEMMA AskedBy ==
  Shape /\ [Next]_vars =>
    \/ \A t \in Turn : approval'[t] # "none" => approval[t] # "none"
    \/ FinishWait
<1> SUFFICES ASSUME Shape, [Next]_vars, ~FinishWait
             PROVE  \A t \in Turn : approval'[t] # "none" => approval[t] # "none"
  OBVIOUS
<1>1. CASE \E t \in Turn, d \in Decision : RespondApproval(t, d)
  BY <1>1 DEF RespondApproval, Shape, TypeOK
<1>2. CASE Restart
  BY <1>2 DEF Restart
<1>3. CASE Client /\ ~\E t \in Turn, d \in Decision : RespondApproval(t, d)
  BY <1>3
  DEF Client, StartThread, ResumeThread, CallTool, ForkThread, StartTurn, CancelTurn,
      BeginCancel, UpdateRuntimeConfig, memory
<1>4. CASE Write \/ Finish \/ ReadFails \/ RunTool \/ IoFails \/ UNCHANGED vars
  BY <1>4
  DEF Write, AppendTurnLog, PutThread, SyncActiveThreadIds, Finish, FinishThread, FinishStart,
      FinishResume, FinishEnd, ReadFails, RunTool, IoFails, memory, vars
<1>5. CASE Gate \/ Answer \/ Model
  BY <1>5
  DEF Gate, EvaluatePolicy, PutCheckpoint, PutCheckpointOnThread, MarkWaitingApproval, Answer,
      MarkRunning, CancelDenied, BeginCancel, AnswerTooLate, ResumeApproved, Model, CompleteTurn,
      FailTurn, EndTurn, memory
<1>6. QED
  BY <1>1, <1>2, <1>3, <1>4, <1>5 DEF Next, Server

LEMMA TrailTurnsNext == Shape /\ Trail /\ [Next]_vars => TrailTurns'
<1> SUFFICES ASSUME Shape, Trail, [Next]_vars, NEW t \in Turn,
                    open'[t] # "none" \/ approval'[t] # "none"
             PROVE  Holds(log'[request'[t].thread], "turn_started", t)
  BY DEF TrailTurns
<1>1. CASE open[t] # "none" \/ approval[t] # "none"
  <2>1. Holds(log[request[t].thread], "turn_started", t)
    BY <1>1 DEF Trail, TrailTurns
  <2>2. request'[t] = request[t] /\ request[t].thread \in Thread
    BY <1>1, RequestKept DEF Shape, TurnShape, TypeOK, RequestRecord
  <2>3. QED
    BY <2>1, <2>2, HoldsKept
<1>2. CASE open[t] = "none" /\ approval[t] = "none"
  <2>1. FinishStart \/ FinishWait
    BY <1>2, OpenedBy, AskedBy
  <2>2. /\ At("done") /\ job.op \in {"turn_started", "approval_wait"}
        /\ t = job.turn /\ UNCHANGED <<log, request>>
    BY <1>2, <2>1 DEF FinishStart, FinishWait, Shape, TypeOK, disk
  <2>3. request[t].thread = job.thread /\ Serving
    BY <2>2 DEF At, Shape, JobShape, ThreadOp, Serving
  <2>4. QED
    BY <2>2, <2>3 DEF Trail, TrailJob
<1>3. QED
  BY <1>1, <1>2

(* A step that goes on with a turn already begun and drafts nothing.       *)
LEMMA TrailJobKept ==
  ASSUME Shape, Trail, [Next]_vars, job'.at \notin {"append", "put"},
         Serving' => Serving /\ job'.thread = job.thread /\ job'.turn = job.turn
  PROVE  TrailJob'
<1>1. Serving' => Holds(log'[job'.thread], "turn_started", job'.turn)
  <2>1. Serving => job.thread \in Thread
    BY DEF Serving, Shape, JobShape
  <2>2. QED
    BY <2>1, HoldsKept DEF Trail, TrailJob
<1>2. QED
  BY <1>1 DEF TrailJob, At

LEMMA TrailJobNext == Shape /\ Trail /\ [Next]_vars => TrailJob'
<1> SUFFICES ASSUME Shape, Trail, [Next]_vars PROVE TrailJob'
  OBVIOUS
<1> USE DEF disk, memory, ghosts, limits
<1>1. CASE UNCHANGED <<job, log>>
  BY <1>1 DEF Trail, TrailJob, Serving, At
<1>2. CASE job' = Idle
  BY <1>2, TrailJobKept, IdleType DEF Serving
<1>3. ASSUME NEW op \in ThreadOp, NEW th \in Thread, NEW draft \in ThreadRecord,
             job' = Job("put", op, th, None, draft), log' = log,
             draft.status = "active", draft.latest # None => Holds(log[th], "turn_started", draft.latest)
      PROVE  TrailJob'
  BY <1>3 DEF TrailJob, Serving, At, Job, Backed
<1>4. ASSUME NEW op \in LifecycleEvent, NEW th \in Thread, NEW t \in Turn, NEW draft,
             job' = Transition(op, th, t, draft), log' = log, Drafted(op, t, draft),
             op # "turn_started" => Holds(log[th], "turn_started", t)
      PROVE  TrailJob'
  BY <1>4 DEF TrailJob, Serving, At, Job, Transition
<1>5. ASSUME NEW th \in Thread, NEW t \in Turn, BeginCancel(th, t) PROVE TrailJob'
  <2>1. Holds(log[th], "turn_started", t)
    BY <1>5 DEF BeginCancel, InActiveTurns, Trail, TrailTurns
  <2>2. thread[th] \in ThreadRecord
    BY <1>5 DEF BeginCancel, Readable, Created, Shape, TypeOK
  <2>3. Drafted("turn_cancelled", t, InterruptedThread(thread[th], t, request[t].goal))
    BY <2>2 DEF Drafted, InterruptedThread, ThreadRecord
  <2>4. QED
    BY <1>4, <1>5, <2>1, <2>3 DEF BeginCancel, LifecycleEvent, TerminalEvent
<1>6. CASE Client
  <2>1. ASSUME NEW th \in Thread, StartThread(th) PROVE TrailJob'
    BY <1>3, <2>1, NoRecordType DEF StartThread, NoRecord, ThreadOp
  <2>2. ASSUME NEW th \in Thread, ResumeThread(th) PROVE TrailJob'
    <3> DEFINE draft == [thread[th] EXCEPT !.status = "active"]
    <3>1. thread[th] # None /\ thread[th] \in ThreadRecord
      BY <2>2 DEF ResumeThread, Readable, Created, Shape, TypeOK
    <3>2. /\ draft \in ThreadRecord /\ draft.status = "active"
          /\ draft.latest = thread[th].latest
      BY <3>1 DEF ThreadRecord, ThreadStatus
    <3>3. draft.latest # None => Holds(log[th], "turn_started", draft.latest)
      BY <3>1, <3>2 DEF Trail, TrailFiles, Backed
    <3>4. job' = Job("put", "thread_resumed", th, None, draft) /\ log' = log
      BY <2>2 DEF ResumeThread
    <3> HIDE DEF draft
    <3>5. QED
      BY <1>3, <3>2, <3>3, <3>4 DEF ThreadOp
  <2>3. ASSUME NEW th \in Thread, CallTool(th) PROVE TrailJob'
    BY <2>3, TrailJobKept DEF CallTool, At, Serving
  <2>4. ASSUME NEW parent \in Thread, NEW child \in Thread, ForkThread(parent, child) PROVE TrailJob'
    <3> DEFINE draft == ForkedThread(thread[parent])
    <3>1. thread[parent] \in ThreadRecord
      BY <2>4 DEF ForkThread, Readable, Created, Shape, TypeOK
    <3>2. draft \in ThreadRecord /\ draft.status = "active" /\ draft.latest = None
      BY <3>1 DEF ThreadRecord, ThreadStatus, ForkedThread
    <3>3. job' = Job("put", "thread_forked", child, None, draft) /\ log' = log
      BY <2>4 DEF ForkThread
    <3> HIDE DEF draft
    <3>4. QED
      BY <1>3, <3>2, <3>3 DEF ThreadOp
  <2>5. ASSUME NEW th \in Thread, NEW t \in Turn, NEW g \in Goal, NEW r \in Risks,
               StartTurn(th, t, g, r)
        PROVE  TrailJob'
    <3>1. thread[th] \in ThreadRecord
      BY <2>5 DEF StartTurn, Readable, Created, Shape, TypeOK
    <3>2. Drafted("turn_started", t, StartedThread(thread[th], t, g))
      BY <3>1 DEF Drafted, StartedThread, ThreadRecord
    <3>3. QED
      BY <1>4, <2>5, <3>2 DEF StartTurn, LifecycleEvent
  <2>6. ASSUME NEW th \in Thread, NEW t \in Turn, CancelTurn(th, t) PROVE TrailJob'
    BY <1>5, <2>6 DEF CancelTurn
  <2>7. ASSUME NEW t \in Turn, NEW d \in Decision, RespondApproval(t, d) PROVE TrailJob'
    BY <2>7 DEF RespondApproval, Trail, TrailTurns, TrailJob, At, Job
  <2>8. ASSUME NEW p \in Policy, UpdateRuntimeConfig(p) PROVE TrailJob'
    BY <1>1, <2>8 DEF UpdateRuntimeConfig
  <2>9. QED
    BY <1>6, <2>1, <2>2, <2>3, <2>4, <2>5, <2>6, <2>7, <2>8 DEF Client
<1>7. CASE AppendTurnLog
  <2>1. /\ Holds(log'[job.thread], job.op, job.turn)
        /\ job.thread \in Thread
        /\ job'.thread = job.thread /\ job'.op = job.op /\ job'.turn = job.turn
        /\ job'.draft = job.draft /\ job'.at = "put"
    BY <1>7, HoldsAppended
  <2>2. Holds(log'[job.thread], "turn_started", job.turn)
    <3>1. CASE job.op = "turn_started"
      BY <2>1, <3>1
    <3>2. CASE job.op # "turn_started"
      <4>1. Serving
        BY <1>7, <3>2 DEF AppendTurnLog, At, Serving, Shape, JobShape, LifecycleEvent, TerminalEvent, ThreadOp
      <4>2. QED
        BY <2>1, <4>1, HoldsKept DEF Trail, TrailJob
    <3>3. QED
      BY <3>1, <3>2
  <2>3. Drafted(job.op, job.turn, job.draft)
    BY <1>7 DEF AppendTurnLog, Trail, TrailJob
  <2>4. Backed(log'[job.thread], job.draft)
    BY <2>1, <2>2, <2>3 DEF Drafted, Backed
  <2>5. QED
    BY <2>1, <2>2, <2>4 DEF TrailJob, At
<1>8. CASE PutThread \/ SyncActiveThreadIds \/ PutCheckpoint \/ PutCheckpointOnThread
  BY <1>8, TrailJobKept
  DEF PutThread, SyncActiveThreadIds, PutCheckpoint, PutCheckpointOnThread, Serving, At, Shape, TypeOK,
      JobRecord
<1>9. CASE FinishStart \/ FinishResume \/ ResumeApproved
  BY <1>9, TrailJobKept
  DEF FinishStart, FinishResume, ResumeApproved, HandToModel, Job, Serving, At, ThreadOp, Shape, JobShape
<1>10. CASE EvaluatePolicy
  <2>1. job.op \notin ThreadOp
    BY <1>10 DEF EvaluatePolicy, At, Shape, JobShape
  <2>2. QED
    BY <1>10, <2>1, TrailJobKept
    DEF EvaluatePolicy, HandToModel, Job, Serving, At, Shape, TypeOK, JobRecord
<1>11. CASE FinishThread \/ FinishWait \/ FinishEnd \/ AnswerTooLate \/ ReadFails \/ Restart
  BY <1>2, <1>11 DEF FinishThread, FinishWait, FinishEnd, AnswerTooLate, ReadFails, Restart
<1>12. CASE IoFails
  <2>1. job' = Idle \/ (job' = job /\ job.at \in {"idle", "stream"})
    BY <1>12 DEF IoFails, FailAccess, FailAppend, FailTool, FailFile, CutTool, At
  <2>2. QED
    BY <1>2, <2>1, TrailJobKept DEF Serving, At
<1>13. CASE RunTool
  BY <1>13, TrailJobKept DEF RunTool, At, Serving
<1>14. CASE MarkWaitingApproval \/ MarkRunning \/ Model
  <2>1. /\ job.thread \in Thread /\ job.turn \in Turn /\ thread[job.thread] \in ThreadRecord
        /\ Holds(log[job.thread], "turn_started", job.turn)
    BY <1>14 DEF MarkWaitingApproval, MarkRunning, Model, CompleteTurn, FailTurn, EndTurn, At,
                 Shape, JobShape, TypeOK, Serving, Trail, TrailJob, ThreadOp
  <2>2. /\ Drafted("approval_wait", job.turn, WaitingThread(thread[job.thread], job.turn))
        /\ Drafted("approval_resolved", job.turn, RunningThread(thread[job.thread], job.turn))
        /\ Drafted("turn_completed", job.turn, CompletedThread(thread[job.thread], job.turn))
        /\ Drafted("turn_failed", job.turn, FailedThread(thread[job.thread], job.turn))
    BY <2>1 DEF Drafted, WaitingThread, RunningThread, CompletedThread, FailedThread, ThreadRecord
  <2>3. QED
    BY <1>4, <1>14, <2>1, <2>2
    DEF MarkWaitingApproval, MarkRunning, Model, CompleteTurn, FailTurn, EndTurn,
        LifecycleEvent, TerminalEvent
<1>15. CASE CancelDenied
  BY <1>5, <1>15 DEF CancelDenied, At, Shape, JobShape, Decision, ThreadOp
<1>16. CASE UNCHANGED vars
  BY <1>1, <1>16 DEF vars
<1>17. QED
  BY <1>6, <1>7, <1>8, <1>9, <1>10, <1>11, <1>12, <1>13, <1>14, <1>15, <1>16
  DEF Next, Server, Write, Finish, Gate, Answer

(* What a thread file says of its latest turn is in the thread's log,      *)
(* whichever of the two writes failed or was cut.                          *)
THEOREM FilesTrailTheLog == Spec => []ProjectionTrailsLog
<1>1. Init => Trail
  BY IdleType DEF Init, Trail, TrailFiles, TrailTurns, TrailJob, Serving, At
<1>2. Shape /\ Trail /\ [Next]_vars => Trail'
  BY TrailFilesNext, TrailTurnsNext, TrailJobNext DEF Trail
<1>3. Trail => ProjectionTrailsLog
  BY DEF Trail, TrailFiles, Backed, Holds, ProjectionTrailsLog, Readable, Created, LoggedFor
<1>4. QED
  BY <1>1, <1>2, <1>3, InitShape, NextShape, PTL DEF Spec

-----------------------------------------------------------------------------
(* The goal of a cancelled turn stays in its thread file.  Every draft is  *)
(* made from the file the job read and written some steps later: the       *)
(* invariant says what a draft may leave out, and that what it leaves out  *)
(* is on record by then.                                                   *)

Drafting == job.at \in {"append", "put"}

Superseded(entries, t, g) ==
  \E i, j \in DOMAIN entries :
    /\ i < j
    /\ entries[i].event = "turn_cancelled" /\ entries[i].turn = t
    /\ entries[j].event = "turn_started"
    /\ <<g, request[entries[j].turn].goal>> \in Mentions

StartsRequested ==
  \A th \in Thread : \A i \in DOMAIN log[th] :
    log[th][i].event = "turn_started" =>
      log[th][i].turn \in Turn /\ request[log[th][i].turn] # None

(* The memory of one cancelled turn.                                       *)
Kept(t) ==
  /\ thread[request[t].thread] # None
  /\ \/ request[t].goal \in thread[request[t].thread].commitments
     \/ ThreadFile(request[t].thread) \in torn
     \/ Superseded(log[request[t].thread], t, request[t].goal)

CancelledKept == \A t \in Turn : <<"turn_cancelled", t>> \in published => Kept(t)

DraftKeeps ==
  Drafting /\ thread[job.thread] # None =>
    \A h \in thread[job.thread].commitments :
      \/ h \in job.draft.commitments
      \/ job.op = "turn_started" /\ <<h, request[job.turn].goal>> \in Mentions

(* Nothing is appended between an entry and its projection.                *)
EntryIsLast ==
  At("put") /\ job.op \in LifecycleEvent =>
    /\ log[job.thread] # <<>>
    /\ log[job.thread][Len(log[job.thread])].event = job.op
    /\ log[job.thread][Len(log[job.thread])].turn = job.turn

CancelDrafted ==
  job.op = "turn_cancelled" =>
    /\ Drafting => request[job.turn].goal \in job.draft.commitments
    /\ At("done") => request[job.turn].goal \in thread[job.thread].commitments
    /\ ~At("sync")

Remembered == StartsRequested /\ CancelledKept /\ DraftKeeps /\ EntryIsLast /\ CancelDrafted

LEMMA TornGrows == [Next]_vars => torn \subseteq torn'
BY DEF Next, Client, StartThread, ResumeThread, CallTool, AppendToolEntry, AppendEntry, ForkThread,
       StartTurn, CancelTurn, BeginCancel, RespondApproval, UpdateRuntimeConfig, Server, Write,
       AppendTurnLog, PutThread, SyncActiveThreadIds, Finish, FinishThread, FinishStart,
       FinishWait, FinishResume, FinishEnd, Gate, EvaluatePolicy, PutCheckpoint,
       PutCheckpointOnThread, MarkWaitingApproval, Answer, MarkRunning, CancelDenied,
       AnswerTooLate, ResumeApproved, Model, CompleteTurn, FailTurn, EndTurn, ReadFails, RunTool,
       IoFails, FailAccess, FailAppend, FailTool, FailFile, CutAppend, CutTool, CutFile, CutEntry,
       Restart, vars, disk

(* A log keeps its entries and gains at most one at its end.               *)
LEMMA EntriesStay ==
  ASSUME Shape, [Next]_vars, NEW th \in Thread
  PROVE  /\ log[th] \in Seq(LogEntry)
         /\ DOMAIN log[th] \subseteq DOMAIN log'[th]
         /\ \A i \in DOMAIN log[th] : log'[th][i] = log[th][i]
<1>1. log[th] \in Seq(LogEntry)
  BY DEF Shape, TypeOK
<1>2. log'[th] = log[th] \/ \E e \in LogEntry : log'[th] = Append(log[th], e)
  BY LogGrows DEF Shape, TypeOK
<1>3. QED
  BY <1>1, <1>2

(* An entry that comes into a log is the entry of a job, or a tool's.      *)
LEMMA LifecycleLogged ==
  ASSUME Shape, [Next]_vars, NEW th \in Thread, NEW i \in DOMAIN log'[th],
         log'[th][i].event # "tool_completed", i \notin DOMAIN log[th]
  PROVE  /\ At("append")
         /\ job.turn \in Turn /\ request[job.turn] # None
         /\ log'[th][i] = LifecycleEntry
         /\ LifecycleEntry.turn = job.turn /\ LifecycleEntry.event = job.op
<1> USE DEF disk, memory, ghosts
<1>1. log[th] \in Seq(LogEntry)
  BY DEF Shape, TypeOK
<1>2. ASSUME NEW e \in LogEntry, NEW uh \in Thread,
             log' = [log EXCEPT ![uh] = Append(@, e)]
      PROVE  e.event # "tool_completed" /\ log'[th][i] = e
  BY <1>1, <1>2 DEF Shape, TypeOK
<1> DEFINE Logged == /\ At("append")
                     /\ job.turn \in Turn /\ request[job.turn] # None
                     /\ log'[th][i] = LifecycleEntry
                     /\ LifecycleEntry.turn = job.turn /\ LifecycleEntry.event = job.op
<1>3. ASSUME At("append"), AppendEntry(job.thread, LifecycleEntry) PROVE Logged
  <2>1. /\ job.thread \in Thread /\ job.turn \in Turn /\ request[job.turn] # None
        /\ LifecycleEntry \in LogEntry
        /\ LifecycleEntry.turn = job.turn /\ LifecycleEntry.event = job.op
    BY <1>3, EntryTypes DEF Shape
  <2>2. log'[th][i] = LifecycleEntry
    BY <1>2, <1>3, <2>1 DEF AppendEntry
  <2>3. QED
    BY <1>3, <2>1, <2>2
<1>4. ASSUME NEW uh \in Thread, NEW t \in Turn \cup {None}, AppendEntry(uh, ToolEntry(uh, t))
      PROVE  FALSE
  <2>1. ToolEntry(uh, t) \in LogEntry /\ ToolEntry(uh, t).event = "tool_completed"
    BY EntryTypes DEF Shape, ToolEntry
  <2>2. QED
    BY <1>2, <1>4, <2>1 DEF AppendEntry
<1>5. log' # log
  OBVIOUS
<1> HIDE DEF Logged
<1>6. ASSUME CutAppend \/ CutTool \/ CutFile \/ UNCHANGED disk PROVE Logged
  BY <1>3, <1>4, <1>5, <1>6 DEF CutAppend, CutTool, CutFile, CutEntry, Created
<1>7. ~Client
  BY <1>4, <1>5
  DEF Client, StartThread, ResumeThread, CallTool, AppendToolEntry, ForkThread, StartTurn,
      CancelTurn, BeginCancel, RespondApproval, UpdateRuntimeConfig
<1>8. ~RunTool
  <2>1. RunTool => job.thread \in Thread /\ job.turn \in Turn \cup {None}
    BY DEF RunTool, At, Shape, JobShape, TypeOK, JobRecord
  <2>2. QED
    BY <1>4, <2>1 DEF RunTool, AppendToolEntry
<1>9. AppendTurnLog => Logged
  BY <1>3 DEF AppendTurnLog
<1>10. ~(PutThread \/ SyncActiveThreadIds \/ Finish \/ Gate \/ Answer \/ Model \/ ReadFails)
  BY <1>5
  DEF PutThread, SyncActiveThreadIds, Finish, FinishThread, FinishStart, FinishWait, FinishResume,
      FinishEnd, Gate, EvaluatePolicy, PutCheckpoint, PutCheckpointOnThread, MarkWaitingApproval,
      Answer, MarkRunning, CancelDenied, BeginCancel, AnswerTooLate, ResumeApproved, Model,
      CompleteTurn, FailTurn, EndTurn, ReadFails
<1>11. IoFails \/ Restart => Logged
  BY <1>6 DEF IoFails, FailAccess, FailAppend, FailTool, FailFile, Restart
<1>12. Logged
  BY <1>5, <1>7, <1>8, <1>9, <1>10, <1>11 DEF Next, Server, Write, vars
<1>13. QED
  BY <1>12 DEF Logged

LEMMA StartsRequestedNext == Shape /\ StartsRequested /\ [Next]_vars => StartsRequested'
<1> SUFFICES ASSUME Shape, StartsRequested, [Next]_vars, NEW th \in Thread,
                    NEW i \in DOMAIN log'[th], log'[th][i].event = "turn_started"
             PROVE  log'[th][i].turn \in Turn /\ request'[log'[th][i].turn] # None
  BY DEF StartsRequested
<1>1. log'[th][i].turn \in Turn /\ request[log'[th][i].turn] # None
  BY EntriesStay, LifecycleLogged DEF StartsRequested
<1>2. QED
  BY <1>1, RequestKept

LEMMA SupersededKept ==
  ASSUME Shape, StartsRequested, [Next]_vars, NEW th \in Thread, NEW t, NEW g,
         Superseded(log[th], t, g)
  PROVE  Superseded(log[th], t, g)'
<1>1. PICK i, j \in DOMAIN log[th] :
        /\ i < j
        /\ log[th][i].event = "turn_cancelled" /\ log[th][i].turn = t
        /\ log[th][j].event = "turn_started"
        /\ <<g, request[log[th][j].turn].goal>> \in Mentions
  BY DEF Superseded
<1>2. /\ i \in DOMAIN log'[th] /\ j \in DOMAIN log'[th]
      /\ log'[th][i] = log[th][i] /\ log'[th][j] = log[th][j]
  BY EntriesStay
<1>3. request'[log[th][j].turn] = request[log[th][j].turn]
  BY <1>1, RequestKept DEF StartsRequested
<1>4. QED
  BY <1>1, <1>2, <1>3 DEF Superseded

(* A write of the projection remembers what the file did, or the log says  *)
(* what took its place.                                                    *)
LEMMA PutKeeps ==
  ASSUME Shape, Recorded, Remembered, PutThread, NEW t \in Turn,
         <<"turn_cancelled", t>> \in published, Kept(t)
  PROVE  Kept(t)'
<1> DEFINE th == request[t].thread
           g  == request[t].goal
           n  == Len(log[job.thread])
<1>1. UNCHANGED <<log, torn, request>> /\ job.at = "put"
  BY DEF PutThread, memory, At
<1>2. th \in Thread /\ request[t] # None
  BY DEF Recorded, TerminalEvent, Shape, TypeOK, RequestRecord
<1>3. job.thread \in Thread /\ job.draft \in ThreadRecord /\ job.draft # None
  BY <1>1, NoneAssumption DEF Shape, TypeOK, JobShape, JobRecord
<1>4. thread' = [thread EXCEPT ![job.thread] = job.draft]
  BY DEF PutThread
<1>5. thread'[th] # None
  BY <1>2, <1>3, <1>4 DEF Kept, Shape, TypeOK
<1>6. Superseded(log[th], t, g) => Superseded(log[th], t, g)'
  BY <1>1 DEF Superseded
<1>7. CASE th # job.thread
  <2>1. thread'[th] = thread[th]
    BY <1>2, <1>4, <1>7 DEF Shape, TypeOK
  <2>2. QED
    BY <1>1, <1>5, <1>6, <2>1 DEF Kept
<1>8. CASE th = job.thread /\ g \in thread[th].commitments
  <2>1. thread'[th] = job.draft
    BY <1>3, <1>4, <1>8 DEF Shape, TypeOK
  <2>2. CASE g \in job.draft.commitments
    BY <1>1, <1>5, <2>1, <2>2 DEF Kept
  <2>3. CASE job.op = "turn_started" /\ <<g, request[job.turn].goal>> \in Mentions
    <3>1. /\ log[th] # <<>> /\ log[th][n].event = "turn_started" /\ log[th][n].turn = job.turn
      BY <1>1, <1>8, <2>3 DEF Remembered, EntryIsLast, At, LifecycleEvent
    <3>2. log[th] \in Seq(LogEntry)
      BY <1>2 DEF Shape, TypeOK
    <3>3. PICK i \in DOMAIN log[th] : log[th][i].event = "turn_cancelled" /\ log[th][i].turn = t
      BY DEF Recorded, PublishedIsLogged, TerminalEvent, LoggedFor
    <3>4. n \in DOMAIN log[th] /\ i < n
      <4>1. n \in DOMAIN log[th] /\ i <= n /\ i \in Nat
        BY <1>8, <3>1, <3>2
      <4>2. i # n
        BY <3>1, <3>3
      <4>3. QED
        BY <4>1, <4>2, <3>2, <1>8
    <3>5. Superseded(log[th], t, g)
      BY <2>3, <3>1, <3>3, <3>4 DEF Superseded
    <3>6. QED
      BY <1>1, <1>5, <1>6, <3>5 DEF Kept
  <2>4. QED
    <3>1. thread[job.thread] # None /\ Drafting
      BY <1>1, <1>8 DEF Kept, Drafting
    <3>2. QED
      BY <1>8, <2>2, <2>3, <3>1 DEF Remembered, DraftKeeps
<1>9. CASE ThreadFile(th) \in torn \/ Superseded(log[th], t, g)
  BY <1>1, <1>5, <1>6, <1>9 DEF Kept
<1>10. QED
  BY <1>7, <1>8, <1>9 DEF Kept

LEMMA CancelledKeptNext == Shape /\ Recorded /\ Remembered /\ [Next]_vars => CancelledKept'
<1> SUFFICES ASSUME Shape, Recorded, Remembered, [Next]_vars, NEW t \in Turn,
                    <<"turn_cancelled", t>> \in published'
             PROVE  Kept(t)'
  BY DEF CancelledKept
<1> DEFINE th == request[t].thread
           g  == request[t].goal
<1>1. CASE <<"turn_cancelled", t>> \in published
  <2>1. Kept(t)
    BY <1>1 DEF Remembered, CancelledKept
  <2>2. request'[t] = request[t] /\ th \in Thread
    BY <1>1, RequestKept DEF Recorded, TerminalEvent, Shape, TypeOK, RequestRecord
  <2>3. ThreadFile(th) \in torn => ThreadFile(th) \in torn'
    BY TornGrows
  <2>4. Superseded(log[th], t, g) => Superseded(log[th], t, g)'
    <3>1. \A uh \in Thread : \A h : Superseded(log[uh], t, h) => Superseded(log[uh], t, h)'
      BY SupersededKept DEF Remembered
    <3>2. Superseded(log[th], t, g) =>
            \E i, j \in DOMAIN log'[th] :
              /\ i < j
              /\ log'[th][i].event = "turn_cancelled" /\ log'[th][i].turn = t
              /\ log'[th][j].event = "turn_started"
              /\ <<g, request'[log'[th][j].turn].goal>> \in Mentions
      BY <2>2, <3>1 DEF Superseded
    <3>3. QED
      BY <2>2, <3>2 DEF Superseded
  <2>5. CASE thread' = thread
    BY <2>1, <2>2, <2>3, <2>4, <2>5 DEF Kept, ThreadFile
  <2>6. CASE PutThread
    BY <1>1, <2>1, <2>6, PutKeeps
  <2>7. CASE PutCheckpointOnThread
    <3> DEFINE rec == [thread[job.thread] EXCEPT !.checkpoint = job.turn]
    <3>1. job.thread \in Thread /\ thread[job.thread] \in ThreadRecord /\ job.turn \in Turn
      BY <2>7 DEF PutCheckpointOnThread, At, Shape, TypeOK, JobShape, ThreadOp
    <3>2. rec \in ThreadRecord /\ rec # None /\ rec.commitments = thread[job.thread].commitments
      BY <3>1, NoneAssumption DEF ThreadRecord
    <3>3. thread' = [thread EXCEPT ![job.thread] = rec]
      BY <2>7 DEF PutCheckpointOnThread
    <3> HIDE DEF rec
    <3>4. /\ thread'[th] = thread[th]
             \/ (th = job.thread /\ thread'[th] = rec)
      BY <2>2, <3>3 DEF Shape, TypeOK
    <3>5. thread'[th] # None /\ (g \in thread[th].commitments => g \in thread'[th].commitments)
      BY <2>1, <3>2, <3>4 DEF Kept
    <3>6. QED
      BY <2>1, <2>2, <2>3, <2>4, <3>5 DEF Kept, ThreadFile
  <2>8. QED
    BY <2>5, <2>6, <2>7, FilesWritten
<1>2. CASE <<"turn_cancelled", t>> \notin published
  <2>1. FinishEnd
    BY <1>2, EndsPublished DEF TerminalEvent
  <2>2. /\ At("done") /\ job.op = "turn_cancelled" /\ t = job.turn
        /\ UNCHANGED <<thread, request>>
    BY <1>2, <2>1 DEF FinishEnd, Publish, disk
  <2>3. th = job.thread /\ thread[job.thread] # None
    BY <2>2 DEF Shape, JobShape, At, ThreadOp
  <2>4. g \in thread[th].commitments
    BY <2>2, <2>3 DEF Remembered, CancelDrafted
  <2>5. QED
    BY <2>2, <2>3, <2>4 DEF Kept
<1>3. QED
  BY <1>1, <1>2

DraftFacts == DraftKeeps /\ EntryIsLast /\ CancelDrafted

(* A step after which no projection is in hand.                            *)
LEMMA NoDraft ==
  ASSUME job'.at \notin {"append", "put", "sync", "done"} PROVE DraftFacts'
BY DEF DraftFacts, DraftKeeps, EntryIsLast, CancelDrafted, Drafting, At

(* A projection newly drafted.                                             *)
LEMMA NewDraft ==
  ASSUME Shape, NEW op \in LifecycleEvent, NEW th \in Thread, NEW t \in Turn,
         NEW draft \in ThreadRecord, job' = Transition(op, th, t, draft),
         UNCHANGED thread, request'[t] # None,
         \A h \in thread[th].commitments :
            \/ h \in draft.commitments
            \/ op = "turn_started" /\ <<h, request'[t].goal>> \in Mentions,
         op = "turn_cancelled" => request'[t].goal \in draft.commitments
  PROVE  DraftFacts'
BY DEF DraftFacts, DraftKeeps, EntryIsLast, CancelDrafted, Drafting, At, Transition, Job

LEMMA NewThreadDraft ==
  ASSUME Shape, NEW op \in ThreadOp, NEW th \in Thread, NEW draft \in ThreadRecord,
         job' = Job("put", op, th, None, draft), UNCHANGED thread,
         thread[th] # None => thread[th].commitments \subseteq draft.commitments
  PROVE  DraftFacts'
BY DEF DraftFacts, DraftKeeps, EntryIsLast, CancelDrafted, Drafting, At, Job, ThreadOp,
       LifecycleEvent, TerminalEvent

LEMMA CancelDraft ==
  ASSUME Shape, NEW th \in Thread, NEW t \in Turn, BeginCancel(th, t) PROVE DraftFacts'
<1>1. thread[th] \in ThreadRecord /\ request[t] # None /\ request[t].goal \in Goal
  BY DEF BeginCancel, Readable, Created, InActiveTurns, Shape, TurnShape, TypeOK, RequestRecord
<1> DEFINE draft == InterruptedThread(thread[th], t, request[t].goal)
<1>2. draft \in ThreadRecord
  BY <1>1, DraftTypes
<1>3. draft.commitments = thread[th].commitments \cup {request[t].goal}
  BY <1>1 DEF InterruptedThread, ThreadRecord
<1>4. job' = Transition("turn_cancelled", th, t, draft) /\ UNCHANGED <<thread, request>>
  BY DEF BeginCancel, disk
<1> HIDE DEF draft
<1>5. QED
  BY <1>1, <1>2, <1>3, <1>4, NewDraft DEF LifecycleEvent, TerminalEvent

LEMMA ClientDraft == Shape /\ Remembered /\ Client => DraftFacts'
<1> SUFFICES ASSUME Shape, Remembered, Client PROVE DraftFacts'
  OBVIOUS
<1> USE DEF disk, memory, ghosts, limits
<1>1. ASSUME NEW th \in Thread, StartThread(th) PROVE DraftFacts'
  <2>1. thread[th] = None /\ UNCHANGED thread /\ job' = Job("put", "thread_started", th, None, NoRecord)
    BY <1>1 DEF StartThread, Unused
  <2>2. QED
    BY <2>1, NoRecordType, NewThreadDraft DEF ThreadOp
<1>2. ASSUME NEW th \in Thread, ResumeThread(th) PROVE DraftFacts'
  <2> DEFINE draft == [thread[th] EXCEPT !.status = "active"]
  <2>1. thread[th] \in ThreadRecord
    BY <1>2 DEF ResumeThread, Readable, Created, Shape, TypeOK
  <2>2. draft \in ThreadRecord /\ draft.commitments = thread[th].commitments
    BY <2>1 DEF ThreadRecord, ThreadStatus
  <2>3. job' = Job("put", "thread_resumed", th, None, draft) /\ UNCHANGED thread
    BY <1>2 DEF ResumeThread
  <2> HIDE DEF draft
  <2>4. QED
    BY <2>2, <2>3, NewThreadDraft DEF ThreadOp
<1>3. ASSUME NEW th \in Thread, CallTool(th) PROVE DraftFacts'
  BY <1>3, NoDraft DEF CallTool, At
<1>4. ASSUME NEW parent \in Thread, NEW child \in Thread, ForkThread(parent, child) PROVE DraftFacts'
  <2> DEFINE draft == ForkedThread(thread[parent])
  <2>1. thread[parent] \in ThreadRecord
    BY <1>4 DEF ForkThread, Readable, Created, Shape, TypeOK
  <2>2. draft \in ThreadRecord /\ thread[child] = None
    BY <1>4, <2>1 DEF ForkThread, Unused, ThreadRecord, ThreadStatus, ForkedThread
  <2>3. job' = Job("put", "thread_forked", child, None, draft) /\ UNCHANGED thread
    BY <1>4 DEF ForkThread
  <2> HIDE DEF draft
  <2>4. QED
    BY <2>2, <2>3, NewThreadDraft DEF ThreadOp
<1>5. ASSUME NEW th \in Thread, NEW t \in Turn, NEW g \in Goal, NEW r \in Risks,
             StartTurn(th, t, g, r)
      PROVE  DraftFacts'
  <2> DEFINE draft == StartedThread(thread[th], t, g)
             req   == [thread |-> th, goal |-> g, risk |-> r]
  <2>1. thread[th] \in ThreadRecord
    BY <1>5 DEF StartTurn, Readable, Created, Shape, TypeOK
  <2>2. draft \in ThreadRecord
    BY <2>1, DraftTypes
  <2>3. draft.commitments = {h \in thread[th].commitments : <<h, g>> \notin Mentions}
    BY <2>1 DEF StartedThread, ThreadRecord
  <2>4. req \in RequestRecord /\ req # None /\ req.goal = g
    BY NoneAssumption DEF RequestRecord
  <2>5. request'[t] = req
    BY <1>5 DEF StartTurn, Shape, TypeOK
  <2>6. job' = Transition("turn_started", th, t, draft) /\ UNCHANGED thread
    BY <1>5 DEF StartTurn
  <2> HIDE DEF draft, req
  <2>7. QED
    BY <2>2, <2>3, <2>4, <2>5, <2>6, NewDraft DEF LifecycleEvent
<1>6. ASSUME NEW th \in Thread, NEW t \in Turn, CancelTurn(th, t) PROVE DraftFacts'
  BY <1>6, CancelDraft DEF CancelTurn
<1>7. ASSUME NEW t \in Turn, NEW d \in Decision, RespondApproval(t, d) PROVE DraftFacts'
  BY <1>7, NoDraft DEF RespondApproval, Job
<1>8. ASSUME NEW p \in Policy, UpdateRuntimeConfig(p) PROVE DraftFacts'
  BY <1>8, NoDraft DEF UpdateRuntimeConfig, At
<1>9. QED
  BY <1>1, <1>2, <1>3, <1>4, <1>5, <1>6, <1>7, <1>8 DEF Client

LEMMA WriteDraft == Shape /\ Remembered /\ Write => DraftFacts'
<1> SUFFICES ASSUME Shape, Remembered, Write PROVE DraftFacts'
  OBVIOUS
<1>1. CASE AppendTurnLog
  <2> DEFINE n == Len(log[job.thread]) + 1
  <2>1. /\ log[job.thread] \in Seq(LogEntry)
        /\ log'[job.thread] = Append(log[job.thread], LifecycleEntry)
        /\ LifecycleEntry.turn = job.turn /\ LifecycleEntry.event = job.op
        /\ LifecycleEntry \in LogEntry
        /\ job'.thread = job.thread /\ job'.op = job.op /\ job'.turn = job.turn
        /\ job'.draft = job.draft /\ job'.at = "put"
    BY <1>1, HoldsAppended
  <2>2. Drafting /\ UNCHANGED <<thread, request>>
    BY <1>1 DEF AppendTurnLog, Drafting, At
  <2>3. Len(log'[job.thread]) = n /\ log'[job.thread][n] = LifecycleEntry /\ log'[job.thread] # <<>>
    BY <2>1
  <2>4. DraftKeeps'
    BY <2>1, <2>2 DEF Remembered, DraftKeeps, Drafting
  <2>5. EntryIsLast'
    BY <2>1, <2>3 DEF EntryIsLast
  <2>6. CancelDrafted'
    BY <2>1, <2>2 DEF Remembered, CancelDrafted, At
  <2>7. QED
    BY <2>4, <2>5, <2>6 DEF DraftFacts
<1>2. CASE PutThread
  <2>1. /\ job'.thread = job.thread /\ job'.op = job.op /\ job'.turn = job.turn
        /\ job'.at \in {"sync", "done"} /\ job.at = "put" /\ UNCHANGED request
    BY <1>2 DEF PutThread, At, Shape, TypeOK, JobRecord
  <2>2. thread'[job.thread] = job.draft
    BY <1>2, <2>1 DEF PutThread, Shape, TypeOK, JobShape
  <2>3. job.op = "turn_cancelled" => job'.at = "done"
    BY <1>2, <2>1 DEF PutThread, SyncOp, ThreadOp, Shape, TypeOK, JobRecord
  <2>4. QED
    BY <2>1, <2>2, <2>3
    DEF Remembered, DraftFacts, DraftKeeps, EntryIsLast, CancelDrafted, Drafting, At
<1>3. CASE SyncActiveThreadIds
  <2>1. job'.op = job.op /\ job'.at = "done" /\ job.at = "sync"
    BY <1>3 DEF SyncActiveThreadIds, At, Shape, TypeOK, JobRecord
  <2>2. job.op # "turn_cancelled"
    BY <1>3, <2>1 DEF Remembered, CancelDrafted, At
  <2>3. QED
    BY <2>1, <2>2 DEF DraftFacts, DraftKeeps, EntryIsLast, CancelDrafted, Drafting, At
<1>4. QED
  BY <1>1, <1>2, <1>3 DEF Write

LEMMA DraftNext == Shape /\ Remembered /\ [Next]_vars => DraftFacts'
<1> SUFFICES ASSUME Shape, Remembered, [Next]_vars PROVE DraftFacts'
  OBVIOUS
<1> USE DEF disk, memory, ghosts, limits
<1>1. CASE job' = Idle
  BY <1>1, NoDraft, IdleType
<1>2. ASSUME NEW op \in LifecycleEvent \ {"turn_started", "turn_cancelled"}, NEW draft \in ThreadRecord,
             job.thread \in Thread, job.turn \in Turn, request[job.turn] # None,
             job' = Transition(op, job.thread, job.turn, draft), UNCHANGED <<thread, request>>,
             draft.commitments = thread[job.thread].commitments
      PROVE  DraftFacts'
  BY <1>2, NewDraft
<1>3. CASE Finish
  BY <1>1, <1>3, NoDraft
  DEF Finish, FinishThread, FinishStart, FinishWait, FinishResume, FinishEnd, Job
<1>4. CASE EvaluatePolicy \/ PutCheckpoint \/ PutCheckpointOnThread \/ ResumeApproved
  BY <1>4, NoDraft
  DEF EvaluatePolicy, PutCheckpoint, PutCheckpointOnThread, ResumeApproved, HandToModel, Job,
      Shape, TypeOK, JobRecord
<1>5. CASE MarkWaitingApproval \/ MarkRunning \/ Model
  <2>1. /\ job.thread \in Thread /\ job.turn \in Turn /\ request[job.turn] # None
        /\ thread[job.thread] \in ThreadRecord
    BY <1>5 DEF MarkWaitingApproval, MarkRunning, Model, CompleteTurn, FailTurn, EndTurn, At,
                Shape, JobShape, TypeOK, ThreadOp
  <2> DEFINE rec == thread[job.thread]
  <2>2. /\ WaitingThread(rec, job.turn) \in ThreadRecord
        /\ RunningThread(rec, job.turn) \in ThreadRecord
        /\ CompletedThread(rec, job.turn) \in ThreadRecord
        /\ FailedThread(rec, job.turn) \in ThreadRecord
        /\ WaitingThread(rec, job.turn).commitments = rec.commitments
        /\ RunningThread(rec, job.turn).commitments = rec.commitments
        /\ CompletedThread(rec, job.turn).commitments = rec.commitments
        /\ FailedThread(rec, job.turn).commitments = rec.commitments
    BY <2>1 DEF WaitingThread, RunningThread, CompletedThread, FailedThread, ThreadRecord, ThreadStatus
  <2>3. CASE MarkWaitingApproval
    BY <1>2, <2>1, <2>2, <2>3 DEF MarkWaitingApproval, LifecycleEvent, TerminalEvent
  <2>4. CASE MarkRunning
    BY <1>2, <2>1, <2>2, <2>4 DEF MarkRunning, LifecycleEvent, TerminalEvent
  <2>5. CASE Model
    BY <1>2, <2>1, <2>2, <2>5 DEF Model, CompleteTurn, FailTurn, EndTurn, LifecycleEvent, TerminalEvent
  <2>6. QED
    BY <1>5, <2>3, <2>4, <2>5
<1>6. CASE CancelDenied
  <2>1. job.thread \in Thread /\ job.turn \in Turn
    BY <1>6 DEF CancelDenied, At, Shape, JobShape, Decision, ThreadOp
  <2>2. QED
    BY <1>6, <2>1, CancelDraft DEF CancelDenied
<1>7. CASE AnswerTooLate \/ ReadFails \/ Restart
  BY <1>1, <1>7 DEF AnswerTooLate, ReadFails, Restart
<1>8. CASE IoFails
  <2>1. job' = Idle \/ (job' = job /\ job.at \in {"idle", "stream"})
    BY <1>8 DEF IoFails, FailAccess, FailAppend, FailTool, FailFile, CutTool, At
  <2>2. QED
    BY <1>1, <2>1, NoDraft
<1>9. CASE RunTool
  BY <1>9, NoDraft DEF RunTool, At
<1>10. CASE UNCHANGED vars
  BY <1>10 DEF vars, Remembered, DraftFacts, DraftKeeps, EntryIsLast, CancelDrafted, Drafting, At
<1>11. QED
  BY <1>3, <1>4, <1>5, <1>6, <1>7, <1>8, <1>9, <1>10, ClientDraft, WriteDraft
  DEF Next, Server, Gate, Answer

(* The work a client was told is cancelled is not forgotten: its goal is   *)
(* among the commitments of the thread until a turn takes it up, whatever  *)
(* fails or ends in between, unless the thread file was torn.              *)
THEOREM CancelledWorkIsRemembered == Spec => []CancelledWorkRemembered
<1>1. Init => Recorded /\ Remembered
  BY IdleType
  DEF Init, Recorded, PublishedIsLogged, Writing, Remembered, StartsRequested, CancelledKept,
      DraftKeeps, EntryIsLast, CancelDrafted, Drafting, At, Idle
<1>2. Shape /\ Recorded /\ Remembered /\ [Next]_vars => Remembered'
  BY StartsRequestedNext, CancelledKeptNext, DraftNext DEF Remembered, DraftFacts
<1>3. Remembered => CancelledWorkRemembered
  BY DEF Remembered, CancelledKept, Kept, Superseded, CancelledWorkRemembered
<1>4. QED
  BY <1>1, <1>2, <1>3, InitShape, NextShape, RecordedNext, PTL DEF Spec

-----------------------------------------------------------------------------
(* The contract of TurnContract.  A step maps to the step of the contract  *)
(* it takes for the one turn it serves; what it needs to know of that turn *)
(* is where its start was announced and whether it still runs.             *)

Begun(t) == <<"turn_started", t>> \in published

(* The job goes on with a turn that runs.                                  *)
Running ==
  \/ job.at \in {"policy", "checkpoint", "checkpoint_thread", "wait", "resumed"}
  \/ job.op = "approval_resolved" /\ job.at \in {"append", "put", "sync", "done"}

Announced ==
  /\ \A t \in Turn : open[t] # "none" => Begun(t)
  /\ \A t \in Turn : Begun(t) => request[t] # None
  /\ Starting => ~Begun(job.turn)
  /\ At("append") /\ job.op # "turn_started" => Begun(job.turn)
  /\ Running => open[job.turn] = "running"
  /\ At("append") /\ job.op = "approval_wait" => open[job.turn] # "none"

(* A start is announced by FinishStart alone, and nothing is taken back.   *)
LEMMA BegunKept ==
  [Next]_vars =>
    /\ published \subseteq published'
    /\ FinishStart \/ \A t \in Turn : Begun(t)' <=> Begun(t)
<1> SUFFICES ASSUME [Next]_vars
             PROVE  /\ published \subseteq published'
                    /\ FinishStart \/ \A t \in Turn : Begun(t)' <=> Begun(t)
  OBVIOUS
<1> USE DEF ghosts
<1>1. CASE UNCHANGED published
  BY <1>1 DEF Begun
<1>2. ASSUME NEW t, NEW event, event # "turn_started", Publish(event, t)
      PROVE  published \subseteq published' /\ \A u \in Turn : Begun(u)' <=> Begun(u)
  BY <1>2 DEF Publish, Begun
<1>3. CASE Client
  <2>1. CASE \E t \in Turn, d \in Decision : RespondApproval(t, d)
    BY <1>2, <2>1 DEF RespondApproval, Decision
  <2>2. CASE ~\E t \in Turn, d \in Decision : RespondApproval(t, d)
    BY <1>1, <1>3, <2>2
    DEF Client, StartThread, ResumeThread, CallTool, AppendToolEntry, ForkThread, StartTurn,
        CancelTurn, BeginCancel, UpdateRuntimeConfig
  <2>3. QED
    BY <2>1, <2>2
<1>4. CASE FinishStart
  BY <1>4 DEF FinishStart, Publish
<1>5. CASE FinishWait \/ FinishEnd
  BY <1>2, <1>5 DEF FinishWait, FinishEnd, TerminalEvent
<1>6. CASE Write \/ FinishThread \/ FinishResume
  BY <1>1, <1>6 DEF Write, AppendTurnLog, PutThread, SyncActiveThreadIds, FinishThread, FinishResume
<1>7. CASE Gate
  BY <1>1, <1>7 DEF Gate, EvaluatePolicy, HandToModel, PutCheckpoint, PutCheckpointOnThread,
                    MarkWaitingApproval
<1>8. CASE Answer \/ Model \/ ReadFails
  BY <1>1, <1>8 DEF Answer, MarkRunning, CancelDenied, BeginCancel, AnswerTooLate, ResumeApproved,
                    HandToModel, Model, CompleteTurn, FailTurn, EndTurn, ReadFails
<1>9. CASE RunTool \/ IoFails \/ Restart \/ UNCHANGED vars
  BY <1>1, <1>9 DEF RunTool, IoFails, Restart, vars
<1>10. QED
  BY <1>3, <1>4, <1>5, <1>6, <1>7, <1>8, <1>9 DEF Next, Server, Finish

(* A step that ends its job, or goes on with no append and no running      *)
(* turn in it.                                                             *)
LEMMA AnnouncedQuiet ==
  ASSUME Shape, Announced, [Next]_vars, ~FinishStart,
         ~Starting', ~At("append")', ~Running'
  PROVE  Announced'
BY OpenedBy, BegunKept, RequestKept DEF Announced, Begun

(* A step that begins a transition.                                        *)
LEMMA AnnouncedBegins ==
  ASSUME Shape, Announced, [Next]_vars, ~FinishStart, NEW op \in LifecycleEvent \ {"turn_started"},
         NEW th, NEW t \in Turn, NEW draft, job' = Transition(op, th, t, draft), open[t] # "none",
         op = "approval_resolved" => open'[t] = "running",
         op = "approval_wait" => open'[t] # "none"
  PROVE  Announced'
<1>1. /\ job'.op = op /\ job'.turn = t /\ job'.at = "append"
  BY DEF Transition, Job
<1>2. Begun(t)'
  BY BegunKept DEF Announced, Begun
<1>3. QED
  BY <1>1, <1>2, OpenedBy, BegunKept, RequestKept DEF Announced, Begun, Starting, Running, At

(* A step that goes on with its job and leaves active_turns alone.         *)
LEMMA AnnouncedGoesOn ==
  ASSUME Shape, Announced, [Next]_vars, ~FinishStart, UNCHANGED open, job'.turn = job.turn,
         ~At("append")', Starting' => Starting, Running' => Running, job.turn \in Turn
  PROVE  Announced'
BY OpenedBy, BegunKept, RequestKept DEF Announced, Begun

LEMMA AnnouncedNext == Shape /\ Announced /\ [Next]_vars => Announced'
<1> SUFFICES ASSUME Shape, Announced, [Next]_vars PROVE Announced'
  OBVIOUS
<1> USE DEF disk, memory, ghosts, limits
<1>1. CASE job' = Idle
  <2>1. ~FinishStart
    BY <1>1 DEF FinishStart, Idle, Job
  <2>2. QED
    BY <1>1, <2>1, AnnouncedQuiet, IdleType DEF Idle, Starting, Running, At
<1>2. CASE job.at \in {"idle", "stream"} /\ job' = job
  BY <1>2, AnnouncedQuiet DEF Starting, Running, At, FinishStart
<1>3. ASSUME NEW th \in Thread, NEW t \in Turn, BeginCancel(th, t), ~At("done") PROVE Announced'
  BY <1>3, AnnouncedBegins DEF BeginCancel, InActiveTurns, LifecycleEvent, TerminalEvent, FinishStart
<1>4. CASE Client
  <2>1. At("idle")
    BY <1>4 DEF Client, StartThread, ResumeThread, CallTool, ForkThread, StartTurn, CancelTurn,
                RespondApproval, UpdateRuntimeConfig
  <2>2. ~FinishStart
    BY <2>1 DEF FinishStart, At
  <2>3. ASSUME NEW op, NEW at \in {"put", "answered"}, NEW th, NEW t, NEW draft,
               op \notin {"turn_started", "approval_resolved"}, job' = Job(at, op, th, t, draft)
        PROVE  Announced'
    BY <2>2, <2>3, AnnouncedQuiet DEF Job, Starting, Running, At
  <2>4. ASSUME NEW th \in Thread, StartThread(th) \/ ResumeThread(th) PROVE Announced'
    BY <2>3, <2>4 DEF StartThread, ResumeThread
  <2>5. ASSUME NEW parent \in Thread, NEW child \in Thread, ForkThread(parent, child)
        PROVE  Announced'
    BY <2>3, <2>5 DEF ForkThread
  <2>6. ASSUME NEW t \in Turn, NEW d \in Decision, RespondApproval(t, d) PROVE Announced'
    BY <2>3, <2>6 DEF RespondApproval, Decision
  <2>7. ASSUME NEW th \in Thread, NEW t \in Turn, NEW g \in Goal, NEW r \in Risks,
               StartTurn(th, t, g, r)
        PROVE  Announced'
    <3>1. ~Begun(t) /\ open[t] = "none" /\ UNCHANGED <<open, published>>
      BY <2>7 DEF StartTurn, Announced, Shape, TurnShape, TypeOK
    <3>2. job'.at = "append" /\ job'.op = "turn_started" /\ job'.turn = t
      BY <2>7 DEF StartTurn, Transition, Job
    <3>3. QED
      BY <3>1, <3>2, RequestKept DEF Announced, Begun, Starting, Running, At
  <2>8. ASSUME NEW th \in Thread, NEW t \in Turn, CancelTurn(th, t) PROVE Announced'
    BY <1>3, <2>8 DEF CancelTurn, At
  <2>9. ASSUME NEW th \in Thread, NEW p \in Policy, CallTool(th) \/ UpdateRuntimeConfig(p)
        PROVE  Announced'
    BY <1>2, <2>1, <2>9 DEF CallTool, UpdateRuntimeConfig, At
  <2>10. QED
    BY <1>2, <1>4, <2>1, <2>4, <2>5, <2>6, <2>7, <2>8, <2>9 DEF Client, CallTool, UpdateRuntimeConfig, At
<1>5. CASE Write
  <2>1. /\ UNCHANGED open /\ job'.turn = job.turn /\ job'.op = job.op
        /\ job'.at \in {"put", "sync", "done"} /\ job.at \in {"append", "put", "sync"}
    BY <1>5 DEF Write, AppendTurnLog, PutThread, SyncActiveThreadIds, At, Shape, TypeOK, JobRecord
  <2>2. ~FinishStart /\ ~At("append")' /\ (Starting' => Starting) /\ (Running' => Running)
    BY <2>1 DEF FinishStart, At, Starting, Running
  <2>3. CASE job.turn \in Turn
    BY <2>1, <2>2, <2>3, AnnouncedGoesOn
  <2>4. CASE job.turn \notin Turn
    <3>1. job.op \in ThreadOp
      BY <2>1, <2>4 DEF Shape, JobShape
    <3>2. QED
      BY <2>1, <2>2, <3>1, AnnouncedQuiet DEF Starting, Running, ThreadOp
  <2>5. QED
    BY <2>3, <2>4
<1>6. CASE FinishStart
  <2>1. /\ job.turn \in Turn /\ request[job.turn] # None
        /\ job'.turn = job.turn /\ job'.at = "policy" /\ job'.op = "turn_started"
        /\ open' = [open EXCEPT ![job.turn] = "running"]
        /\ published' = published \cup {<<"turn_started", job.turn>>}
        /\ UNCHANGED request
    BY <1>6 DEF FinishStart, Publish, Job, At, Shape, JobShape, ThreadOp
  <2>2. QED
    BY <2>1 DEF Announced, Begun, Starting, Running, At, Shape, TypeOK
<1>7. CASE FinishResume
  <2>1. /\ job.turn \in Turn /\ job'.turn = job.turn /\ job'.at = "resumed" /\ UNCHANGED open
        /\ ~FinishStart /\ Running /\ job'.op = "approval_resolved"
    BY <1>7 DEF FinishResume, FinishStart, Job, At, Shape, JobShape, ThreadOp, Running
  <2>2. QED
    BY <2>1, AnnouncedGoesOn DEF Starting, At
<1>8. CASE EvaluatePolicy \/ PutCheckpoint \/ PutCheckpointOnThread \/ ResumeApproved
  <2>1. /\ job.turn \in Turn /\ job'.turn = job.turn /\ UNCHANGED open /\ Running
        /\ job'.at \in {"checkpoint", "checkpoint_thread", "wait", "stream"}
        /\ job.at \in {"policy", "checkpoint", "checkpoint_thread", "resumed"}
    BY <1>8 DEF EvaluatePolicy, PutCheckpoint, PutCheckpointOnThread, ResumeApproved, HandToModel, Job,
                At, Shape, TypeOK, JobRecord, JobShape, Running, ThreadOp
  <2>2. ~FinishStart /\ ~At("append")' /\ ~Starting'
    BY <2>1 DEF FinishStart, At, Starting
  <2>3. QED
    BY <2>1, <2>2, AnnouncedGoesOn
<1>9. CASE MarkWaitingApproval \/ MarkRunning \/ Model
  <2>1. job.turn \in Turn /\ open[job.turn] # "none" /\ ~FinishStart
    BY <1>9 DEF MarkWaitingApproval, MarkRunning, Model, CompleteTurn, FailTurn, EndTurn, At,
                Shape, JobShape, InActiveTurns, FinishStart, ThreadOp
  <2>2. CASE MarkWaitingApproval
    <3> DEFINE draft == WaitingThread(thread[job.thread], job.turn)
    <3>1. job' = Transition("approval_wait", job.thread, job.turn, draft)
      BY <2>2 DEF MarkWaitingApproval
    <3>2. open'[job.turn] # "none"
      BY <2>1, <2>2 DEF MarkWaitingApproval, Shape, TypeOK
    <3>3. "approval_wait" \in LifecycleEvent \ {"turn_started"}
      BY DEF LifecycleEvent
    <3> HIDE DEF draft
    <3>4. QED
      BY <2>1, <3>1, <3>2, <3>3, AnnouncedBegins
  <2>3. CASE MarkRunning
    <3> DEFINE draft == RunningThread(thread[job.thread], job.turn)
    <3>1. job' = Transition("approval_resolved", job.thread, job.turn, draft)
      BY <2>3 DEF MarkRunning
    <3>2. open'[job.turn] = "running"
      BY <2>1, <2>3 DEF MarkRunning, Shape, TypeOK
    <3>3. "approval_resolved" \in LifecycleEvent \ {"turn_started"}
      BY DEF LifecycleEvent
    <3> HIDE DEF draft
    <3>4. QED
      BY <2>1, <3>1, <3>2, <3>3, AnnouncedBegins
  <2>4. CASE Model
    BY <2>1, <2>4, AnnouncedBegins
    DEF Model, CompleteTurn, FailTurn, EndTurn, LifecycleEvent, TerminalEvent
  <2>5. QED
    BY <1>9, <2>2, <2>3, <2>4
<1>10. CASE CancelDenied
  <2>1. job.thread \in Thread /\ job.turn \in Turn
    BY <1>10 DEF CancelDenied, At, Shape, JobShape, Decision, ThreadOp
  <2>2. QED
    BY <1>3, <1>10, <2>1 DEF CancelDenied, At
<1>11. CASE FinishThread \/ FinishWait \/ FinishEnd \/ AnswerTooLate \/ ReadFails \/ Restart
  BY <1>1, <1>11 DEF FinishThread, FinishWait, FinishEnd, AnswerTooLate, ReadFails, Restart
<1>12. CASE IoFails
  <2>1. job' = Idle \/ (job' = job /\ job.at \in {"idle", "stream"})
    BY <1>12 DEF IoFails, FailAccess, FailAppend, FailTool, FailFile, CutTool, At
  <2>2. QED
    BY <1>1, <1>2, <2>1
<1>13. CASE RunTool
  BY <1>2, <1>13 DEF RunTool, At
<1>14. CASE UNCHANGED vars
  BY <1>14 DEF vars, Announced, Begun, Starting, Running, At
<1>15. QED
  BY <1>4, <1>5, <1>6, <1>7, <1>8, <1>9, <1>10, <1>11, <1>12, <1>13, <1>14
  DEF Next, Server, Finish, Gate, Answer

Closing(t) == At("append") /\ job.turn = t

(* A turn's phase, before a step and after it.                             *)
LEMMA Phases ==
  ASSUME NEW t \in Turn
  PROVE  /\ Ended(t) => PhaseOf(t) \in TerminalEvent
         /\ ~Ended(t) => PhaseOf(t) = IF open[t] # "none" THEN open[t]
                                      ELSE IF ~Begun(t) THEN "unborn"
                                      ELSE IF Closing(t) THEN "closing" ELSE "lost"
         /\ Ended(t)' => PhaseOf(t)' \in TerminalEvent
         /\ ~Ended(t)' => PhaseOf(t)' = IF open'[t] # "none" THEN open'[t]
                                        ELSE IF ~Begun(t)' THEN "unborn"
                                        ELSE IF Closing(t)' THEN "closing" ELSE "lost"
<1>1. Ended(t) => PhaseOf(t) \in TerminalEvent
  <2>1. Ended(t) => \E e \in TerminalEvent : \E th \in Thread : LoggedFor(th, e, t)
    BY DEF Ended, LoggedFor
  <2>2. QED
    BY <2>1 DEF PhaseOf
<1>2. Ended(t)' => PhaseOf(t)' \in TerminalEvent
  <2>1. Ended(t)' => \E e \in TerminalEvent : \E th \in Thread : LoggedFor(th, e, t)'
    BY DEF Ended, LoggedFor
  <2>2. QED
    BY <2>1 DEF PhaseOf
<1>3. QED
  BY <1>1, <1>2 DEF PhaseOf, Begun, Closing

(* The phase of an ended turn is the event of the entry that ended it.     *)
LEMMA EndedPhase ==
  ASSUME Shape, Final', [Next]_vars, NEW t \in Turn
  PROVE  /\ Ended(t) => Ended(t)' /\ PhaseOf(t)' = PhaseOf(t)
         /\ \A th \in Thread, e \in TerminalEvent :
              Holds(log'[th], e, t) => Ended(t)' /\ PhaseOf(t)' = e
<1>1. ASSUME NEW th \in Thread, NEW e \in TerminalEvent, Holds(log'[th], e, t)
      PROVE  Ended(t)' /\ PhaseOf(t)' = e
  <2>1. Ended(t)'
    BY <1>1 DEF Ended, Holds
  <2>2. \E uh \in Thread : LoggedFor(uh, PhaseOf(t), t)'
    <3>1. \E f \in TerminalEvent : \E uh \in Thread : LoggedFor(uh, f, t)'
      BY <1>1 DEF LoggedFor, Holds
    <3>2. QED
      BY <2>1, <3>1 DEF PhaseOf
  <2>3. PhaseOf(t)' \in TerminalEvent
    BY <2>1, Phases
  <2>4. PICK uh \in Thread : \E j \in DOMAIN log'[uh] :
               log'[uh][j].event = PhaseOf(t)' /\ log'[uh][j].turn = t
    BY <2>2 DEF LoggedFor
  <2>5. PICK i \in DOMAIN log'[th] : log'[th][i].event = e /\ log'[th][i].turn = t
    BY <1>1 DEF Holds
  <2>6. PhaseOf(t)' = e
    BY <2>3, <2>4, <2>5 DEF Final, EndsOnce
  <2>7. QED
    BY <2>1, <2>6
<1>2. ASSUME Ended(t) PROVE Ended(t)' /\ PhaseOf(t)' = PhaseOf(t)
  <2>1. \E f \in TerminalEvent : \E uh \in Thread : LoggedFor(uh, f, t)
    BY <1>2 DEF Ended, LoggedFor
  <2>2. \E uh \in Thread : LoggedFor(uh, PhaseOf(t), t)
    BY <1>2, <2>1 DEF PhaseOf
  <2>3. PICK uh \in Thread : Holds(log'[uh], PhaseOf(t), t)
    BY <2>2, HoldsKept DEF LoggedFor, Holds
  <2>4. PhaseOf(t) \in TerminalEvent
    BY <1>2, Phases
  <2>5. QED
    BY <1>1, <2>3, <2>4
<1>3. QED
  BY <1>1, <1>2

(* An end comes on record with the entry of the turn in hand.              *)
LEMMA NewEnd ==
  ASSUME Shape, [Next]_vars, NEW t \in Turn, ~Ended(t), Ended(t)'
  PROVE  At("append") /\ job.op \in TerminalEvent /\ job.turn = t
<1>1. PICK th \in Thread : \E i \in DOMAIN log'[th] :
        log'[th][i].turn = t /\ log'[th][i].event \in TerminalEvent
  BY DEF Ended
<1>2. PICK i \in DOMAIN log'[th] : log'[th][i].turn = t /\ log'[th][i].event \in TerminalEvent
  BY <1>1
<1>3. i \notin DOMAIN log[th]
  BY <1>2, EntriesStay DEF Ended
<1>4. log'[th][i].event # "tool_completed"
  BY <1>2 DEF TerminalEvent
<1>5. QED
  BY <1>2, <1>3, <1>4, LifecycleLogged

(* A turn the step does not touch keeps its phase.                         *)
LEMMA SamePhase ==
  ASSUME Shape, Final', [Next]_vars, NEW t \in Turn,
         ~Ended(t) => /\ open'[t] = open[t] /\ (Begun(t)' <=> Begun(t))
                      /\ open[t] = "none" /\ Begun(t) => (Closing(t)' <=> Closing(t)),
         Closing(t) => ~Ended(t)'
  PROVE  PhaseOf(t)' = PhaseOf(t)
<1>1. CASE Ended(t)
  BY <1>1, EndedPhase
<1>2. CASE ~Ended(t)
  <2>1. ~Ended(t)'
    BY <1>2, NewEnd DEF Closing
  <2>2. QED
    BY <1>2, <2>1, Phases
<1>3. QED
  BY <1>1, <1>2

PhaseMap == [t \in Turn |-> PhaseOf(t)]
OwnerMap == [t \in Turn |-> IF PhaseOf(t) = "unborn" THEN None ELSE request[t].thread]

LEMMA OwnerKept ==
  ASSUME Shape, Final, Announced, [Next]_vars,
         \A t \in Turn : PhaseOf(t)' = "unborn" <=> PhaseOf(t) = "unborn"
  PROVE  OwnerMap' = OwnerMap
<1>1. ASSUME NEW t \in Turn, PhaseOf(t) # "unborn" PROVE request'[t] = request[t]
  <2>1. request[t] # None
    BY <1>1, Phases DEF Final, Announced, Shape, TurnShape
  <2>2. QED
    BY <2>1, RequestKept
<1>2. QED
  BY <1>1 DEF OwnerMap

(* One turn moves, the others stay.                                        *)
LEMMA OneMoves ==
  ASSUME Shape, Final, Announced, [Next]_vars, ran' = ran,
         NEW t \in Turn, NEW from, NEW to, PhaseOf(t) \in from, PhaseOf(t)' = to,
         "unborn" \notin from \cup {to},
         \A u \in Turn \ {t} : PhaseOf(u)' = PhaseOf(u)
  PROVE  Contract!Move(t, from, to) /\ OwnerMap' = OwnerMap
<1>1. PhaseMap' = [PhaseMap EXCEPT ![t] = to]
  BY DEF PhaseMap
<1>2. OwnerMap' = OwnerMap
  BY OwnerKept
<1>3. QED
  BY <1>1, <1>2 DEF Contract!Move, PhaseMap

LEMMA Stutters ==
  ASSUME Shape, Final, Announced, [Next]_vars, ran' = ran,
         \A t \in Turn : PhaseOf(t)' = PhaseOf(t)
  PROVE  UNCHANGED Contract!vars
<1>1. PhaseMap' = PhaseMap
  BY DEF PhaseMap
<1>2. OwnerMap' = OwnerMap
  BY OwnerKept
<1>3. QED
  BY <1>1, <1>2 DEF Contract!vars, PhaseMap, OwnerMap

(* Neither an append nor a change of active_turns.                         *)
LEMMA QuietStutters ==
  ASSUME Shape, Final, Final', Announced, [Next]_vars, ran' = ran, UNCHANGED open, ~FinishStart,
         ~At("append"), ~At("append")'
  PROVE  UNCHANGED Contract!vars
<1>1. ASSUME NEW t \in Turn PROVE PhaseOf(t)' = PhaseOf(t)
  BY SamePhase, BegunKept DEF Closing
<1>2. QED
  BY <1>1, Stutters

(* A transition begins: its turn changes its phase, if any does.           *)
LEMMA BeginsMoves ==
  ASSUME Shape, Final, Final', Announced, [Next]_vars, ran' = ran, ~FinishStart, ~At("append"),
         NEW t \in Turn, NEW from, NEW to, open[t] \in from, open[t] # "none",
         NEW s, open' = [open EXCEPT ![t] = s], "unborn" \notin from \cup {to},
         \/ s = "none" /\ to = "closing" /\ At("append")' /\ job'.turn = t
         \/ s # "none" /\ to = s,
         At("append")' => job'.turn = t
  PROVE  Contract!Move(t, from, to) /\ OwnerMap' = OwnerMap
<1>1. ~Ended(t) /\ ~Ended(t)' /\ Begun(t) /\ (Begun(t)' <=> Begun(t))
  BY NewEnd, BegunKept DEF Final, EndedStaysEnded, Announced
<1>2. open'[t] = s
  BY DEF Shape, TypeOK
<1>3. PhaseOf(t) \in from /\ PhaseOf(t)' = to
  BY <1>1, <1>2, Phases DEF Closing
<1>4. ASSUME NEW u \in Turn \ {t} PROVE PhaseOf(u)' = PhaseOf(u)
  <2>1. open'[u] = open[u]
    BY <1>4 DEF Shape, TypeOK
  <2>2. QED
    BY <1>4, <2>1, SamePhase, BegunKept DEF Closing
<1>5. QED
  BY <1>3, <1>4, OneMoves

(* The end of a turn is closed or recorded.                                *)
LEMMA CancelCloses ==
  ASSUME Shape, Final, Final', Announced, [Next]_vars, ran' = ran, ~FinishStart, ~At("append"),
         NEW t \in Turn, InActiveTurns(t), open' = Removed(t), At("append")', job'.turn = t
  PROVE  Contract!Close(t)
<1>1. open[t] \in {"running", "waiting_approval"}
  BY DEF InActiveTurns, Shape, TypeOK, TurnStatus
<1>2. Contract!Move(t, {"running", "waiting_approval"}, "closing") /\ OwnerMap' = OwnerMap
  <2>1. PICK from : from = {"running", "waiting_approval"}
    OBVIOUS
  <2>2. open[t] \in from /\ open[t] # "none" /\ "unborn" \notin from \cup {"closing"}
    BY <1>1, <2>1
  <2>3. open' = [open EXCEPT ![t] = "none"]
    BY DEF Removed
  <2>4. Contract!Move(t, from, "closing") /\ OwnerMap' = OwnerMap
    BY <2>2, <2>3, BeginsMoves
  <2>5. QED
    BY <2>1, <2>4
<1>3. QED
  BY <1>2 DEF Contract!Close, OwnerMap

LEMMA AppendRecords ==
  ASSUME Shape, Final, Final', Announced, [Next]_vars, AppendTurnLog
  PROVE  Contract!Next \/ UNCHANGED Contract!vars
<1>1. /\ Holds(log'[job.thread], job.op, job.turn)
      /\ job.thread \in Thread /\ job.turn \in Turn /\ job.op \in LifecycleEvent
      /\ job'.turn = job.turn /\ job'.at = "put"
  BY HoldsAppended
<1>2. /\ At("append") /\ ~At("append")' /\ UNCHANGED <<open, published, ran>>
      /\ \A u \in Turn : Begun(u)' <=> Begun(u)
  BY <1>1 DEF AppendTurnLog, At, ghosts, Begun
<1>3. PICK t \in Turn : t = job.turn
  BY <1>1
<1>4. ASSUME NEW u \in Turn \ {t} PROVE PhaseOf(u)' = PhaseOf(u)
  BY <1>2, <1>3, <1>4, SamePhase DEF Closing
<1>5. CASE job.op \in TerminalEvent
  <2>1. PhaseOf(t)' = job.op
    BY <1>1, <1>3, <1>5, EndedPhase
  <2>2. ~Ended(t) /\ open[t] = "none" /\ Begun(t) /\ Closing(t)
    BY <1>2, <1>3, <1>5 DEF Final, Announced, TerminalEvent, Closing
  <2>3. PhaseOf(t) = "closing"
    BY <2>2, Phases
  <2>4. PICK e \in TerminalEvent : e = job.op
    BY <1>5
  <2>5. Contract!Move(t, {"closing"}, e) /\ OwnerMap' = OwnerMap
    BY <1>2, <1>4, <2>1, <2>3, <2>4, OneMoves DEF TerminalEvent
  <2>6. Contract!Record(t, e)
    BY <2>5 DEF Contract!Record, OwnerMap
  <2>7. QED
    BY <2>6 DEF Contract!Next, Contract!End, TerminalEvent
<1>6. CASE job.op \notin TerminalEvent
  <2>1. ~Ended(t)' \/ Ended(t)
    BY <1>6, NewEnd
  <2>2. CASE Ended(t)
    BY <1>2, <1>4, <2>2, EndedPhase, Stutters
  <2>3. CASE ~Ended(t)
    <3>1. open[t] # "none" \/ ~Begun(t)
      <4>1. CASE job.op = "turn_started"
        BY <1>2, <1>3, <4>1 DEF Announced, Starting, At
      <4>2. CASE job.op \in {"approval_wait", "approval_resolved"}
        BY <1>2, <1>3, <4>2 DEF Announced, Running, At
      <4>3. QED
        BY <1>1, <1>6, <4>1, <4>2 DEF LifecycleEvent
    <3>2. PhaseOf(t)' = PhaseOf(t)
      BY <1>2, <2>1, <2>3, <3>1, Phases
    <3>3. QED
      BY <1>2, <1>4, <3>2, Stutters
  <2>4. QED
    BY <2>2, <2>3
<1>7. QED
  BY <1>5, <1>6

(* Store failures and the end of the process take live turns away.         *)
LEMMA CutLoses ==
  ASSUME Shape, Final, Final', Announced, [Next]_vars, UNCHANGED <<ran, published, request>>,
         \A t \in Turn : open'[t] \in {open[t], "none"},
         ~At("append")'
  PROVE  Contract!Lose
<1>1. ASSUME NEW t \in Turn
      PROVE  /\ PhaseOf(t)' \in Contract!Phase
             /\ \/ PhaseOf(t)' = PhaseOf(t)
                \/ PhaseOf(t) \in Contract!Live /\ PhaseOf(t)' = "lost"
                \/ PhaseOf(t) = "closing" /\ PhaseOf(t)' \in Contract!End
             /\ PhaseOf(t)' = "unborn" <=> PhaseOf(t) = "unborn"
  <2> USE DEF Contract!Phase, Contract!Live, Contract!End, TerminalEvent
  <2>1. open[t] \in {"none", "running", "waiting_approval"} /\ (Begun(t)' <=> Begun(t))
        /\ ~Closing(t)'
    BY DEF Shape, TypeOK, TurnStatus, Begun, Closing
  <2>2. CASE Ended(t)
    BY <2>2, EndedPhase, Phases
  <2>3. CASE ~Ended(t) /\ Ended(t)'
    <3>1. open[t] = "none" /\ Begun(t) /\ Closing(t)
      BY <2>3, NewEnd DEF Final, Announced, Closing
    <3>2. QED
      BY <2>3, <3>1, Phases
  <2>4. CASE ~Ended(t) /\ ~Ended(t)'
    <3>1. open[t] # "none" => Begun(t)
      BY DEF Announced
    <3>2. PhaseOf(t) = IF open[t] # "none" THEN open[t]
                       ELSE IF ~Begun(t) THEN "unborn" ELSE IF Closing(t) THEN "closing" ELSE "lost"
      BY <2>4, Phases
    <3>3. PhaseOf(t)' = IF open'[t] # "none" THEN open'[t]
                        ELSE IF ~Begun(t) THEN "unborn" ELSE "lost"
      BY <2>1, <2>4, Phases
    <3>4. QED
      BY <2>1, <3>1, <3>2, <3>3
  <2>5. QED
    BY <2>2, <2>3, <2>4
<1>2. OwnerMap' = OwnerMap
  BY <1>1, OwnerKept
<1>3. PhaseMap' \in [Turn -> Contract!Phase]
  BY <1>1 DEF PhaseMap
<1>4. QED
  BY <1>1, <1>2, <1>3 DEF Contract!Lose, OwnerMap, PhaseMap

LEMMA FinishBegins ==
  ASSUME Shape, Unique, Final, Final', Announced, [Next]_vars, FinishStart
  PROVE  Contract!Next
<1>1. /\ At("done") /\ job'.at = "policy" /\ Starting
      /\ job.turn \in Turn /\ request[job.turn].thread = job.thread
      /\ job.thread \in Thread
      /\ open' = [open EXCEPT ![job.turn] = "running"]
      /\ UNCHANGED <<log, ran, request>>
  BY DEF FinishStart, Job, At, Shape, JobShape, Starting, ThreadOp, disk
<1>2. PICK t \in Turn : t = job.turn
  BY <1>1
<1>3. PICK th \in Thread : th = job.thread
  BY <1>1
<1>4. \A u \in Turn : ~Closing(u) /\ ~Closing(u)'
  BY <1>1 DEF Closing, At
<1>5. \A u \in Turn \ {t} : Begun(u)' <=> Begun(u)
  BY <1>2 DEF FinishStart, Publish, Begun
<1>6. ~Ended(t) /\ ~Begun(t) /\ open[t] = "none"
  BY <1>1, <1>2 DEF Final, Announced
<1>7. PhaseOf(t) = "unborn"
  BY <1>6, Phases
<1>8. PhaseOf(t)' = "running"
  <2>1. ~Ended(t)' /\ open'[t] = "running"
    BY <1>1, <1>2, <1>6, EndedSame DEF Shape, TypeOK
  <2>2. QED
    BY <2>1, Phases
<1>9. ASSUME NEW u \in Turn \ {t} PROVE PhaseOf(u)' = PhaseOf(u)
  <2>1. open'[u] = open[u]
    BY <1>1, <1>2, <1>9 DEF Shape, TypeOK
  <2>2. QED
    BY <1>4, <1>5, <1>9, <2>1, SamePhase
<1>10. PhaseMap' = [PhaseMap EXCEPT ![t] = "running"]
  BY <1>8, <1>9 DEF PhaseMap
<1>11. OwnerMap' = [OwnerMap EXCEPT ![t] = th]
  BY <1>1, <1>2, <1>3, <1>8, <1>9 DEF OwnerMap
<1>12. ASSUME NEW u \in Turn, OwnerMap[u] = th PROVE PhaseOf(u) \notin Contract!Live
  <2>1. th # None
    BY NoneAssumption
  <2>2. PhaseOf(u) # "unborn" /\ request[u].thread = th
    BY <1>12, <2>1 DEF OwnerMap
  <2>3. open[u] = "none"
    BY <1>1, <1>3, <2>2 DEF Unique
  <2>4. QED
    BY <1>4, <2>3, Phases DEF Contract!Live, TerminalEvent
<1>13. Contract!Begin(t, th)
  <2>1. Contract!Move(t, {"unborn"}, "running")
    BY <1>1, <1>7, <1>10 DEF Contract!Move, PhaseMap
  <2>2. QED
    BY <1>11, <1>12, <2>1 DEF Contract!Begin, OwnerMap, PhaseMap
<1>14. QED
  BY <1>13 DEF Contract!Next

(* The model works for a turn that runs.                                   *)
LEMMA ModelWorks ==
  ASSUME Shape, Final, Final', Announced, [Next]_vars, HandToModel(job.thread, job.turn),
         At("policy") \/ At("resumed"), UNCHANGED <<open, log>>, ~FinishStart
  PROVE  Contract!Next
<1>1. job.turn \in Turn /\ open[job.turn] = "running" /\ ~At("append") /\ job'.at = "stream"
  BY DEF At, Shape, JobShape, Announced, Running, HandToModel, Job, ThreadOp
<1>2. PICK t \in Turn : t = job.turn
  BY <1>1
<1>3. \A u \in Turn : ~Closing(u) /\ ~Closing(u)'
  BY <1>1 DEF Closing, At
<1>4. ASSUME NEW u \in Turn PROVE PhaseOf(u)' = PhaseOf(u)
  BY <1>3, BegunKept, SamePhase
<1>5. PhaseOf(t) = "running"
  BY <1>1, <1>2, Phases DEF Final, EndedStaysEnded
<1>6. PhaseMap' = PhaseMap /\ OwnerMap' = OwnerMap
  BY <1>4, OwnerKept DEF PhaseMap
<1>7. ran' = [ran EXCEPT ![t] = @ + 1]
  BY <1>2 DEF HandToModel
<1>8. Contract!Work(t)
  BY <1>5, <1>6, <1>7 DEF Contract!Work, PhaseMap, OwnerMap
<1>9. QED
  BY <1>8 DEF Contract!Next

LEMMA ContractStep ==
  Shape /\ Unique /\ Final /\ Final' /\ Announced /\ [Next]_vars =>
    Contract!Next \/ UNCHANGED Contract!vars
<1> SUFFICES ASSUME Shape, Unique, Final, Final', Announced, [Next]_vars
             PROVE  Contract!Next \/ UNCHANGED Contract!vars
  OBVIOUS
<1> USE DEF disk, memory, ghosts, limits
<1>1. ASSUME NEW th \in Thread, NEW t \in Turn, BeginCancel(th, t), ~At("append"), ~FinishStart
      PROVE  Contract!Next
  <2>1. At("append")' /\ job'.turn = t
    BY <1>1 DEF BeginCancel, Transition, Job, At
  <2>2. Contract!Close(t)
    BY <1>1, <2>1, CancelCloses DEF BeginCancel
  <2>3. QED
    BY <2>2 DEF Contract!Next
<1>2. CASE Client
  <2>1. ~At("append") /\ ~FinishStart
    BY <1>2 DEF Client, StartThread, ResumeThread, CallTool, ForkThread, StartTurn, CancelTurn,
                RespondApproval, UpdateRuntimeConfig, At, FinishStart
  <2>2. CASE \E th \in Thread, t \in Turn : CancelTurn(th, t)
    BY <1>1, <2>1, <2>2 DEF CancelTurn
  <2>3. ASSUME NEW th \in Thread, NEW t \in Turn, NEW g \in Goal, NEW r \in Risks,
               StartTurn(th, t, g, r)
        PROVE  UNCHANGED Contract!vars
    <3>1. UNCHANGED <<log, open, published, ran>> /\ job'.turn = t /\ request[t] = None
      BY <2>3 DEF StartTurn, Transition, Job
    <3>2. ASSUME NEW u \in Turn PROVE PhaseOf(u)' = PhaseOf(u)
      <4>1. Ended(u)' = Ended(u) /\ (Begun(u)' <=> Begun(u))
        BY <3>1, EndedSame DEF Begun
      <4>2. u = t => ~Begun(u)
        BY <3>1 DEF Announced
      <4>3. QED
        BY <2>1, <3>1, <4>1, <4>2, SamePhase DEF Closing
    <3>3. QED
      BY <3>1, <3>2, Stutters
  <2>4. CASE ~\E th \in Thread, t \in Turn, g \in Goal, r \in Risks :
               CancelTurn(th, t) \/ StartTurn(th, t, g, r)
    <3>1. \/ ~At("append")' /\ UNCHANGED <<open, ran>>
          \/ \E th \in Thread, t \in Turn : CancelTurn(th, t)
      BY <1>2, <2>1, <2>4
      DEF Client, StartThread, ResumeThread, CallTool, ForkThread, RespondApproval,
          UpdateRuntimeConfig, Job, At
    <3>2. QED
      BY <2>1, <2>2, <3>1, QuietStutters
  <2>5. QED
    BY <2>2, <2>3, <2>4
<1>3. CASE Write
  <2>1. CASE AppendTurnLog
    BY <2>1, AppendRecords
  <2>2. CASE PutThread \/ SyncActiveThreadIds
    BY <2>2, QuietStutters DEF PutThread, SyncActiveThreadIds, At, FinishStart, Shape, TypeOK, JobRecord
  <2>3. QED
    BY <1>3, <2>1, <2>2 DEF Write
<1>4. CASE Finish
  <2>1. CASE FinishStart
    BY <2>1, FinishBegins
  <2>2. CASE ~FinishStart
    BY <1>4, <2>2, QuietStutters
    DEF Finish, FinishThread, FinishWait, FinishResume, FinishEnd, At, Job, Idle
  <2>3. QED
    BY <2>1, <2>2
<1>5. CASE EvaluatePolicy \/ ResumeApproved
  <2>1. CASE HandToModel(job.thread, job.turn)
    BY <1>5, <2>1, ModelWorks DEF EvaluatePolicy, ResumeApproved, At, FinishStart
  <2>2. CASE ~HandToModel(job.thread, job.turn)
    BY <1>5, <2>2, QuietStutters
    DEF EvaluatePolicy, ResumeApproved, At, FinishStart, Shape, TypeOK, JobRecord
  <2>3. QED
    BY <2>1, <2>2
<1>6. CASE PutCheckpoint \/ PutCheckpointOnThread \/ AnswerTooLate \/ RunTool
  BY <1>6, QuietStutters
  DEF PutCheckpoint, PutCheckpointOnThread, AnswerTooLate, RunTool, At, FinishStart, Idle, Shape,
      TypeOK, JobRecord
<1>7. CASE MarkWaitingApproval \/ MarkRunning \/ Model
  <2>1. /\ ~At("append") /\ ~FinishStart /\ At("append")' /\ job.turn \in Turn
        /\ job'.turn = job.turn /\ InActiveTurns(job.turn) /\ ran' = ran
    BY <1>7 DEF MarkWaitingApproval, MarkRunning, Model, CompleteTurn, FailTurn, EndTurn, At, Job,
                Transition, FinishStart, Shape, JobShape, ThreadOp
  <2>2. PICK t \in Turn : t = job.turn
    BY <2>1
  <2>3. CASE MarkWaitingApproval
    <3>1. open[t] = "running" /\ open' = [open EXCEPT ![t] = "waiting_approval"]
      BY <2>2, <2>3 DEF MarkWaitingApproval, Announced, Running, At
    <3>2. Contract!Move(t, {"running"}, "waiting_approval") /\ OwnerMap' = OwnerMap
      <4>1. PICK from : from = {"running"}
        OBVIOUS
      <4>2. open[t] \in from /\ open[t] # "none" /\ "unborn" \notin from \cup {"waiting_approval"}
        BY <3>1, <4>1
      <4>3. Contract!Move(t, from, "waiting_approval") /\ OwnerMap' = OwnerMap
        BY <2>1, <2>2, <3>1, <4>2, BeginsMoves
      <4>4. QED
        BY <4>1, <4>3
    <3>3. Contract!Wait(t)
      BY <3>2 DEF Contract!Wait, OwnerMap
    <3>4. QED
      BY <3>3 DEF Contract!Next
  <2>4. CASE MarkRunning
    <3>1. open' = [open EXCEPT ![t] = "running"]
      BY <2>2, <2>4 DEF MarkRunning
    <3>2. CASE open[t] = "waiting_approval"
      <4>1. Contract!Move(t, {"waiting_approval"}, "running") /\ OwnerMap' = OwnerMap
        <5>1. PICK from : from = {"waiting_approval"}
          OBVIOUS
        <5>2. open[t] \in from /\ open[t] # "none" /\ "unborn" \notin from \cup {"running"}
          BY <3>2, <5>1
        <5>3. Contract!Move(t, from, "running") /\ OwnerMap' = OwnerMap
          BY <2>1, <2>2, <3>1, <5>2, BeginsMoves
        <5>4. QED
          BY <5>1, <5>3
      <4>2. Contract!Approve(t)
        BY <4>1 DEF Contract!Approve, OwnerMap
      <4>3. QED
        BY <4>2 DEF Contract!Next
    <3>3. CASE open[t] = "running"
      <4>1. open' = open
        BY <3>1, <3>3 DEF Shape, TypeOK
      <4>2. ASSUME NEW u \in Turn PROVE PhaseOf(u)' = PhaseOf(u)
        <5>1. open[u] = "none" => u # t
          BY <3>3
        <5>2. QED
          BY <2>1, <2>2, <4>1, <5>1, BegunKept, SamePhase DEF Closing
      <4>3. QED
        BY <2>1, <4>2, Stutters
    <3>4. QED
      BY <2>1, <2>2, <3>2, <3>3 DEF InActiveTurns, Shape, TypeOK, TurnStatus
  <2>5. CASE Model
    <3>1. open' = Removed(t)
      BY <2>2, <2>5 DEF Model, CompleteTurn, FailTurn, EndTurn
    <3>2. Contract!Close(t)
      BY <2>1, <2>2, <3>1, CancelCloses
    <3>3. QED
      BY <3>2 DEF Contract!Next
  <2>6. QED
    BY <1>7, <2>3, <2>4, <2>5
<1>8. CASE CancelDenied
  <2>1. job.thread \in Thread /\ job.turn \in Turn /\ ~At("append") /\ ~FinishStart
    BY <1>8 DEF CancelDenied, FinishStart, At, Shape, JobShape, Decision, ThreadOp
  <2>2. QED
    BY <1>1, <1>8, <2>1 DEF CancelDenied
<1>9. CASE ReadFails \/ Restart
  <2>1. ~At("append")' /\ \A t \in Turn : open'[t] \in {open[t], "none"}
    BY <1>9, IdleType DEF ReadFails, Restart, At
  <2>2. Contract!Lose
    BY <1>9, <2>1, CutLoses DEF ReadFails, Restart
  <2>3. QED
    BY <2>2 DEF Contract!Next
<1>10. CASE IoFails
  <2>1. ~At("append")'
    BY <1>10, IdleType DEF IoFails, FailAccess, FailAppend, FailTool, FailFile, CutTool, At
  <2>2. Contract!Lose
    BY <1>10, <2>1, CutLoses DEF IoFails
  <2>3. QED
    BY <2>2 DEF Contract!Next
<1>11. CASE UNCHANGED vars
  <2>1. ASSUME NEW t \in Turn PROVE PhaseOf(t)' = PhaseOf(t)
    <3>1. Ended(t)' = Ended(t)
      BY <1>11, EndedSame DEF vars
    <3>2. CASE Ended(t)
      BY <3>2, EndedPhase
    <3>3. CASE ~Ended(t)
      <4>1. open' = open /\ (Begun(t)' <=> Begun(t)) /\ (Closing(t)' <=> Closing(t))
        BY <1>11 DEF vars, ghosts, memory, Begun, Closing, At
      <4>2. QED
        BY <3>1, <3>3, <4>1, Phases
    <3>4. QED
      BY <3>2, <3>3
  <2>2. QED
    BY <1>11, <2>1, Stutters DEF vars
<1>12. QED
  BY <1>2, <1>3, <1>4, <1>5, <1>6, <1>7, <1>8, <1>9, <1>10, <1>11
  DEF Next, Server, Gate, Answer

(* Every step of the server, whatever fails or ends, is a step the         *)
(* contract allows the turn it serves, or changes nothing clients can see. *)
THEOREM ContractImplemented == Spec => ImplementsContract
<1>1. Init => Shape /\ Unique /\ Final /\ Announced
  BY InitShape, IdleType
  DEF Init, Unique, OneOpenTurn, Starting, Final, EndedStaysEnded, EndsOnce, Ended, Announced, Begun,
      Running, At, Idle
<1>2. Init => Contract!Init
  <2> SUFFICES ASSUME Init PROVE Contract!Init
    OBVIOUS
  <2>1. \A t \in Turn : PhaseOf(t) = "unborn"
    BY DEF Init, PhaseOf, Ended
  <2>2. QED
    BY <2>1 DEF Init, Contract!Init
<1>3. Shape /\ Unique /\ Final /\ Announced /\ [Next]_vars =>
        (Shape /\ Unique /\ Final /\ Announced)'
  BY NextShape, UniqueNext, FinalNext, AnnouncedNext
<1>4. Shape /\ Unique /\ Final /\ Final' /\ Announced /\ [Next]_vars =>
        [Contract!Next]_(Contract!vars)
  BY ContractStep
<1>5. QED
  BY <1>1, <1>2, <1>3, <1>4, PTL DEF Spec, ImplementsContract, Contract!Spec

-----------------------------------------------------------------------------
(* As long as no store access fails.  Restarts and torn files remain: they *)
(* take turns out of active_turns or refuse them, and what a turn in       *)
(* active_turns owes to nobody else than the job that serves it.           *)

NoFault == faults = 0

Moving == job.at \in {"append", "put", "sync", "done"}

(* How the turn in hand stands while its transition is written, and what   *)
(* has happened only to turns that began.                                  *)
Settled ==
  /\ Moving /\ job.op = "approval_wait" => open[job.turn] = "waiting_approval"
  /\ Moving /\ job.op \in TerminalEvent => open[job.turn] = "none"
  /\ \A t \in Turn : approval[t] # "none" \/ ran[t] # 0 \/ <<"deny", t>> \in published => Begun(t)

LEMMA StepsWithoutFault ==
  Shape /\ [Next]_vars /\ NoFault' => NoFault /\ ~IoFails
<1>1. [Next]_vars => faults' = faults \/ IoFails
  BY DEF Next, Client, StartThread, ResumeThread, CallTool, ForkThread, StartTurn, CancelTurn,
         BeginCancel, RespondApproval, UpdateRuntimeConfig, Server, Write, AppendTurnLog,
         PutThread, SyncActiveThreadIds, Finish, FinishThread, FinishStart, FinishWait,
         FinishResume, FinishEnd, Gate, EvaluatePolicy, PutCheckpoint, PutCheckpointOnThread,
         MarkWaitingApproval, Answer, MarkRunning, CancelDenied, AnswerTooLate, ResumeApproved,
         Model, CompleteTurn, FailTurn, EndTurn, ReadFails, RunTool, Restart, limits, vars
<1>2. Shape /\ IoFails => faults' # 0
  BY DEF IoFails, Shape, TypeOK
<1>3. QED
  BY <1>1, <1>2 DEF NoFault

(* How the transitions in hand come about.                                 *)
LEMMA MovingFrom ==
  Shape /\ [Next]_vars /\ Moving' /\ job'.op \notin ThreadOp =>
    \/ Write /\ UNCHANGED open /\ job'.op = job.op /\ job'.turn = job.turn /\ Moving
    \/ UNCHANGED vars
    \/ \E th \in Thread, t \in Turn, g \in Goal, r \in Risks : StartTurn(th, t, g, r)
    \/ MarkWaitingApproval \/ MarkRunning \/ Model
    \/ \E th \in Thread, t \in Turn : BeginCancel(th, t)
<1> SUFFICES ASSUME Shape, [Next]_vars, Moving', job'.op \notin ThreadOp,
                    ~(UNCHANGED vars),
                    ~\E th \in Thread, t \in Turn, g \in Goal, r \in Risks : StartTurn(th, t, g, r),
                    ~(MarkWaitingApproval \/ MarkRunning \/ Model),
                    ~\E th \in Thread, t \in Turn : BeginCancel(th, t)
             PROVE  Write /\ UNCHANGED open /\ job'.op = job.op /\ job'.turn = job.turn /\ Moving
  OBVIOUS
<1>1. CASE Write
  BY <1>1 DEF Write, AppendTurnLog, PutThread, SyncActiveThreadIds, At, Shape, TypeOK, JobRecord,
              Moving, memory
<1>2. ~Client
  BY DEF Client, StartThread, ResumeThread, CallTool, ForkThread, CancelTurn, RespondApproval,
         UpdateRuntimeConfig, At, Moving, Job, ThreadOp
<1>3. ~(Finish \/ EvaluatePolicy \/ PutCheckpoint \/ PutCheckpointOnThread)
  BY DEF Finish, FinishThread, FinishStart, FinishWait, FinishResume, FinishEnd, EvaluatePolicy,
         PutCheckpoint, PutCheckpointOnThread, HandToModel, Moving, Job, Idle, At, Shape, TypeOK,
         JobRecord
<1>4. ~(CancelDenied \/ AnswerTooLate \/ ResumeApproved)
  BY DEF CancelDenied, AnswerTooLate, ResumeApproved, HandToModel, Moving, Job, Idle, At, Shape,
         JobShape, Decision, ThreadOp
<1>5. ~(ReadFails \/ RunTool \/ IoFails \/ Restart)
  BY DEF ReadFails, RunTool, IoFails, FailAccess, FailAppend, FailTool, FailFile, CutTool, Restart,
         Idle, At, Moving
<1>6. QED
  BY <1>1, <1>2, <1>3, <1>4, <1>5 DEF Next, Server, Gate, Answer

LEMMA DenialsPublished ==
  ASSUME [Next]_vars, NEW t \in Turn, <<"deny", t>> \in published', <<"deny", t>> \notin published
  PROVE  At("idle") /\ approval[t] # "none" /\ \E d \in Decision : RespondApproval(t, d) /\ d = "deny"
<1> USE DEF ghosts
<1>1. ASSUME NEW u, NEW event, event # "deny", Publish(event, u) PROVE FALSE
  BY <1>1 DEF Publish
<1>2. published' # published
  OBVIOUS
<1>3. CASE Client
  <2>1. PICK u \in Turn, d \in Decision : RespondApproval(u, d)
    BY <1>2, <1>3
    DEF Client, StartThread, ResumeThread, CallTool, AppendToolEntry, ForkThread, StartTurn,
        CancelTurn, BeginCancel, UpdateRuntimeConfig
  <2>2. u = t /\ d = "deny"
    BY <2>1 DEF RespondApproval, Publish
  <2>3. QED
    BY <2>1, <2>2 DEF RespondApproval
<1>4. ~(FinishStart \/ FinishWait \/ FinishEnd)
  BY <1>1 DEF FinishStart, FinishWait, FinishEnd, TerminalEvent
<1>5. ~(Write \/ FinishThread \/ FinishResume)
  BY <1>2 DEF Write, AppendTurnLog, PutThread, SyncActiveThreadIds, FinishThread, FinishResume
<1>6. ~Gate
  BY <1>2 DEF Gate, EvaluatePolicy, HandToModel, PutCheckpoint, PutCheckpointOnThread,
              MarkWaitingApproval
<1>7. ~(Answer \/ Model \/ ReadFails)
  BY <1>2 DEF Answer, MarkRunning, CancelDenied, BeginCancel, AnswerTooLate, ResumeApproved,
              HandToModel, Model, CompleteTurn, FailTurn, EndTurn, ReadFails
<1>8. ~(RunTool \/ IoFails \/ Restart \/ UNCHANGED vars)
  BY <1>2 DEF RunTool, IoFails, Restart, vars
<1>9. QED
  BY <1>3, <1>4, <1>5, <1>6, <1>7, <1>8 DEF Next, Server, Finish

LEMMA SettledNext == Shape /\ Announced /\ Settled /\ [Next]_vars => Settled'
<1> SUFFICES ASSUME Shape, Announced, Settled, [Next]_vars PROVE Settled'
  OBVIOUS
<1>1. ASSUME Moving', job'.op \in {"approval_wait"} \cup TerminalEvent
      PROVE  open'[job'.turn] = IF job'.op = "approval_wait" THEN "waiting_approval" ELSE "none"
  <2>1. CASE Write /\ UNCHANGED open /\ job'.op = job.op /\ job'.turn = job.turn /\ Moving
    BY <1>1, <2>1 DEF Settled, TerminalEvent
  <2>2. CASE UNCHANGED vars
    BY <1>1, <2>2 DEF vars, memory, Settled, Moving, TerminalEvent
  <2>3. CASE \E th \in Thread, t \in Turn, g \in Goal, r \in Risks : StartTurn(th, t, g, r)
    BY <1>1, <2>3 DEF StartTurn, Transition, Job, TerminalEvent
  <2>4. CASE MarkWaitingApproval \/ MarkRunning \/ Model
    <3>1. job.turn \in Turn
      BY <2>4 DEF MarkWaitingApproval, MarkRunning, Model, CompleteTurn, FailTurn, EndTurn, At,
                  Shape, JobShape, ThreadOp
    <3>2. QED
      BY <1>1, <2>4, <3>1
      DEF MarkWaitingApproval, MarkRunning, Model, CompleteTurn, FailTurn, EndTurn, Removed,
          Transition, Job, TerminalEvent, Shape, TypeOK
  <2>5. CASE \E th \in Thread, t \in Turn : BeginCancel(th, t)
    BY <1>1, <2>5 DEF BeginCancel, Removed, Transition, Job, TerminalEvent, Shape, TypeOK
  <2>6. QED
    BY <1>1, <2>1, <2>2, <2>3, <2>4, <2>5, MovingFrom DEF TerminalEvent, ThreadOp
<1>2. ASSUME NEW t \in Turn,
             approval'[t] # "none" \/ ran'[t] # 0 \/ <<"deny", t>> \in published'
      PROVE  Begun(t)'
  <2>1. Begun(t) => Begun(t)'
    BY BegunKept DEF Begun
  <2>2. CASE approval'[t] # "none" /\ approval[t] = "none"
    <3>1. FinishWait
      BY <2>2, AskedBy
    <3>2. t = job.turn /\ open[t] = "waiting_approval"
      BY <2>2, <3>1 DEF FinishWait, At, Settled, Moving, Shape, TypeOK
    <3>3. QED
      BY <2>1, <3>2 DEF Announced
  <2>3. CASE ran'[t] # 0 /\ ran[t] = 0
    <3>1. EvaluatePolicy \/ ResumeApproved
      BY <2>3, RunsCounted
    <3>2. t = job.turn /\ Running
      BY <2>3, <3>1 DEF EvaluatePolicy, ResumeApproved, HandToModel, At, Running, Shape, TypeOK
    <3>3. open[t] # "none"
      BY <3>2 DEF Announced
    <3>4. QED
      BY <2>1, <3>3 DEF Announced
  <2>4. CASE <<"deny", t>> \in published' /\ <<"deny", t>> \notin published
    <3>1. approval[t] # "none"
      BY <2>4, DenialsPublished
    <3>2. QED
      BY <2>1, <3>1 DEF Settled
  <2>5. QED
    BY <1>2, <2>1, <2>2, <2>3, <2>4 DEF Settled
<1>3. QED
  BY <1>1, <1>2 DEF Settled, TerminalEvent

(* The job serves t.                                                       *)
Holding(t) == job.at # "idle" /\ job.op \notin ThreadOp /\ job.turn = t

(* A job lets go of a turn that stays in active_turns when the turn waits, *)
(* or when a torn file stops it.                                           *)
LEMMA LetsGo ==
  ASSUME Shape, Settled, [Next]_vars, ~IoFails, NEW t \in Turn, Holding(t), open'[t] # "none"
  PROVE  Holding(t)' \/ FinishWait \/ (ReadFails /\ ~CanRead)
<1> SUFFICES ASSUME ~FinishWait, ~ReadFails PROVE Holding(t)'
  BY DEF ReadFails
<1> USE DEF Holding
<1>1. CASE job' = job
  BY <1>1
<1>2. CASE job'.at # "idle" /\ job'.op \notin ThreadOp /\ job'.turn = job.turn
  BY <1>2
<1>3. ~Client
  BY DEF Client, StartThread, ResumeThread, CallTool, ForkThread, StartTurn, CancelTurn,
         RespondApproval, UpdateRuntimeConfig, At
<1>4. CASE Write
  BY <1>4 DEF Write, AppendTurnLog, PutThread, SyncActiveThreadIds, Shape, TypeOK, JobRecord
<1>5. CASE Finish
  <2>1. ~FinishThread
    BY DEF FinishThread
  <2>2. ~FinishEnd
    BY DEF FinishEnd, At, Settled, Moving, memory
  <2>3. QED
    BY <1>5, <2>1, <2>2 DEF Finish, FinishStart, FinishResume, Job, ThreadOp
<1>6. CASE EvaluatePolicy \/ PutCheckpoint \/ PutCheckpointOnThread \/ ResumeApproved
  BY <1>6 DEF EvaluatePolicy, PutCheckpoint, PutCheckpointOnThread, ResumeApproved, HandToModel, Job,
              ThreadOp, Shape, TypeOK, JobRecord
<1>7. CASE MarkWaitingApproval \/ MarkRunning \/ CancelDenied \/ Model
  BY <1>7 DEF MarkWaitingApproval, MarkRunning, CancelDenied, BeginCancel, Model, CompleteTurn,
              FailTurn, EndTurn, Transition, Job, ThreadOp
<1>8. ~AnswerTooLate
  BY DEF AnswerTooLate, InActiveTurns, memory
<1>9. ~Restart
  BY DEF Restart
<1>10. CASE RunTool \/ UNCHANGED vars
  BY <1>1, <1>10 DEF RunTool, vars
<1>11. QED
  BY <1>3, <1>4, <1>5, <1>6, <1>7, <1>8, <1>9, <1>10 DEF Next, Server, Gate, Answer

(* Runs.                                                                   *)
Once ==
  NoFault => \A t \in Turn :
    ran[t] # 0 => ran[t] = 1 /\ (open[t] # "none" => At("stream") /\ job.turn = t)

LEMMA OnceNext ==
  Shape /\ Announced /\ Settled /\ Once /\ [Next]_vars => Once'
<1> SUFFICES ASSUME Shape, Announced, Settled, Once, [Next]_vars, NoFault', NEW t \in Turn,
                    ran'[t] # 0
             PROVE  ran'[t] = 1 /\ (open'[t] # "none" => At("stream")' /\ job'.turn = t)
  BY DEF Once
<1>1. NoFault /\ ~IoFails
  BY StepsWithoutFault
<1>2. CASE EvaluatePolicy \/ ResumeApproved
  <2>1. CASE ran' = ran
    <3>1. job.at = "policy" /\ UNCHANGED open
      BY <1>2, <2>1 DEF EvaluatePolicy, ResumeApproved, HandToModel, At, Shape, TypeOK, JobShape,
                        ThreadOp, memory
    <3>2. QED
      BY <1>1, <2>1, <3>1 DEF Once, At
  <2>2. CASE ran' # ran
    <3>1. /\ HandToModel(job.thread, job.turn) /\ UNCHANGED open /\ Running
          /\ job.turn \in Turn /\ ~At("stream")
      BY <1>2, <2>2 DEF EvaluatePolicy, ResumeApproved, At, Running, Shape, JobShape, ThreadOp, memory
    <3>2. open[job.turn] # "none"
      BY <3>1 DEF Announced
    <3>3. ran[job.turn] = 0
      BY <1>1, <3>1, <3>2 DEF Once
    <3>4. /\ ran'[t] = IF t = job.turn THEN 1 ELSE ran[t]
          /\ job'.at = "stream" /\ job'.turn = job.turn
      BY <3>1, <3>3 DEF HandToModel, Job, Shape, TypeOK
    <3>5. QED
      BY <1>1, <3>1, <3>4 DEF Once, At
  <2>3. QED
    BY <2>1, <2>2
<1>3. CASE ~EvaluatePolicy /\ ~ResumeApproved
  <2>1. ran' = ran
    BY <1>3, RunsCounted
  <2>2. ran[t] = 1 /\ (open[t] # "none" => At("stream") /\ job.turn = t)
    BY <1>1, <2>1 DEF Once
  <2>3. CASE open'[t] = "none"
    BY <2>1, <2>2, <2>3
  <2>4. CASE open'[t] # "none" /\ open[t] = "none"
    <3>1. FinishStart /\ t = job.turn /\ Starting
      BY <2>4, OpenedBy DEF FinishStart, Starting, At, Shape, TypeOK
    <3>2. ~Begun(t)
      BY <3>1 DEF Announced
    <3>3. QED
      <4>1. ran[t] # 0
        BY <2>2
      <4>2. QED
        BY <3>2, <4>1 DEF Settled
  <2>5. CASE open'[t] # "none" /\ open[t] # "none"
    <3>1. At("stream") /\ job.turn = t
      BY <2>2, <2>5
    <3>2. job' = job
      <4>1. CanRead
        BY <3>1 DEF CanRead, Needed, At
      <4>2. ~(Client \/ Write \/ Finish \/ Gate \/ Answer \/ ReadFails)
        BY <3>1, <4>1
        DEF Client, StartThread, ResumeThread, CallTool, ForkThread, StartTurn, CancelTurn,
            RespondApproval, UpdateRuntimeConfig, Write, AppendTurnLog, PutThread,
            SyncActiveThreadIds, Finish, FinishThread, FinishStart, FinishWait, FinishResume,
            FinishEnd, Gate, EvaluatePolicy, PutCheckpoint, PutCheckpointOnThread,
            MarkWaitingApproval, Answer, MarkRunning, CancelDenied, AnswerTooLate, ResumeApproved,
            ReadFails, At
      <4>3. ~(Model \/ Restart)
        BY <2>5, <3>1 DEF Model, CompleteTurn, FailTurn, EndTurn, Removed, Restart, Shape, TypeOK
      <4>4. QED
        BY <1>1, <4>2, <4>3 DEF Next, Server, RunTool, vars
    <3>3. QED
      BY <2>1, <2>2, <3>1, <3>2 DEF At
  <2>6. QED
    BY <2>3, <2>4, <2>5
<1>4. QED
  BY <1>2, <1>3

(* Denials.                                                                *)
Denied ==
  NoFault =>
    /\ \A t \in Turn : open[t] # "none" => ThreadFile(request[t].thread) \notin torn
    /\ Starting => ThreadFile(job.thread) \notin torn
    /\ \A t \in Turn : <<"deny", t>> \in published /\ open[t] # "none" =>
         At("answered") /\ job.op = "deny" /\ job.turn = t

(* Only a cut file write tears a thread file.                              *)
LEMMA ThreadFileTorn ==
  ASSUME [Next]_vars, ~IoFails, ~Restart, NEW th, ThreadFile(th) \in torn'
  PROVE  ThreadFile(th) \in torn
<1>1. ASSUME NEW uh, NEW e, AppendEntry(uh, e) PROVE ThreadFile(th) \in torn
  BY <1>1 DEF AppendEntry, ThreadFile, LogFile
<1>2. CASE UNCHANGED torn
  BY <1>2
<1>3. QED
  BY <1>1, <1>2
  DEF Next, Client, StartThread, ResumeThread, CallTool, AppendToolEntry, ForkThread, StartTurn,
      CancelTurn, BeginCancel, RespondApproval, UpdateRuntimeConfig, Server, Write, AppendTurnLog,
      PutThread, SyncActiveThreadIds, Finish, FinishThread, FinishStart, FinishWait, FinishResume,
      FinishEnd, Gate, EvaluatePolicy, PutCheckpoint, PutCheckpointOnThread,
      MarkWaitingApproval, Answer, MarkRunning, CancelDenied, AnswerTooLate, ResumeApproved, Model,
      CompleteTurn, FailTurn, EndTurn, ReadFails, RunTool, vars, disk

LEMMA DeniedNext ==
  Shape /\ Announced /\ Settled /\ Denied /\ [Next]_vars => Denied'
<1> SUFFICES ASSUME Shape, Announced, Settled, Denied, [Next]_vars, NoFault' PROVE Denied'
  BY DEF Denied
<1>1. NoFault /\ ~IoFails
  BY StepsWithoutFault
<1>2. CASE Restart
  BY <1>2 DEF Restart, Denied, Starting, Idle
<1>3. CASE ~Restart
  <2>1. ASSUME NEW t \in Turn, open'[t] # "none"
        PROVE  ThreadFile(request'[t].thread) \notin torn'
    <3>1. request[t] # None /\ ThreadFile(request[t].thread) \notin torn
      <4>1. CASE open[t] # "none"
        BY <1>1, <4>1 DEF Denied, Shape, TurnShape
      <4>2. CASE open[t] = "none"
        <5>1. FinishStart /\ t = job.turn /\ Starting
          BY <2>1, <4>2, OpenedBy DEF FinishStart, Starting, At, Shape, TypeOK
        <5>2. request[t] # None /\ request[t].thread = job.thread
          BY <5>1 DEF Starting, Shape, JobShape, ThreadOp
        <5>3. QED
          BY <1>1, <5>1, <5>2 DEF Denied
      <4>3. QED
        BY <4>1, <4>2
    <3>2. request'[t] = request[t]
      BY <3>1, RequestKept
    <3>3. QED
      BY <1>1, <1>3, <3>1, <3>2, ThreadFileTorn
  <2>2. ASSUME Starting' PROVE ThreadFile(job'.thread) \notin torn'
    <3>1. CASE \E th \in Thread, t \in Turn, g \in Goal, r \in Risks : StartTurn(th, t, g, r)
      BY <3>1 DEF StartTurn, Readable, Transition, Job, disk
    <3>2. CASE Starting /\ job'.thread = job.thread
      BY <1>1, <1>3, <3>2, ThreadFileTorn DEF Denied
    <3>3. CASE Write
      BY <2>2, <3>2, <3>3 DEF Write, AppendTurnLog, PutThread, SyncActiveThreadIds, At, Starting, Shape,
                              TypeOK, JobRecord
    <3>4. CASE UNCHANGED vars
      BY <2>2, <3>2, <3>4 DEF vars, Starting
    <3>5. Moving' /\ job'.op = "turn_started"
      BY <2>2 DEF Starting, Moving
    <3>6. ~(MarkWaitingApproval \/ MarkRunning \/ Model \/ \E th \in Thread, t \in Turn : BeginCancel(th, t))
      BY <3>5 DEF MarkWaitingApproval, MarkRunning, Model, CompleteTurn, FailTurn, EndTurn, BeginCancel,
                  Transition, Job
    <3>7. QED
      BY <3>1, <3>3, <3>4, <3>5, <3>6, MovingFrom DEF ThreadOp
  <2>3. ASSUME NEW t \in Turn, <<"deny", t>> \in published', open'[t] # "none"
        PROVE  At("answered")' /\ job'.op = "deny" /\ job'.turn = t
    <3>1. CASE <<"deny", t>> \notin published
      <4>1. RespondApproval(t, "deny")
        <5>1. PICK u \in Turn, d \in Decision : RespondApproval(u, d) /\ <<d, u>> = <<"deny", t>>
          <6>1. \E u \in Turn, d \in Decision : RespondApproval(u, d)
            BY <2>3, <3>1, DenialsPublished
          <6>2. QED
            BY <2>3, <3>1, <6>1 DEF RespondApproval, Publish
        <5>2. QED
          BY <5>1
      <4>2. QED
        BY <4>1 DEF RespondApproval, Job, At
    <3>2. CASE <<"deny", t>> \in published
      <4>1. Begun(t)
        BY <3>2 DEF Settled
      <4>2. open[t] # "none"
        <5>1. FinishStart => job.turn # t \/ ~Begun(t)
          BY DEF FinishStart, At, Announced, Starting
        <5>2. FinishStart /\ job.turn # t => open'[t] = open[t]
          BY DEF FinishStart, Shape, TypeOK
        <5>3. QED
          BY <2>3, <4>1, <5>1, <5>2, OpenedBy
      <4>3. At("answered") /\ job.op = "deny" /\ job.turn = t
        BY <1>1, <3>2, <4>2 DEF Denied
      <4>4. ThreadFile(job.thread) \notin torn
        BY <1>1, <4>2, <4>3 DEF Denied, Shape, JobShape, At, ThreadOp
      <4>5. CanRead
        BY <4>3, <4>4 DEF CanRead, Needed, At
      <4>6. ~(Client \/ Write \/ Finish \/ Gate \/ MarkRunning \/ ResumeApproved \/ Model \/ RunTool \/ ReadFails)
        BY <4>3, <4>5
        DEF Client, StartThread, ResumeThread, CallTool, ForkThread, StartTurn, CancelTurn,
            RespondApproval, UpdateRuntimeConfig, Write, AppendTurnLog, PutThread,
            SyncActiveThreadIds, Finish, FinishThread, FinishStart, FinishWait, FinishResume,
            FinishEnd, Gate, EvaluatePolicy, PutCheckpoint, PutCheckpointOnThread,
            MarkWaitingApproval, MarkRunning, ResumeApproved, Model, CompleteTurn, FailTurn,
            EndTurn, RunTool, ReadFails, At
      <4>7. ~CancelDenied
        BY <2>3, <4>3 DEF CancelDenied, BeginCancel, Removed, Shape, TypeOK
      <4>8. ~AnswerTooLate
        BY <4>2, <4>3 DEF AnswerTooLate, InActiveTurns
      <4>9. UNCHANGED vars
        BY <1>1, <1>3, <4>6, <4>7, <4>8 DEF Next, Server, Answer
      <4>10. QED
        BY <4>3, <4>9 DEF vars, At
    <3>3. QED
      BY <3>1, <3>2
  <2>4. QED
    BY <2>1, <2>2, <2>3 DEF Denied
<1>4. QED
  BY <1>2, <1>3

(* What is left in active_turns.                                           *)
Asked(t) == open[t] = "waiting_approval" /\ approval[t] = "pending"

Attended == NoFault /\ torn = {} => \A t \in Turn : open[t] # "none" => Asked(t) \/ Holding(t)

(* Only the job of a turn touches its entry or its approval, and a denial  *)
(* or an approval starts one.                                              *)
LEMMA AskedStays ==
  ASSUME Shape, [Next]_vars, NEW t \in Turn, Asked(t), ~Holding(t), open'[t] # "none"
  PROVE  Asked(t)' \/ Holding(t)'
<1> USE DEF Asked, Holding, memory
<1>1. CASE UNCHANGED <<open, approval>>
  BY <1>1
<1>2. CASE Client
  <2>1. ASSUME NEW u \in Turn, NEW d \in Decision, RespondApproval(u, d) PROVE Asked(t)' \/ Holding(t)'
    BY <2>1 DEF RespondApproval, Job, Decision, ThreadOp, Shape, TypeOK
  <2>2. ASSUME NEW th \in Thread, NEW u \in Turn, CancelTurn(th, u) PROVE Asked(t)' \/ Holding(t)'
    BY <2>2 DEF CancelTurn, BeginCancel, Removed, Shape, TypeOK
  <2>3. QED
    BY <1>1, <1>2, <2>1, <2>2
    DEF Client, StartThread, ResumeThread, CallTool, ForkThread, StartTurn, UpdateRuntimeConfig
<1>3. ASSUME job.turn # t, UNCHANGED approval, NEW s, open' = [open EXCEPT ![job.turn] = s]
      PROVE  Asked(t)'
  BY <1>3 DEF Shape, TypeOK
<1>4. CASE Finish
  <2>1. CASE FinishStart \/ FinishWait
    <3>1. job.turn # t
      BY <2>1 DEF FinishStart, FinishWait, At, ThreadOp
    <3>2. QED
      BY <1>3, <2>1, <3>1 DEF FinishStart, FinishWait, Shape, TypeOK
  <2>2. QED
    BY <1>1, <1>4, <2>1 DEF Finish, FinishThread, FinishResume, FinishEnd
<1>5. CASE MarkWaitingApproval \/ MarkRunning \/ CancelDenied \/ Model
  <2>1. job.at # "idle" /\ job.op \notin ThreadOp
    BY <1>5 DEF MarkWaitingApproval, MarkRunning, CancelDenied, Model, CompleteTurn, FailTurn,
                EndTurn, At, Shape, JobShape, Decision, ThreadOp
  <2>2. job.turn # t
    BY <2>1
  <2>3. QED
    BY <1>3, <1>5, <2>2 DEF MarkWaitingApproval, MarkRunning, CancelDenied, BeginCancel, Model,
                            CompleteTurn, FailTurn, EndTurn, Removed
<1>6. ~Restart
  BY DEF Restart
<1>7. CASE Write \/ EvaluatePolicy \/ PutCheckpoint \/ PutCheckpointOnThread \/ AnswerTooLate
           \/ ResumeApproved \/ ReadFails \/ RunTool \/ IoFails \/ UNCHANGED vars
  BY <1>1, <1>7
  DEF Write, AppendTurnLog, PutThread, SyncActiveThreadIds, EvaluatePolicy, PutCheckpoint,
      PutCheckpointOnThread, AnswerTooLate, ResumeApproved, ReadFails, RunTool, IoFails, vars
<1>8. QED
  BY <1>2, <1>4, <1>5, <1>6, <1>7 DEF Next, Server, Gate, Answer

LEMMA AttendedNext ==
  Shape /\ Announced /\ Settled /\ Attended /\ [Next]_vars => Attended'
<1> SUFFICES ASSUME Shape, Announced, Settled, Attended, [Next]_vars, NoFault', torn' = {},
                    NEW t \in Turn, open'[t] # "none"
             PROVE  Asked(t)' \/ Holding(t)'
  BY DEF Attended
<1>1. NoFault /\ ~IoFails /\ torn = {}
  BY StepsWithoutFault, TornGrows
<1>2. CASE open[t] = "none"
  <2>1. FinishStart /\ t = job.turn
    BY <1>2, OpenedBy DEF FinishStart, Shape, TypeOK
  <2>2. QED
    BY <2>1 DEF FinishStart, Job, Holding, ThreadOp
<1>3. CASE open[t] # "none" /\ Holding(t)
  <2>1. CanRead
    BY <1>1 DEF CanRead
  <2>2. CASE FinishWait
    BY <1>3, <2>2 DEF FinishWait, Holding, Asked, Settled, Moving, At, Shape, TypeOK
  <2>3. QED
    BY <1>1, <1>3, <2>1, <2>2, LetsGo
<1>4. CASE open[t] # "none" /\ ~Holding(t)
  <2>1. Asked(t)
    BY <1>1, <1>4 DEF Attended
  <2>2. QED
    BY <1>4, <2>1, AskedStays
<1>5. QED
  BY <1>2, <1>3, <1>4

-----------------------------------------------------------------------------
(* Sequence numbers.  The counter of a thread runs ahead of its log only   *)
(* when an append fails: otherwise no entry is numbered above its place.   *)

Numbered(entries) ==
  /\ \A i \in DOMAIN entries :
       /\ entries[i].seq <= i
       /\ entries[i].event = "tool_completed" => entries[i].seq = i
  /\ \A i, j \in DOMAIN entries :
       /\ i < j
       /\ entries[i].event # "tool_completed"
       /\ entries[j].event # "tool_completed"
       => entries[i].seq < entries[j].seq

(* The last number a lifecycle entry of the log has.                       *)
Reaches(entries, n) ==
  /\ n \in 0..Len(entries)
  /\ \A i \in DOMAIN entries : entries[i].event # "tool_completed" => entries[i].seq <= n

Counted ==
  NoFault => \A th \in Thread :
    /\ Numbered(log[th])
    /\ nextSeq[th] # None => Reaches(log[th], nextSeq[th])

LEMMA LastReaches ==
  ASSUME NEW entries \in Seq(LogEntry), Numbered(entries)
  PROVE  Reaches(entries, LastSeq(entries))
<1>1. LastSeq(entries) \in Nat
  BY LastSeqType
<1>2. CASE entries = <<>>
  BY <1>2 DEF LastSeq, Reaches
<1>3. CASE entries # <<>>
  <2> DEFINE n == Len(entries)
  <2>1. n \in DOMAIN entries /\ LastSeq(entries) = entries[n].seq /\ n \in Nat
    BY <1>3 DEF LastSeq
  <2>2. entries[n].seq <= n
    BY <2>1 DEF Numbered
  <2>3. ASSUME NEW i \in DOMAIN entries, entries[i].event # "tool_completed"
        PROVE  entries[i].seq <= entries[n].seq
    <3>1. i \in 1..n /\ entries[i] \in LogEntry
      BY <2>1
    <3>2. entries[i].seq \in Nat /\ entries[i].seq <= i
      BY <2>3, <3>1 DEF Numbered, LogEntry
    <3>3. CASE entries[n].event = "tool_completed"
      <4>1. entries[n].seq = n
        BY <2>1, <3>3 DEF Numbered
      <4>2. QED
        BY <2>1, <3>1, <3>2, <4>1
    <3>4. CASE entries[n].event # "tool_completed" /\ i < n
      <4>1. entries[i].seq < entries[n].seq
        BY <2>1, <2>3, <3>4 DEF Numbered
      <4>2. QED
        BY <1>1, <2>1, <3>2, <4>1
    <3>5. CASE i = n
      BY <1>1, <2>1, <3>5
    <3>6. QED
      BY <2>1, <3>1, <3>3, <3>4, <3>5
  <2>4. QED
    BY <1>1, <2>1, <2>2, <2>3 DEF Reaches
<1>4. QED
  BY <1>2, <1>3

(* An entry numbered as the code numbers it keeps the log numbered.        *)
LEMMA NumberedAppend ==
  ASSUME NEW entries \in Seq(LogEntry), NEW e \in LogEntry, NEW n \in Nat,
         Numbered(entries), Reaches(entries, n),
         e.event = "tool_completed" => e.seq = Len(entries) + 1,
         e.event # "tool_completed" => e.seq = n + 1
  PROVE  /\ Numbered(Append(entries, e))
         /\ e.event # "tool_completed" => Reaches(Append(entries, e), n + 1)
         /\ e.event = "tool_completed" => Reaches(Append(entries, e), n)
<1> DEFINE s == Append(entries, e)
           m == Len(entries)
<1>1. m \in Nat /\ Len(s) = m + 1 /\ DOMAIN s = 1..(m + 1) /\ DOMAIN entries = 1..m
  OBVIOUS
<1>2. s[m + 1] = e /\ \A i \in 1..m : s[i] = entries[i]
  BY <1>1
<1>3. \A i \in 1..m : entries[i].seq \in Nat
  <2>1. \A i \in 1..m : entries[i] \in LogEntry
    BY <1>1
  <2>2. QED
    BY <2>1 DEF LogEntry
<1>4. n <= m /\ e.seq \in Nat
  BY DEF Reaches, LogEntry
<1> HIDE DEF s, m
<1>5. \A i \in DOMAIN s : s[i].seq <= i /\ (s[i].event = "tool_completed" => s[i].seq = i)
  <2> SUFFICES ASSUME NEW i \in DOMAIN s
               PROVE  s[i].seq <= i /\ (s[i].event = "tool_completed" => s[i].seq = i)
    OBVIOUS
  <2>1. CASE i \in 1..m
    BY <1>1, <1>2, <2>1 DEF Numbered
  <2>2. CASE i = m + 1
    BY <1>1, <1>2, <1>4, <2>2 DEF m
  <2>3. QED
    BY <1>1, <2>1, <2>2
<1>6. ASSUME NEW i \in DOMAIN s, NEW j \in DOMAIN s, i < j,
             s[i].event # "tool_completed", s[j].event # "tool_completed"
      PROVE  s[i].seq < s[j].seq
  <2>1. i \in 1..m
    BY <1>1, <1>6
  <2>2. CASE j \in 1..m
    BY <1>1, <1>2, <1>6, <2>1, <2>2 DEF Numbered
  <2>3. CASE j = m + 1
    <3>1. entries[i].seq <= n
      BY <1>1, <1>2, <1>6, <2>1 DEF Reaches
    <3>2. s[j].seq = n + 1
      BY <1>2, <1>6, <2>3
    <3>3. QED
      BY <1>2, <1>3, <2>1, <3>1, <3>2
  <2>4. QED
    BY <1>1, <2>2, <2>3
<1>7. e.event # "tool_completed" => Reaches(s, n + 1)
  <2> SUFFICES ASSUME e.event # "tool_completed" PROVE Reaches(s, n + 1)
    OBVIOUS
  <2>1. n + 1 \in 0..Len(s)
    BY <1>1, <1>4
  <2>2. ASSUME NEW i \in DOMAIN s, s[i].event # "tool_completed" PROVE s[i].seq <= n + 1
    <3>1. CASE i \in 1..m
      <4>1. entries[i].seq <= n
        BY <1>1, <1>2, <2>2, <3>1 DEF Reaches
      <4>2. QED
        BY <1>2, <1>3, <3>1, <4>1
    <3>2. CASE i = m + 1
      BY <1>2, <3>2
    <3>3. QED
      BY <1>1, <3>1, <3>2
  <2>3. QED
    BY <2>1, <2>2 DEF Reaches
<1>8. e.event = "tool_completed" => Reaches(s, n)
  <2> SUFFICES ASSUME e.event = "tool_completed" PROVE Reaches(s, n)
    OBVIOUS
  <2>1. n \in 0..Len(s)
    BY <1>1, <1>4
  <2>2. ASSUME NEW i \in DOMAIN s, s[i].event # "tool_completed" PROVE s[i].seq <= n
    <3>1. i \in 1..m
      BY <1>1, <1>2, <2>2
    <3>2. QED
      BY <1>1, <1>2, <2>2, <3>1 DEF Reaches
  <2>3. QED
    BY <2>1, <2>2 DEF Reaches
<1>9. QED
  BY <1>5, <1>6, <1>7, <1>8 DEF Numbered, s

(* The counter after a lifecycle entry, and the number the entry gets.     *)
LEMMA NextReaches ==
  ASSUME Shape, Counted, NoFault, NEW th \in Thread
  PROVE  \E n \in Nat : NextSequence(th) = n + 1 /\ Reaches(log[th], n)
<1>1. log[th] \in Seq(LogEntry) /\ nextSeq[th] \in Nat \cup {None}
  BY DEF Shape, TypeOK
<1>2. CASE nextSeq[th] = None
  <2>1. LastSeq(log[th]) \in Nat /\ Reaches(log[th], LastSeq(log[th]))
    BY <1>1, LastSeqType, LastReaches DEF Counted
  <2>2. QED
    BY <1>2, <2>1 DEF NextSequence
<1>3. CASE nextSeq[th] # None
  BY <1>1, <1>3 DEF Counted, NextSequence
<1>4. QED
  BY <1>2, <1>3

(* A log that grows by an entry numbered as the code does, and a counter   *)
(* that is forgotten, kept or moved to the entry.                          *)
LEMMA CountedGrows ==
  ASSUME Shape, Counted, NoFault, NEW th \in Thread, NEW e \in LogEntry,
         log' = [log EXCEPT ![th] = Append(@, e)],
         \/ e = ToolEntry(th, e.turn) /\ e.event = "tool_completed"
         \/ e.event # "tool_completed" /\ e.seq = NextSequence(th),
         \A uh \in Thread :
           \/ nextSeq'[uh] = None
           \/ uh = th /\ e.event # "tool_completed" /\ nextSeq'[uh] = e.seq
           \/ nextSeq'[uh] = nextSeq[uh] /\ (uh # th \/ e.event = "tool_completed")
  PROVE  Counted'
<1>1. log[th] \in Seq(LogEntry) /\ \A uh \in Thread : nextSeq[uh] \in Nat \cup {None}
  BY DEF Shape, TypeOK
<1>2. log'[th] = Append(log[th], e) /\ \A uh \in Thread \ {th} : log'[uh] = log[uh]
  BY DEF Shape, TypeOK
<1>3. e.event = "tool_completed" => e.seq = Len(log[th]) + 1
  BY DEF ToolEntry, NextToolSequence
<1>4. Numbered(log'[th]) /\ (e.event # "tool_completed" => Reaches(log'[th], e.seq))
  <2>1. PICK n \in Nat : NextSequence(th) = n + 1 /\ Reaches(log[th], n)
    BY NextReaches
  <2>2. QED
    BY <1>1, <1>2, <1>3, <2>1, NumberedAppend DEF Counted
<1>5. ASSUME e.event = "tool_completed", nextSeq[th] # None PROVE Reaches(log'[th], nextSeq[th])
  <2>1. nextSeq[th] \in Nat /\ Reaches(log[th], nextSeq[th])
    BY <1>1, <1>5 DEF Counted
  <2>2. QED
    BY <1>1, <1>2, <1>3, <1>5, <2>1, NumberedAppend DEF Counted
<1>6. ASSUME NEW uh \in Thread
      PROVE  Numbered(log'[uh]) /\ (nextSeq'[uh] # None => Reaches(log'[uh], nextSeq'[uh]))
  BY <1>2, <1>4, <1>5 DEF Counted
<1>7. QED
  BY <1>6 DEF Counted

LEMMA CountedSame ==
  ASSUME Shape, Counted, NoFault, log' = log,
         \A uh \in Thread : nextSeq'[uh] \in {None, nextSeq[uh]}
  PROVE  Counted'
BY DEF Counted

LEMMA CountedNext == Shape /\ Counted /\ [Next]_vars => Counted'
<1> SUFFICES ASSUME Shape, Counted, [Next]_vars, NoFault' PROVE Counted'
  BY DEF Counted
<1> USE DEF disk, memory
<1>1. NoFault /\ ~IoFails
  BY StepsWithoutFault
<1>2. CASE UNCHANGED <<log, nextSeq>>
  BY <1>1, <1>2, CountedSame
<1>3. ASSUME NEW th \in Thread, NEW t \in Turn \cup {None},
             log' = [log EXCEPT ![th] = Append(@, ToolEntry(th, t))],
             \A uh \in Thread : nextSeq'[uh] \in {None, nextSeq[uh]}
      PROVE  Counted'
  <2> DEFINE e == ToolEntry(th, t)
  <2>1. e \in LogEntry /\ e = ToolEntry(th, e.turn) /\ e.event = "tool_completed"
    BY EntryTypes DEF Shape, ToolEntry
  <2>2. log' = [log EXCEPT ![th] = Append(@, e)]
    BY <1>3
  <2> HIDE DEF e
  <2>3. QED
    BY <1>1, <1>3, <2>1, <2>2, CountedGrows
<1>4. ASSUME At("append"), log' = [log EXCEPT ![job.thread] = Append(@, LifecycleEntry)],
             \A uh \in Thread :
               \/ nextSeq'[uh] = None
               \/ uh = job.thread /\ nextSeq'[uh] = NextSequence(job.thread)
               \/ uh # job.thread /\ nextSeq'[uh] = nextSeq[uh]
      PROVE  Counted'
  <2> DEFINE e  == LifecycleEntry
  <2>1. /\ job.thread \in Thread /\ e \in LogEntry /\ e.event = job.op
        /\ job.op \in LifecycleEvent /\ e.seq = NextSequence(job.thread)
    BY <1>4, EntryTypes DEF Shape, JobShape, At, LifecycleEntry
  <2>2. e.event # "tool_completed"
    BY <2>1 DEF LifecycleEvent, TerminalEvent
  <2>3. log' = [log EXCEPT ![job.thread] = Append(@, e)]
    BY <1>4
  <2>4. \A uh \in Thread :
          \/ nextSeq'[uh] = None
          \/ uh = job.thread /\ e.event # "tool_completed" /\ nextSeq'[uh] = e.seq
          \/ nextSeq'[uh] = nextSeq[uh] /\ (uh # job.thread \/ e.event = "tool_completed")
    BY <1>4, <2>1, <2>2
  <2> HIDE DEF e
  <2>5. PICK th \in Thread : th = job.thread
    BY <2>1
  <2>6. QED
    BY <1>1, <2>1, <2>2, <2>3, <2>4, <2>5, CountedGrows
<1>5. CASE Client
  BY <1>2, <1>3, <1>5
  DEF Client, StartThread, ResumeThread, CallTool, AppendToolEntry, AppendEntry, ForkThread,
      StartTurn, CancelTurn, BeginCancel, RespondApproval, UpdateRuntimeConfig
<1>6. CASE AppendTurnLog
  <2>1. job.thread \in Thread
    BY <1>6, EntryTypes DEF AppendTurnLog, Shape
  <2>2. QED
    BY <1>4, <1>6, <2>1 DEF AppendTurnLog, AppendEntry, CountUp, Shape, TypeOK
<1>7. CASE RunTool
  <2>1. job.thread \in Thread /\ job.turn \in Turn \cup {None}
    BY <1>7 DEF RunTool, At, Shape, JobShape, TypeOK, JobRecord
  <2>2. QED
    BY <1>3, <1>7, <2>1 DEF RunTool, AppendToolEntry, AppendEntry
<1>8. CASE Restart
  <2>1. \A uh \in Thread : nextSeq'[uh] = None
    BY <1>8 DEF Restart
  <2>2. CASE log' = log
    BY <1>1, <2>1, <2>2, CountedSame
  <2>3. CASE CutAppend /\ log' # log
    BY <1>4, <2>1, <2>3 DEF CutAppend, CutEntry, AppendEntry
  <2>4. CASE CutTool /\ log' # log
    BY <1>3, <2>1, <2>4 DEF CutTool, CutEntry, AppendEntry, Created
  <2>5. QED
    BY <1>8, <2>2, <2>3, <2>4 DEF Restart, CutFile
<1>9. CASE PutThread \/ SyncActiveThreadIds \/ Finish \/ Gate \/ Answer \/ Model \/ ReadFails \/ UNCHANGED vars
  BY <1>2, <1>9
  DEF PutThread, SyncActiveThreadIds, Finish, FinishThread, FinishStart, FinishWait, FinishResume,
      FinishEnd, Gate, EvaluatePolicy, PutCheckpoint, PutCheckpointOnThread, MarkWaitingApproval,
      Answer, MarkRunning, CancelDenied, BeginCancel, AnswerTooLate, ResumeApproved, Model,
      CompleteTurn, FailTurn, EndTurn, ReadFails, vars
<1>10. QED
  BY <1>1, <1>5, <1>6, <1>7, <1>8, <1>9 DEF Next, Server, Write

-----------------------------------------------------------------------------
LEMMA NoFaultAlways ==
  Spec => [](/\ Shape /\ Announced /\ Settled
             /\ Once /\ Denied /\ Attended /\ Counted)
<1>1. Init => Shape /\ Announced /\ Settled /\ Once /\ Denied /\ Attended /\ Counted
  BY InitShape, IdleType
  DEF Init, Announced, Begun, Starting, Running, At, Settled, Moving, Once, Denied, Attended,
      Counted, Numbered
<1>2. Shape /\ Announced /\ Settled /\ Once /\ Denied /\ Attended /\ Counted /\ [Next]_vars =>
        (Shape /\ Announced /\ Settled /\ Once /\ Denied /\ Attended /\ Counted)'
  BY NextShape, AnnouncedNext, SettledNext, OnceNext, DeniedNext, AttendedNext, CountedNext
<1>3. QED
  BY <1>1, <1>2, PTL DEF Spec

(* As long as no store access fails, no turn is handed to the model twice, *)
(* however often its approval is answered and wherever the process ends.   *)
THEOREM NoTurnRunsTwice == Spec /\ []NoFault => []RunsAtMostOnce
<1>1. Shape /\ Once /\ NoFault => RunsAtMostOnce
  <2> SUFFICES ASSUME Once, NoFault, NEW t \in Turn PROVE ran[t] <= 1
    BY DEF RunsAtMostOnce
  <2>1. ran[t] = 0 \/ ran[t] = 1
    BY DEF Once
  <2>2. QED
    BY <2>1
<1>2. QED
  BY <1>1, NoFaultAlways, PTL

(* As long as no store access fails, a denied turn never runs, whatever    *)
(* later answers say.                                                      *)
THEOREM DenialsHold == Spec /\ []NoFault => DeniedNeverRuns
<1>1. Shape /\ Announced /\ Denied /\ NoFault /\ [Next]_vars =>
        [\A t \in Turn : <<"deny", t>> \in published => ran'[t] = ran[t]]_vars
  <2> SUFFICES ASSUME Shape, Announced, Denied, NoFault, [Next]_vars, NEW t \in Turn,
                      <<"deny", t>> \in published, ran'[t] # ran[t]
               PROVE  FALSE
    OBVIOUS
  <2>1. EvaluatePolicy \/ ResumeApproved
    BY RunsCounted
  <2>2. t = job.turn /\ Running /\ ~At("answered")
    BY <2>1 DEF EvaluatePolicy, ResumeApproved, HandToModel, At, Running, Shape, TypeOK
  <2>3. open[t] # "none"
    BY <2>2 DEF Announced
  <2>4. QED
    BY <2>2, <2>3 DEF Denied
<1>2. QED
  BY <1>1, NoFaultAlways, PTL DEF Spec, DeniedNeverRuns

(* As long as no store access fails and no file is torn, what is left in   *)
(* active_turns between requests is a turn somebody is asked about.        *)
THEOREM NoTurnIsLeftRunning == Spec /\ []NoFault => []NothingLeftBehind
<1>1. Attended /\ NoFault => NothingLeftBehind
  BY DEF Attended, Asked, Holding, NothingLeftBehind, At
<1>2. QED
  BY <1>1, NoFaultAlways, PTL

(* As long as no store access fails, the lifecycle entries of a log are    *)
(* numbered in order, restarts and tool entries between them or not.       *)
THEOREM SequencesAreOrdered == Spec /\ []NoFault => []LifecycleSequencesIncrease
<1>1. Counted /\ NoFault => LifecycleSequencesIncrease
  BY DEF Counted, Numbered, LifecycleSequencesIncrease
<1>2. QED
  BY <1>1, NoFaultAlways, PTL

=============================================================================

----------------------------- MODULE ShellTasks -----------------------------
(***************************************************************************)
(* Shell commands of LocalShellExecutor (executor/shell.rs): shell.exec,   *)
(* shell.spawn, shell.read_output, shell.wait and shell.terminate, and the *)
(* default sandbox that commands are started in.                           *)
(*                                                                         *)
(* Tool calls come one at a time, under the mutex of AppServer.  What runs *)
(* beside them are the command, which writes into its two pipes and exits, *)
(* and the two reader threads of each task, which move what they read into *)
(* the state the calls answer from.                                        *)
(***************************************************************************)
EXTENDS Naturals, Sequences, ShellSandbox

CONSTANTS
  Task,         \* identifiers next_task_id can hand out
  None,         \* no task, no exit code
  MaxOutput,    \* bound: pieces a command writes to one stream
  Descendants,  \* whether a command may leave processes behind it that write
  Host,         \* hosts the executor may run on
  Asked         \* sandboxes that calls and clients ask for

ASSUME ShellTasksAssumption ==
  /\ MaxOutput \in Nat /\ Descendants \in BOOLEAN
  /\ Asked \subseteq Request
  /\ Host \subseteq PossibleHost

VARIABLES
  command,    \* Task -> "none", "running", "exited"
  status,     \* Task -> the exit code the operating system holds
  writers,    \* Task -> whether a process still holds the write ends
  pipe,       \* Task -> Stream -> pieces written and not yet read
  reader,     \* Task -> Stream -> "off", "on", "ended"
  held,       \* Task -> Stream -> pieces read and not yet stored
  sandbox,    \* Task -> the sandbox it was prepared with, or None
  stored,     \* Task -> Stream -> BackgroundShellState.stdout, .stderr
  delivered,  \* Task -> Stream -> delivered_stdout_len, delivered_stderr_len
  exitCode,   \* Task -> BackgroundShellState.exit_code
  host,       \* the host
  defaults,   \* SandboxConfig: the default mode and network access
  call,       \* the tool call being served
  written,    \* history: Task -> Stream -> pieces written
  given,      \* history: Task -> Stream -> the deltas of read_output, joined
  told,       \* history: Task -> exit codes the replies have carried
  runs,       \* history: Task -> what encloses the command, as it was started
  wanted,     \* history: Task -> the sandbox asked for when it was started
  waited      \* history: Task -> what the last shell.wait answered, or None

os      == <<command, status, writers, pipe, written>>
threads == <<reader, held>>
state   == <<sandbox, stored, delivered, exitCode>>
config  == <<host, defaults>>
history == <<given, told, waited, runs, wanted>>
vars    == <<os, threads, state, config, call, history>>

-----------------------------------------------------------------------------
Stream == {"stdout", "stderr"}
Banner == 0
Piece  == Banner..MaxOutput
Code   == {"success", "unknown"}    \* 0, and -1 when a signal ended the command

Idle == [op |-> "idle", task |-> None]
Call(op, t) == [op |-> op, task |-> t]
Serving(op, t) == call = Call(op, t)

Known(t) == command[t] # "none"

Init ==
  /\ command   = [t \in Task |-> "none"]
  /\ status    = [t \in Task |-> None]
  /\ writers   = [t \in Task |-> FALSE]
  /\ pipe      = [t \in Task |-> [s \in Stream |-> <<>>]]
  /\ written   = [t \in Task |-> [s \in Stream |-> 0]]
  /\ reader    = [t \in Task |-> [s \in Stream |-> "off"]]
  /\ held      = [t \in Task |-> [s \in Stream |-> <<>>]]
  /\ sandbox   = [t \in Task |-> None]
  /\ host \in Host
  /\ defaults  = FromEnv(host)
  /\ runs      = [t \in Task |-> None]
  /\ wanted    = [t \in Task |-> None]
  /\ stored    = [t \in Task |-> [s \in Stream |-> <<>>]]
  /\ delivered = [t \in Task |-> [s \in Stream |-> 0]]
  /\ exitCode  = [t \in Task |-> None]
  /\ call      = Idle
  /\ given     = [t \in Task |-> [s \in Stream |-> <<>>]]
  /\ told      = [t \in Task |-> {}]
  /\ waited    = [t \in Task |-> None]

-----------------------------------------------------------------------------
(* The command *)

CommandWrites(t, s) ==
  /\ writers[t]
  /\ written[t][s] < MaxOutput
  /\ written' = [written EXCEPT ![t][s] = @ + 1]
  /\ pipe' = [pipe EXCEPT ![t][s] = Append(@, written'[t][s])]
  /\ UNCHANGED <<command, status, writers, threads, state, config, call, history>>

(* The shell ends; what it started may go on writing.                      *)
Ends(t, code) ==
  /\ command' = [command EXCEPT ![t] = "exited"]
  /\ status' = [status EXCEPT ![t] = code]
  /\ \E left \in {FALSE, Descendants} : writers' = [writers EXCEPT ![t] = left]

CommandExits(t) ==
  /\ command[t] = "running"
  /\ Ends(t, "success")
  /\ UNCHANGED <<pipe, written, threads, state, config, call, history>>

DescendantsExit(t) ==
  /\ command[t] = "exited" /\ writers[t]
  /\ writers' = [writers EXCEPT ![t] = FALSE]
  /\ UNCHANGED <<command, status, pipe, written, threads, state, config, call, history>>

-----------------------------------------------------------------------------
(* The reader threads *)

(* One read takes what fits its buffer.                                    *)
ReaderReads(t, s) ==
  /\ reader[t][s] = "on" /\ held[t][s] = <<>>
  /\ \E n \in 1..Len(pipe[t][s]) :
       /\ held' = [held EXCEPT ![t][s] = SubSeq(pipe[t][s], 1, n)]
       /\ pipe' = [pipe EXCEPT ![t][s] = SubSeq(@, n + 1, Len(@))]
  /\ UNCHANGED <<command, status, writers, written, reader, state, config, call, history>>

(* The first piece of stdout brings the sandbox banner.                    *)
WithBanner(t, s) ==
  IF s = "stdout" /\ Decorates(sandbox[t]) /\ stored[t][s] = <<>> THEN <<Banner>> ELSE <<>>

ReaderStores_Replaces(t, s) ==
  /\ held[t][s] # <<>>
  /\ stored' = [stored EXCEPT ![t][s] = WithBanner(t, s) \o held[t][s]]
  /\ held' = [held EXCEPT ![t][s] = <<>>]
  /\ UNCHANGED <<os, reader, sandbox, delivered, exitCode, config, call, history>>

ReaderStores(t, s) ==
  /\ held[t][s] # <<>>
  /\ stored' = [stored EXCEPT ![t][s] = @ \o WithBanner(t, s) \o held[t][s]]
  /\ held' = [held EXCEPT ![t][s] = <<>>]
  /\ UNCHANGED <<os, reader, sandbox, delivered, exitCode, config, call, history>>

AtEndOfFile_OfCommand(t, s) == command[t] = "exited"
AtEndOfFile(t, s) == ~writers[t] /\ pipe[t][s] = <<>>

ReaderEnds(t, s) ==
  /\ reader[t][s] = "on" /\ held[t][s] = <<>>
  /\ AtEndOfFile(t, s)
  /\ reader' = [reader EXCEPT ![t][s] = "ended"]
  /\ UNCHANGED <<os, held, state, config, call, history>>

-----------------------------------------------------------------------------
(* Tool calls *)

(* runtime/config_update: the defaults of the calls that follow.           *)
SetDefaultSandbox(request) ==
  /\ call = Idle
  /\ defaults' = request
  /\ UNCHANGED <<os, threads, state, host, call, history>>

(* prepare_shell_command; a call whose sandbox cannot be had is refused.   *)
Resolved(request) == ResolveRequest(host, request, defaults, None)

Wanted(request) == IF request = None THEN defaults ELSE request

Spawn(t, request) ==
  /\ call = Idle
  /\ ~Known(t)
  /\ Prepares(host, Resolved(request))
  /\ command' = [command EXCEPT ![t] = "running"]
  /\ writers' = [writers EXCEPT ![t] = TRUE]
  /\ reader' = [reader EXCEPT ![t] = [s \in Stream |-> "on"]]
  /\ sandbox' = [sandbox EXCEPT ![t] = Resolved(request)]
  /\ runs' = [runs EXCEPT ![t] = BuildCommand(Resolved(request))]
  /\ wanted' = [wanted EXCEPT ![t] = Wanted(request)]
  /\ UNCHANGED <<status, pipe, written, held, stored, delivered, exitCode, config, call,
                 given, told, waited>>

(* shell.exec: the call holds its locks until the command has exited and   *)
(* no process holds the write ends of its pipes.                           *)
Exec(request) ==
  /\ call = Idle
  /\ Prepares(host, Resolved(request))
  /\ call' = Call("exec", None)
  /\ UNCHANGED <<os, threads, state, config, history>>

ForegroundExits ==
  /\ Serving("exec", None)
  /\ call' = Call("executed", None)
  /\ UNCHANGED <<os, threads, state, config, history>>

AnswerExec ==
  /\ Serving("executed", None)
  /\ call' = Idle
  /\ UNCHANGED <<os, threads, state, config, history>>

(* update_exit_code_if_finished looks at the command first, the output is  *)
(* read later, under another lock.                                         *)
ReadOutput(t) ==
  /\ call = Idle
  /\ Known(t)                                       \* shell_task_not_found
  /\ exitCode' = [exitCode EXCEPT ![t] = IF command[t] = "exited" THEN status[t] ELSE @]
  /\ call' = Call("read", t)
  /\ UNCHANGED <<os, threads, sandbox, stored, delivered, config, history>>

Tell(t) == told' = [told EXCEPT ![t] = @ \cup ({exitCode'[t]} \ {None})]

Delta(t, s) == SubSeq(stored[t][s], delivered[t][s] + 1, Len(stored[t][s]))

DeliverOutput(t) ==
  /\ Serving("read", t)
  /\ given' = [given EXCEPT ![t] = [s \in Stream |-> @[s] \o Delta(t, s)]]
  /\ delivered' = [delivered EXCEPT ![t] = [s \in Stream |-> Len(stored[t][s])]]
  /\ call' = Idle
  /\ UNCHANGED <<os, threads, sandbox, stored, exitCode, waited, runs, wanted, config>>
  /\ Tell(t)

Wait(t) ==
  /\ call = Idle
  /\ Known(t)
  /\ call' = Call("wait", t)
  /\ UNCHANGED <<os, threads, state, config, history>>

(* The call blocks, with every lock it holds, until the command exits.     *)
ReapWaited(t) ==
  /\ Serving("wait", t)
  /\ command[t] = "exited"
  /\ exitCode' = [exitCode EXCEPT ![t] = status[t]]
  /\ call' = Call("waited", t)
  /\ UNCHANGED <<os, threads, sandbox, stored, delivered, config, history>>

AnswerWait(t) ==
  /\ Serving("waited", t)
  /\ waited' = [waited EXCEPT ![t] = stored[t]]
  /\ call' = Idle
  /\ UNCHANGED <<os, threads, state, given, runs, wanted, config>>
  /\ Tell(t)

Terminate_NoKill(t) ==
  /\ call = Idle
  /\ Known(t)
  /\ call' = Call("terminate", t)
  /\ UNCHANGED <<os, threads, state, config, history>>

(* kill does nothing to a command that has exited.                         *)
Terminate(t) ==
  /\ call = Idle
  /\ Known(t)
  /\ IF command[t] = "running"
       THEN Ends(t, "unknown")
       ELSE UNCHANGED <<command, status, writers>>
  /\ call' = Call("terminate", t)
  /\ UNCHANGED <<pipe, written, threads, state, config, history>>

ReapTerminated(t) ==
  /\ Serving("terminate", t)
  /\ command[t] = "exited"
  /\ exitCode' = [exitCode EXCEPT ![t] = status[t]]
  /\ call' = Idle
  /\ UNCHANGED <<os, threads, sandbox, stored, delivered, given, waited, runs, wanted, config>>
  /\ Tell(t)

-----------------------------------------------------------------------------
Reader(t, s) == ReaderReads(t, s) \/ ReaderStores(t, s) \/ ReaderEnds(t, s)

Step(t) == AnswerExec \/ DeliverOutput(t) \/ ReapWaited(t) \/ AnswerWait(t) \/ ReapTerminated(t)

Next ==
  \E t \in Task :
    \/ \E s \in Stream : CommandWrites(t, s) \/ Reader(t, s)
    \/ CommandExits(t) \/ DescendantsExit(t)
    \/ \E request \in Asked \cup {None} : Spawn(t, request) \/ Exec(request)
    \/ \E request \in Asked : SetDefaultSandbox(request)
    \/ ForegroundExits
    \/ ReadOutput(t) \/ Wait(t) \/ Terminate(t)
    \/ Step(t)

Spec == Init /\ [][Next]_vars

(* Threads that can run do.  Nothing is assumed of the command.            *)
FairSpec ==
  /\ Spec
  /\ \A t \in Task : WF_vars(Step(t)) /\ \A s \in Stream : WF_vars(Reader(t, s))

-----------------------------------------------------------------------------
(* Properties *)

TypeOK ==
  /\ command \in [Task -> {"none", "running", "exited"}]
  /\ status \in [Task -> Code \cup {None}]
  /\ writers \in [Task -> BOOLEAN]
  /\ pipe \in [Task -> [Stream -> Seq(Piece)]]
  /\ written \in [Task -> [Stream -> 0..MaxOutput]]
  /\ reader \in [Task -> [Stream -> {"off", "on", "ended"}]]
  /\ held \in [Task -> [Stream -> Seq(Piece)]]
  /\ sandbox \in [Task -> Sandbox \cup {None}]
  /\ host \in Host /\ defaults \in Request
  /\ stored \in [Task -> [Stream -> Seq(Piece)]]
  /\ delivered \in [Task -> [Stream -> Nat]]
  /\ exitCode \in [Task -> Code \cup {None}]
  /\ call \in [op : {"idle", "read", "wait", "waited", "terminate", "exec", "executed"},
               task : Task \cup {None}]
  /\ given \in [Task -> [Stream -> Seq(Piece)]]
  /\ told \in [Task -> SUBSET Code]
  /\ runs \in [Task -> Started \cup {None}]
  /\ wanted \in [Task -> Request \cup {None}]
  /\ waited \in [Task -> [Stream -> Seq(Piece)] \cup {None}]

(* Between the command and the stored output nothing is lost, repeated or  *)
(* reordered, and the banner stands once, in front.                        *)
OutputKept ==
  \A t \in Task, s \in Stream :
    LET banner == IF s = "stdout" /\ stored[t][s] # <<>> /\ runs[t].by # "none"
                  THEN <<Banner>> ELSE <<>>
    IN  stored[t][s] \o held[t][s] \o pipe[t][s]
          = banner \o [i \in 1..written[t][s] |-> i]

(* The deltas of read_output, joined, are the stored output as far as it   *)
(* was delivered: however the reader threads run, none is lost or repeated.*)
DeltasJoin ==
  \A t \in Task, s \in Stream : given[t][s] = SubSeq(stored[t][s], 1, delivered[t][s])

(* Every exit code a reply has carried is the one the command ended with:  *)
(* none before the end, and terminating an ended command changes none.     *)
ExitCodesTrue == \A t \in Task : told[t] \subseteq {status[t]}

(* A command asked to be confined, by its call or by the defaults that     *)
(* stood when it was started, runs inside a backend that this host has and *)
(* with the access asked for: later defaults change nothing of it, and     *)
(* without the backend it does not run.                                    *)
ConfinedAsAsked ==
  \A t \in Task : Known(t) /\ wanted[t].mode \in Confined =>
    /\ HelperPath(host, runs[t].by)
    /\ runs[t].mode = wanted[t].mode /\ runs[t].network = wanted[t].network

(* What the readers stored and the replies carried, against what the       *)
(* command wrote, how it ended and what it ran in, and the types.          *)
OutputInv ==
  /\ TypeOK
  /\ OutputKept
  /\ DeltasJoin
  /\ ExitCodesTrue
  /\ ConfinedAsAsked

(* What a command writes is stored in the end, though no call asks for it. *)
OutputArrives ==
  \A t \in Task, s \in Stream : \A n \in 1..MaxOutput :
    written[t][s] = n ~> \E i \in DOMAIN stored[t][s] : stored[t][s][i] = n

(* The calls that can hold up the server are shell.wait on a command that  *)
(* still runs, and shell.exec while its command, or what that left behind, *)
(* does.                                                                   *)
OnlyCommandsBlock ==
  []<>(\/ call = Idle
       \/ \E t \in Task : Serving("wait", t) /\ command[t] = "running"
       \/ Serving("exec", None))

(* executor/shell.rs: wait "returns its final output".  The reader threads *)
(* are not joined, so output read later is missing from the answer.        *)
WaitIsFinal ==
  \A t \in Task : waited[t] # None => waited[t] = stored[t]

=============================================================================

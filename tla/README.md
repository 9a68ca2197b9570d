# A verification project for liz

liz is a personal agent: a server (`src/crates/liz-app-server`) that owns
conversation threads, runs turns of a language model for them, lets the model
use tools, asks the user for approval of risky work and keeps everything in
files; and clients (a terminal client, a web client, a Telegram channel) that
talk to it over WebSocket with JSON requests, responses and events.

This directory holds TLA+ models of the parts whose behaviour depends on order,
failure and time, the TLC runs that check them, and machine-checked proofs about
eight of them. `PROJECT.json` maps each definition to the lines it stands for,
lists the runs, the hazards they are aimed at, the findings and the theorems.

    tlc -workers 2 -config TurnLifecycle_faults.cfg MCTurnLifecycle.tla
    tlapm TurnLifecycleProofs.tla

## The system

| Component | State | Operations | What is hard about it | Modelled by |
|---|---|---|---|---|
| Turns and approvals: `server/mod.rs`, `handlers/mod.rs`, `runtime/coordinator.rs`, `turn_manager.rs`, `thread_manager.rs`, `policy_engine.rs` | thread files, turn logs, checkpoints, the active thread list; in memory `active_turns`, `next_sequence`, approvals, the approval policy | thread/start, resume, fork; turn/start, cancel; approval/respond; runtime/config; tool/call; the turn itself | every request makes several writes, any of which can fail or be the last before the process ends; what is in memory is lost at a restart and never rebuilt, except sequence numbers | TurnLifecycle, TurnContract |
| Model turns: `server/mod.rs`, `model/gateway.rs`, `tooling.rs`, the adapters | rounds, pending calls, results to hand back | ask, run a tool, hand back, end, compile memory | results of several rounds; tools whose recording fails; credentials that expire between rounds | ModelTurn |
| Provider authentication: `coordinator.rs`, `model/auth.rs`, `config.rs`, `storage/auth_profile_store.rs` | the profile file; everything else is with the client or the provider | list, upsert, delete, OAuth and device logins; resolve, refresh | polls repeated after success, expiry, profiles mixed with the environment, tokens that can be refreshed once | ProviderAuth |
| Cloud provider access: `model/config.rs`, `auth.rs`, the adapters of Bedrock, Google and OpenAI's style | the bearers of Bedrock Mantle by region; nothing else is kept from call to call | resolve a provider, detect an endpoint of Z.AI, ask SAP, Google or the AWS credential chain, sign, mint | what the owner sets against what the environment holds; a kept bearer beside accounts that expire and are replaced | CloudAccess |
| Workspace tools: `executor/workspace.rs` | files | list, search, read, write, patch | bounds that cut a view exactly at its end; a tool that ran and could not be recorded | WorkspaceFiles |
| Shell commands and sandbox: `executor/shell.rs`, `sandbox.rs` | per task the child, stdout, stderr, the lengths delivered, the exit code; the default sandbox | exec, spawn, read_output, wait, terminate; sandbox defaults | two reader threads beside the calls; processes that outlive the command and keep its pipes open; defaults that change under running tasks | ShellTasks, ShellSandbox |
| Foreground memory: `runtime/memory.rs` | facts, topics, recent topics, identity | compile, invalidate, dream, edit; wake-up, recall, search, evidence | deltas applied to facts that changed since; hits that must still open | MemoryFacts, MemoryRecall |
| Context assembly, output policy, people: `context_assembler.rs`, `output_policy.rs`, `coordinator.rs` | people with their boundaries | save, delete, show; assemble, check | a boundary replaced while turns resolve it by identifier; parts of an answer checked one by one | Disclosure |
| Telegram channel: `channels/telegram.rs` | the thread of each chat | handle an update, forward events | a turn that waits publishes no end; sends that fail; threads lost at a restart | TelegramChannel |
| Event delivery: `server/websocket.rs`, `events/mod.rs`, `liz-cli/app_client.rs` | subscribers of the bus, one channel and two threads per connection, one mutex for the server | subscribe, publish, forward, flush, serve, reply, leave | responses and events reach one socket along different paths; a read blocks writes until it times out | EventDelivery, EventBroadcast |
| Node registry: `runtime/node_registry.rs`, `storage/node_registry_store.rs` | the local node, mounts by identifier; the registry file; the mount each thread carries | attach, detach, node policy, heartbeat, thread start on a path or mount | memory is changed before the file; identifiers are numbered from a count | NodeRegistry |
| File storage: `storage/*.rs` | JSON files, append-only logs | read, rewrite, append | files are truncated and filled in place; an entry and its newline are two writes | within the modules that use it |
| Web client connection: `apps/liz-web/src/protocol/client.ts` | sockets, pending requests, timers | connect, request, close, reconnect | sockets replaced while requests are pending, handlers that stay attached | WebClient |
| Web client state: `state/workbench.ts`, `hooks/useLizRuntime.ts` | threads, turns, tools, approvals shown | projection of responses and events | events of one turn beside responses of the next, a log loaded into what is shown live, late answers | Workbench |
| Terminal client: `liz-cli/src/tui.rs`, `view_model.rs` | transcripts, picker, pending first message, approvals | keys, responses, events | responses and events drained from two queues | CliView |

Interaction: a connection thread takes the one mutex of `AppServer`, calls
`handle_request`, which calls the coordinator, which calls the managers, which
call the stores; handlers publish events on the bus while the mutex is held;
each connection's forwarder moves them to the connection thread, which alone
writes to its socket. A turn is served inside the request that starts it or
approves it, so the mutex is held through the whole model turn, its tools and
the memory compilation that follows. The Telegram adapter borrows the server
directly and reads its own subscription. Clients see nothing but responses and
events.

What makes each part correct: a thread has at most one open turn, turns end once
and stay ended, files and events never claim more than the log, risky work is
approved first and cancelled work is not forgotten (turns); every call is
answered once, and what is told of files is true of them (model turns, tools);
a completed login is stored and used whole (authentication); output is kept
whole, calls do not hang, a confined command is confined (shell); memory holds
one live value per subject and everything it offers can be opened (memory); a
chat hears its own turns, told within the boundary in force (channel); every
client sees every event once and in order, and the response to a request before
its events (delivery); a screen shows what the server did (clients); a restart
finds what was there (registry, storage).

## The modules

Composition: `ModelTurn` EXTENDS `ProviderAuth` and `WorkspaceFiles`,
`MemoryRecall` EXTENDS `MemoryFacts`, `TelegramChannel` EXTENDS `Disclosure`,
`ShellTasks` EXTENDS `ShellSandbox`; `TurnLifecycle` implements `TurnContract`
and `EventDelivery` implements `EventBroadcast`. `Workbench` and `CliView` take
from `EventDelivery` the order in which frames come.

### TurnLifecycle, TurnContract

Only one request is served at a time, so requests do not interleave with each
other. They do interleave with the failure of any store access and with the end
of the process, and these are what the module is about. A request is a *job*:
the variable `job` says which write comes next (`at`), for which transition
(`op`), with which projection of the thread (`draft`, computed when the
transition began, as the code does). Each step of a job is one store access with
the memory changes that come with it:

| Code | Actions |
|---|---|
| `ThreadManager` start, resume, fork | `StartThread`, `ResumeThread`, `ForkThread`, then `PutThread`, `SyncActiveThreadIds`, `FinishThread` |
| `TurnManager::start_turn` | `StartTurn`, `AppendTurnLog`, `PutThread`, `SyncActiveThreadIds`, `FinishStart` (only here the turn enters `active_turns`) |
| `continue_turn_after_policy`, `require_approval_for_turn` | `EvaluatePolicy`, `PutCheckpoint`, `PutCheckpointOnThread`, `MarkWaitingApproval`, the writes, `FinishWait` |
| `respond_approval`, `continue_after_approval` | `RespondApproval`, then `MarkRunning` … `ResumeApproved`, or `CancelDenied`, or `AnswerTooLate` |
| `cancel_turn` | `CancelTurn` (the turn leaves `active_turns` first), the writes, `FinishEnd` |
| `stream_model_turn` | `RunTool` any number of times, then `CompleteTurn` or `FailTurn` |
| `RuntimeConfigUpdate`, `ToolCall` | `UpdateRuntimeConfig`, `CallTool` |
| an error of any store access | `IoFails` |
| a new process on the same store | `Restart` |

Storage is modelled by what a reader finds. `write_json` truncates and refills a
file, so a failure or a restart may leave it `torn`, and from then on every read
of it fails (`ReadFails`). `append_entry` writes an entry and its newline
separately, so a log may be left `dangling`: still readable, but the next entry
shares the line and makes the log unreadable. `Needed` says which files a step
of a job reads. A restart is the end of the process, not of the machine: writes
that were made survive, in order.

`TurnContract` is the abstract specification: a turn is unborn, running,
waiting, closing, ended in one of three ways, or lost; one live turn per thread;
the model works only for a running turn; an end is final. `ImplementsContract`
is the refinement, with `PhaseOf` as the mapping.

The trimmed inputs of turns are `Goal`; whether a commitment's text contains a
goal is `Mentions`; risk classification is an input of `StartTurn`; identifiers
are taken to be fresh, as `ids.rs` makes them.

### ProviderAuth, WorkspaceFiles, ModelTurn

`ProviderAuth` follows four providers, which differ in how they log in (a code
with a verifier, a code or a pasted token, two kinds of device code) and in what
a login gives. The server keeps nothing of a login, so the request that completes
it carries everything and may be any of the client's. A *token* is where it comes
from (a login, the environment, a client that pasted it) and a generation that a
refresh increases; `expired` holds those past their expiry. `Gateway` is what the
server makes of a profile and the environment when a turn begins, `Resolution`
whether a request uses, refreshes or lacks a credential, `Ready` what a client is
shown. A failed or interrupted write tears the profile file.

`ModelTurn` is a turn as a sequence of requests: `Ask` sends one, with the
credential resolved anew, and takes the calls of the answer; `RunTool` runs the
next call; `HandBack` gathers the results, with the remark the code adds when a
model repeats itself; `End` and `AskFails` are the ways out, and `Compile` the
memory compilation, which asks the model too. A call may not parse (`NotParsed`),
its tool may fail (`ToolFails`), the tool may have run and its artifact or its
log entry not be written (`SaveFails`, `RecordingFails`). `OthersEdit` is another
program that changes a file between two calls.

`WorkspaceFiles` is a tree: paths map to `Dir`, a sequence of lines or `Binary`.
`List`, `Search`, `Read`, `Written` and `Patched` are the five tools, with the
bounds the code applies and what it reports of truncation and change.

### CloudAccess

How a request to a cloud's models gets its address, its model and its bearer. A
setting is named for where it comes from: `own` is the owner's config (the file
over `LIZ_PROVIDER_*`), `env` the variables of the process. `Resolved` is
`from_spec` for seven kinds of provider that differ in what they take from where;
`Begin` resolves anew for every call, as the gateway does. `Probe` is one try of
Z.AI's endpoints. The bearer is a key, or what SAP, Google or the AWS chain give.
Only Mantle keeps bearers, by region: `AskMantle` looks one up, `Mint` signs
another and keeps it until `Expiry`. The clock moves while the chain is asked.
The chain, which hands out one account after another, is external; accounts
expire when they say, keys in the environment say nothing of it.

### ShellSandbox, ShellTasks

The command, its pipes, two readers per task and the five calls. Output is a
sequence of numbered pieces per stream; `Banner` is what the sandbox puts in
front of stdout. `read_output` looks at the exit code and then, under another
lock, at the output; `wait` and `terminate` reap the child before they look. Those
are separate steps, as in the code; so are the readers'. `SandboxedCommand` says
what a command is started in, from what it asks, the defaults of that moment and
the host: nothing, a backend with an access, or a refusal. What the backend
enforces is external.

### MemoryFacts, MemoryRecall

A compilation works on one snapshot under the mutex and is one step:
`CompileFromModel` applies a delta the model answered, `CompileHeuristically` the
one derived without it. Its parts are the functions of the code, in their order:
facts of the thread's commitments synced (those dropped swept out, the others
upserted), durable facts upserted, candidate subjects invalidated, topics
touched, recent topics and dreaming. A fact is live until another takes its
subject or a sweep gives it an identifier of nothing. `UpdateAboutYouSurface` and
`CorrectKnowledge` are the owner's edits. `MemoryRecall` holds the reads, as
operators of that state and of a log: wake-up, recall, topics, search, evidence.

### Disclosure, TelegramChannel

A text is a model value with the set of topics in it. `Disclosure` is the
filtering half of context assembly: which relationship a turn is told in, which
facts, state and commitments that lets through, and what the output policy makes
of a message. Two layers are kept apart: `resident`, which is filtered, and
`projected` (the thread's goal, summary, commitments and recent log), which the
code passes on as it is.

`TelegramChannel` composes it with the adapter and the people surface. An update
finds or starts the chat's thread, starts a turn, and forwards its events until
one that ends it, or a time-out. A turn that waits is approved or denied by
another client; approved, it goes on without the participant and the context of
its start (`server/mod.rs:280`), so its output is not checked. A restart forgets
`chat_threads`.

### EventDelivery, EventBroadcast

One connection thread and one forwarder per connection, the mutex, the bus, the
channels, the socket in both directions and the client's read loop. `pc` is the
place in `connection_loop`. A frame `0` is one the server cannot parse. A
connection subscribes under the mutex, hence between two requests. `events` are
those the client's loop has passed on to its screen (`app_client.rs:151`), `got`
is a history of all frames. `EventBroadcast` is the abstract specification, a log
that members read from where they joined.

### NodeRegistry

Memory is changed, the file truncated, filled, and only then a thread stored: a
write may fail, or the process end, between any two. `from_snapshot` keeps of the
local node only when it was last seen. An unreadable registry file counts as none.

### WebClient

`ProtocolClient` over the WebSocket of a browser, which is external: a closed
socket is `closing` until its close event, an error event comes before it when it
never opened, messages are delivered only while it is open. Handlers stay attached
to replaced sockets, and several reconnect timers may run, since `connect()`
cancels none; `IsCurrent` is the check that keeps the end of a replaced socket from
the requests and timers of the newer one. It does not cover everything: a timer
that fires while a newer socket is up replaces that one, the requests asked on it
wait for their own time-outs, and the error of a replaced socket shows
"reconnecting" over a connection that is up.

### Workbench, CliView

The two clients' projections, each with its server between requests (a turn is
over or waits) and another client. In `Workbench` events come in order, a
response is not overtaken by later events of its request but may overtake earlier
ones; `CliView` drains responses and events from two queues in any order.
`Workbench` has the tool calls, entries, approvals and active turn of one thread
and lost connections. The user may select the thread again at any time, which
loads the last eight entries of its log (`SelectThread`, `OpenSession`,
`MergeSessionTranscript`), and a request may run out of time, after which its
answer is for nobody. Entries loaded from the log carry the place of their event
(`origin`), as their identifiers do, live ones do not; so a turn that was shown live
is shown once more when its thread is selected again, which `ViewMatches` allows and
`NothingTwice` confines to one entry of each identifier. Tool calls go by their
identifier in the whole thread, as the reducer's do: a later call takes the place of
an earlier one of the same identifier, and adapters repeat theirs.

`CliView` has several threads, the picker, the message typed while its thread is
still being started, and the approvals.

### MC modules and proof modules

The `MC*` modules instantiate the modules for TLC where a .cfg cannot write the
value of a constant. A `*Proofs` module holds the theorems about
the module it is named for, and the lemmas they rest on.

## The runs

A property that names several parts is the conjunction of them and of the type
invariant; the parts are defined, and stated one by one, in the module.

| Run | Distinct states | What it shows |
|---|---|---|
| `TurnLifecycle_faults` | 590 k | two threads, two turns, risks of either kind, one failed access: `OneOpenTurn`, `EndingsInv` (turns end once and stay ended), `PublishedIsLogged`, `ProjectionTrailsLog`, `ModelRunIsAllowed`; the contract is implemented (`ImplementsContract`) |
| `TurnLifecycle_crashes` | 1.1 M | no fault, a crash that may tear a file, two goals of which one mentions the other: `CancelledWorkRemembered`, `RunsAtMostOnce`, `DeniedNeverRuns`, `NothingLeftBehind`, `LifecycleSequencesIncrease`, and under fairness `ServerProgress` (a running turn settles, the mutex is released again and again) |
| `ModelTurn_rounds` | 2.1 M | a login of one of four providers, then a turn of up to four requests and three calls, one failed write, one edit by others: `TurnInv` (every call answered once and in order, tools end in order, the answer comes last, recorded diffs tell the files, listings and searches are true), `ProfilesInv` (a completed login is stored, identifiers are unique, what can be used is shown as ready), `LoginUsedWhole` |
| `CloudAccess_calls` | 2.8 M | seven providers, every combination of a key, an address, a model and a place from the owner and from the environment, two accounts, a clock and restarts: `OwnerIsHeard`, `AccessInv` (a bearer that is sent lives, a kept one is dropped ahead of its account's expiry and in time after the account was replaced) |
| `ShellTasks_output` | 371 k | one command on three hosts: `OutputInv` (output kept, deltas join, exit codes true, confined as asked), and under fairness `OutputArrives`, `OnlyCommandsBlock` |
| `MemoryFacts_compile` | 38 k | two threads, facts of theirs, of the model and of the owner: `MemoryInv` (one value per subject, what is hidden is dead, hits open, own facts first, recent topics indexed), `InvalidationsTold`, `CommitmentsFollowThread` |
| `TelegramChannel_updates` | 725 k | two chats, two people, another client, one failure: `ChannelInv` (one thread per chat, a chat is told its own turns in order), `DisclosureInv` (the boundary in force is kept to, the owner is asked first, people are shown as saved), and under fairness `UpdatesSettle` |
| `EventDelivery_clients` | 135 k | two connections, a frame of each, two events: `DeliveryInv` (whole requests, response first, responses in order), `ImplementsBroadcast`, and under fairness `EventsArrive`, `RequestsAnswered`, `ThreadsEnd` |
| `NodeRegistry_faults` | 2.0 M | `RegistryInv` (a restart finds the mounts, a bound mount was filed), `MountNotRetargeted` |
| `WebClient_connection` | 138 k | three sockets, two requests, two timers: `ConnectionInv` (connected has a socket, one connection), `NoneStranded` (without a socket no request waits, and a timer brings the connection back unless it was closed), and under fairness `RequestsSettle`, `Reconnects` |
| `Workbench_view` | 3.5 M | two turns, two requests of the client, another client, a lost connection or a late answer: `PageInv` (an end that is shown is true; nothing is listed twice in the same way; once every frame came every turn is shown with its end and whole answer, and the calls, approvals and the active turn are the server's) |
| `CliView_keys` | 2.7 M | two threads, two turns, three keys, another client: `ScreenInv` (a message goes once, to the conversation it is shown in; approvals offered are open), `PickerStays` |

The properties of `TurnLifecycle_crashes` hold only as long as no access fails:
with a failed write a cancelled turn may be gone from memory and not be
remembered, or a turn may be left running that nothing will end. The code reports
the error and leaves it at that; which promises survive it is what separates the
two runs.

### Bounds

Every bound is a constant whose declaration says what it bounds (`Max…`, and
`Others` in `ModelTurn`).

- `TurnLifecycle`: two turns are the least with which one ends while another
  begins, two threads the least with a fork; one fault, or one crash, anywhere,
  reaches every cut of every request, since after either the handler returns. A
  fault and a crash in one behaviour are beyond what the runs hold; the theorems
  about these properties allow for both, in any number. A turn can be approved
  repeatedly only while its file cannot be read; two resumes show that the second
  changes nothing. One tool entry moves the numbering by log length away from the
  counter. `TurnLifecycle_crashes` has high-risk turns only: a policy change takes
  them to the model as a low risk would. Turns and threads are symmetric; runs
  with liveness do not use symmetry.
- `ModelTurn`: three rounds with the same call bring the remark about repetition,
  which goes out with the fourth request; with three calls, two to a round, a round
  may also have two and another follow. One login and one pasted token give two profiles of a
  provider, one refresh a second generation. The tools that only look are
  evaluated on 256 small trees and the empty one (`MCTrees`) with bounds below, at
  and above what there is (`MCViews`).
- `CloudAccess`: the clock counts in units in which a bearer is kept for two, lives
  for three and is dropped one before its account expires; the code's 3600, 7200
  and 60 seconds are in the same order. Three units see a bearer kept, dropped and
  made again; two accounts let one replace the other. Three regions, of which one
  has no Mantle.
- `ShellTasks`: two pieces per stream are needed to swap, lose or double one.
- `MemoryFacts`: five identifiers allow a fact to be superseded, swept and made
  again; two threads the least with a fork and with a fact both name.
- `TelegramChannel`: two turns let one wait while another runs; two saves let a
  boundary be replaced or removed; the owner may save a trusted person with topics
  shared and forbidden, or an agent that is a mere acquaintance; `Situations` has
  what a boundary may and may not let through.
- `EventDelivery`: two frames and two events to swap or double one. `MaxRequests`
  bounds the frames of a client, `MaxFrames` those of all. A client that sends
  before it was answered has two frames under way, which takes twice the states;
  `DeliveryCorrect` covers it. Mutex fairness is not needed, since the frames are
  bounded.
- `NodeRegistry`: `MaxMount` is the last index of a mount; two show a reused
  identifier.
- `WebClient`: the third socket replaces one that had replaced another; two
  timers, since `connect()` cancels none.
- `Workbench`, `CliView`: with two turns the events of one can meet the responses
  of the next. Two requests of the client are the least with which a session is
  loaded beside a turn of its own, or a thread is selected twice; the turns of the
  other client come on top. One mishap, a lost connection or a late answer.

Deadlock is not checked in `EventDelivery` (every connection may end, and the
system then stops) and in `MemoryFacts`, `ModelTurn`, `TelegramChannel`,
`Workbench` and `CliView`, whose inputs are bounded: when all are used up nothing
is left to do. The other modules always have a next step.

### Fairness

- `TurnLifecycle`: `WF(Server)`. The thread that holds the mutex keeps running,
  and the provider ends its stream or fails. The tool loop of the code has no
  limit; `MaxToolEntries` ends it, so `ServerProgress` assumes a model that stops
  calling tools. Clients, faults and restarts are not fair.
- `EventDelivery`: the threads of a connection and the reading of a client that
  stays. Publishing and disconnecting are not fair.
- `ShellTasks`: the readers and the steps of a call. Nothing is assumed of the
  command, which may run forever; that is why `OnlyCommandsBlock` excepts `wait`
  on a running command, and `exec`, which reads until the pipes close.
- `WebClient`: the browser's timers fire, and it reports the end of a socket it
  was told to close. Nothing obliges the server to answer or the network to hold.
- `TelegramChannel`: `WF(Adapter)`, the loop that forwards events or finds that
  the time is over. Nothing is assumed of the owner, who may never answer.

### What the code does and its texts do not say

The `*_doc_*.cfg` reproduce a disagreement each: run them with `tlc` on the module
named first.

| Configuration | The text | The code |
|---|---|---|
| `TurnLifecycle_doc_sequence` (MCTurnLifecycle) | `turn_log.rs:15` "The monotonically increasing sequence number for the thread." | a tool entry is numbered by the length of the log without advancing the turn manager's counter, so the next entry repeats the number |
| `TurnLifecycle_doc_checkpoint` (MCTurnLifecycle) | `policy_engine.rs:26` "Whether a checkpoint should be created before continuing." | true of medium risk too, but only turns that stop for approval get one |
| `CloudAccess_doc_region` (MCCloudAccess) | `provider_registry.rs:332` and `:333` assert one region for the address and `aws.region` | the owner's `aws.region` stays while the address takes the environment's region (`config.rs:325`, `:330`), and the bearer is signed for the first |
| `ShellTasks_doc_wait` (MCShellTasks) | `shell.rs:169` "Waits for a background shell task to finish and returns its final output." | the readers are not joined; output still in the pipe is missing |
| `NodeRegistry_doc_unique` (MCNodeRegistry) | `ids.rs:61` "A unique identifier for a workspace mounted on a node." | the identifier of a detached mount is given to the next path while threads started on the first still carry it |
| `MemoryFacts_doc_superseded` (MCMemoryFacts) | `global_memory_store.rs:33` "The fact that superseded this one, if any." | a sweep (`memory.rs:946`, `:1110`) stores a fresh identifier that no fact gets |
| `MemoryFacts_doc_title` (MCMemoryFacts) | `liz-protocol/memory.rs:333` "The thread title resolved for the citation, if available." | the title of the thread that was asked for; the citation may be of another |
| `Workbench_doc_tools` (Workbench) | `workbench.test.ts:83` "groups tool lifecycle and executor output by call" | results name the tool, output neither; they go to the last open call (`workbench.ts:888`) |
| `CliView_doc_new` (CliView) | `view_model.rs:29` "Start a new conversation", `:48` "Clear visible transcript and start fresh" | only the screen is cleared (`tui.rs:478`); the next message goes to the old thread |
| `ModelTurn_doc_refresh` (MCModelTurn) | `model/auth.rs:111` "Refresh token retained for future refreshes." | what a refresh returns is not written back; where a refresh token works once, the stored login is dead after it |
| `ModelTurn_doc_ready` (MCModelTurn) | `responses.rs:298` "Whether the provider can be used for a live model turn now." | any setting counts as a credential (`server/mod.rs:780`), so a provider without one is shown as ready |
| `ModelTurn_doc_changed` (MCModelTurn) | `tool.rs:290` "Whether the contents changed." | a file that is missing or cannot be read is taken for an empty one (`workspace.rs:112`) |
| `TelegramChannel_doc_forbidden` (MCTelegramChannel) | `liz-protocol/memory.rs:97` "Topics that must never be disclosed to this relationship." | only the resident layer is filtered, the thread's projection and log are told as they are |

Met while modelling, and part of the modules as the code has them: the memory
file, written "atomically for future reads" (`global_memory_store.rs:109`), is
truncated and filled in place (`torn`); a GitLab login
is completed without comparing the state that "must round-trip through the
callback" (`liz-protocol/auth.rs:111`); a device login that expired
is reported as "still pending" (`auth.rs:71`, `model/auth.rs:1108`); the remark
about a repeated call has an identifier no provider gave (`tooling.rs:149`
"Provider-scoped call identifier."); whether a person is an agent is guessed from
the word in the stance (`coordinator.rs:1335`); an approved turn is told without
the participant it was started for; the pieces of a streamed answer do not pass
the output policy, its message and its last word do; the active state a wake-up
shows is that of the thread compiled last; a topic may cite facts that went out of
recall. A thread of the web client that is selected again shows its finished turns
twice, live and from the log (`workbench.ts:773`, whose identifiers no live entry
has; the test "does not duplicate loaded session transcript entries",
`workbench.test.ts:289`, is about loading a session twice); of a turn whose end was
loaded before its events came, the answer is shown from the log only, and what comes
of its text afterwards changes that entry. In the terminal client a second
message typed while its thread is being started replaces the first, which stays on
the screen and is never sent.

Some hazards are of this kind: what they speak of is what the code does, and no
property excludes it. `PROJECT.json` says so at each (a second first message of the
terminal client, a device login polled after its code was used, the diff of a tool
whose recording failed, the unchecked pieces of a stream, a healthy socket replaced
by an old timer, an endpoint of Z.AI that cannot be reached), and what a property
does say about it.

## The proofs

They hold for any values of the constants that meet the assumptions the modules
declare, with faults and restarts anywhere.

| Module | Theorem | Statement |
|---|---|---|
| `TurnLifecycleProofs` | `TypeCorrect` | `Spec => []TypeOK` |
| | `OneTurnPerThread` | `Spec => []OneOpenTurn` |
| | `EndIsFinal` | `Spec => []EndedStaysEnded` |
| | `OneEndPerTurn` | `Spec => []EndsOnce` |
| | `EndsAreFinal` | `Spec => []EndingsInv`, the three before it |
| | `RunsAreAllowed` | `Spec => ModelRunIsAllowed` |
| | `EndsAreOnRecord` | `Spec => []PublishedIsLogged` |
| | `FilesTrailTheLog` | `Spec => []ProjectionTrailsLog` |
| | `CancelledWorkIsRemembered` | `Spec => []CancelledWorkRemembered` |
| | `ContractImplemented` | `Spec => ImplementsContract` |
| | `NoTurnRunsTwice` | `Spec /\ []NoFault => []RunsAtMostOnce` |
| | `DenialsHold` | `Spec /\ []NoFault => DeniedNeverRuns` |
| | `NoTurnIsLeftRunning` | `Spec /\ []NoFault => []NothingLeftBehind` |
| | `SequencesAreOrdered` | `Spec /\ []NoFault => []LifecycleSequencesIncrease` |
| `NodeRegistryProofs` | `RegistryCorrect` | `Spec => []RegistryInv` |
| | `MountsKeepTheirPath` | `Spec => MountNotRetargeted` |
| `WebClientProofs` | `OneConnectionAtATime` | `Spec => []ConnectionInv` |
| | `NoneLeftStranded` | `Spec => []NoneStranded` |
| `ShellTasksProofs` | `OutputCorrect` | `Spec => []OutputInv` |
| `CloudAccessProofs` | `BearersCorrect` | `Spec => []AccessInv` |
| | `OwnerHeard` | `Spec => []OwnerIsHeard` |
| `EventDeliveryProofs` | `DeliveryCorrect` | `Spec => []DeliveryInv` |
| | `BroadcastImplemented` | `Spec => ImplementsBroadcast` |
| `TelegramChannelProofs` | `ChannelHolds` | `Spec => []ChannelInv` |
| | `DisclosureHolds` | `Spec => []DisclosureInv` |
| `ModelTurnProofs` | `ProfilesHold` | `Spec => []ProfilesInv` |
| | `LoginsAreUsedWhole` | `Spec => []LoginUsedWhole` |

### TurnLifecycle

The first six rest on the assumptions `TurnLifecycle` declares about its constants
(`MentionsAssumption`, `RisksAssumption`, `BoundsAssumption`, `NoneAssumption`)
and on five inductive invariants, the later ones on top of `Shape`:

1. `Shape` is `TypeOK`, `JobShape` and `TurnShape`. `TypeOK` alone is not
   inductive: `Restart` and the answers use `request[t].thread`, which has a value
   only if the turn in memory or in the job was requested on a stored thread.
2. `Unique` extends `OneOpenTurn` by the turn that is being started: while its
   writes are under way it is not yet in `active_turns`, and nothing else of its
   thread may be.
3. `Final` adds to `EndedStaysEnded` and `EndsOnce` what holds between the steps
   of a request: a turn that ended was requested; one that is being started has
   not ended, although its identifier was handed out several writes earlier; one
   whose end is about to be logged has left `active_turns` and has not ended yet.
   Both properties are broken by an append, if at all, and only these facts
   about the state before it say that the append is the first.
4. `Allowed`: between an approval and the model run that it clears, the approval
   is still recorded. `ModelRunIsAllowed` speaks of the state in which the model
   is started, several writes after the request that approved it.
5. `Recorded` extends `PublishedIsLogged`: a job that writes an end, and has
   passed its append, finds that end in the log. Its proof also needs that logs
   only grow (`LogGrows`, `LogKept`), that an identifier stands for one request
   for good (`RequestKept`), and that only `FinishEnd` publishes an end
   (`EndsPublished`).

What is kept on record goes on from there:

6. `Trail` says what the log must hold while a transition is written: a draft of
   a thread file is made before the entry it speaks of is appended and written
   after, so `ProjectionTrailsLog` alone is not inductive.
7. `Remembered`: every draft is made from the file that was read and written some
   steps later. `DraftKeeps` says that it leaves out only the goals of cancelled
   turns that the turn in hand takes up, and `EntryIsLast` that nothing is logged
   between an entry and its draft; `CancelDrafted` that the draft of a
   cancellation holds the goal.
8. `Announced` ties the start of a turn a client was told of to its entry. With it
   every action maps to a step of `TurnContract` for the one turn it serves, or
   to a stutter: `ContractImplemented` has one case per action.
9. Four properties are broken by a failed write, as the code reports the error and
   leaves it at that: a log entry that could not be written leaves a turn in
   memory that runs again, or a number that is used twice. `NoFault` is
   `faults = 0`; the theorems say that they hold as long as it does. `faults`
   only grows, so these are the behaviours in which no store access failed, with
   the end of the process and torn files anywhere. `Settled`, `Once`, `Denied`,
   `Attended` and `Counted` are their invariants: how the turn in hand stands
   while its transition is written, that a turn that ran is no longer waiting for
   an answer, and that the counter of a thread never runs ahead of its log.

Each has one lemma per group of actions (client requests, writes, gates, answers,
ends, cuts), and a temporal step that combines them.

### EventDelivery

`DeliveryIInv` follows a frame from the request that makes it to the client. It
rests on `EventDeliveryAssumption` (the bounds are numbers, and `None` is no
connection) and was checked on the instance of `EventDelivery_clients` as well.

1. `Placed`: a thread that serves holds the mutex, and a connection in its loop has
   a running forwarder and a sender in the bus, so that it misses no event.
   `Asking`: requests wait in the order of their numbers, all above the one in
   service. `Joined`: a connection that subscribed at the end of the log did so
   outside every request, so the next entry is of another (`Between`).
2. `Answering`: an event of the client's own request is behind the response to it,
   or waits in a channel while that request is being served. A thread flushes only
   between requests, so the response is out before such an event is.
3. `Streaming`: the two channels of a connection, one behind the other, hold
   exactly the end of the log; the wire holds, among the responses, what lies
   between that end and what the client has seen, rising and without a gap. The
   event at the head of the wire is therefore the next one of the log, which is the
   step `Deliver` of `EventBroadcast`. Once the client is gone, or the thread has
   left its loop, only the last part of this is dropped.

`Answering` and `Streaming` are stated of plain sequences, and the lemmas about
them (`AnsweringFlushed`, `StreamingRead`, ...) know nothing of the state; `Flow...`
say what each action does to the sequences.

### TelegramChannel

`ChannelIInv` was checked on the instance of `TelegramChannel_updates`, with what
`Picked` keeps of a prefix in the place of `Picks`. The assumptions say only that
what the owner saves is not `None`, that stored facts and a model's words come in
sequences, and that the latter are chunks or messages.

1. Lists are read with `Picked`, a recursive function of the prefixes of a
   sequence. What it computes is an induction over data, but its least
   counterexample can be named (`LeastNatural`, from the library's `WFMin`), and
   with it follow the lemmas everything else rests on: `PickExists`,
   `PicksEquations`, `PicksOrigin` (what is kept comes from rising places of the
   list, and no place of the set is missed) and `PicksPrefix`.
2. `Matches`: the stored entries and what was last saved for each person
   correspond one to one. Replacing an entry, adding one, sorting and deleting
   keep it, since each rearranges or drops entries (`Rearranges`); the two lists
   of the surface, one after the other, are such a rearrangement too
   (`PickedApart`), which is `ShownAsSaved`.
3. `Proper` is a promise about one turn: what it was told keeps to its boundary,
   which is the one saved when it was told (`ToldKeepsTo` resolves the first entry
   for the identifier and passes it through every section of the resident layer),
   and what it said and logged passed the owner's check. A turn that waits has said
   nothing, so that approving it, which drops the context, breaks neither.
4. `ToldInOrder` is not inductive: what is still to be sent is in the
   subscription. `ReadUpto(n, ...)` says that n events were read, that the queue
   holds those from n + 1 on, and that what was voiced in them is what was sent;
   `ReadOne` takes n to n + 1. Turns started by others meanwhile cannot
   interfere, because nobody else is served before the update returns.

### ModelTurn

`AuthIInv` adds to `CompleteIsStored` and `IdsAreUnique` the shape of what is
stored: every profile holds a token that was issued (`Stocked`), and one made of a
login holds what its provider gives, where the gateway reads it (`LoginShape`).
`TurnIInv` says of a turn under way that its gateway was taken from the profile it
began with (`TakenFrom`, `Holder`), although that profile may be another by now.
From the two follow that nothing of a login is filled from the environment's
(`LoginTakenWhole`), that a token is used as it is only ahead of the expiry stored
with it (`UsedInTime`), and that a refresh yields a token of the same login that
was not issued before and so is in time (`NextTokenIsNew`, from the greatest
generation issued, `LatestBounds`). `AuthAssumption` bounds the logins and the
refreshes, and says that `None` is no token; `OthersAssumption` that the providers
set up besides are among those modelled.

### The others

- `RegistryIInv`: between the change of the memory and the end of the file's
  write the two differ; `FileCurrent` says when they may not, and `JobFiled` that
  a thread that is about to be stored is bound to a mount the file already holds.
  That a new identifier is not one in use is an argument about the numbers taken
  from the count of the mounts on.
- `ConnectionIInv` adds to `ConnectionInv` that sockets are numbered in the order
  in which they were opened (`Numbered`): a new one is none of those that may
  still report events. `StrandedIInv` adds to `NoneStranded` that an idle client has
  no socket; that a socket which opens, or shows an error while "connected", is there
  at all comes from `ConnectionIInv`.
- `OutputIInv` adds `TaskShape` (where a call may be for a task in each state),
  `CodesHeld` (an exit code is kept only for a child that ended with it) and
  `DeliveredStored` to the parts of `OutputInv`. The hosts are those
  `PossibleHost` describes (`ShellTasksAssumption`): the backends of
  `sandbox.rs` on every platform, with any helpers found.
- `AccessIInv` says of a kept bearer, by the times at which it was minted and its
  account was replaced, when it expires (`Kept`). It rests on
  `CloudAccessAssumption`: a bearer is kept no longer than it lives, as 3600
  seconds are of 7200.
- `HeardIInv` says what the settings of a call under way take from the owner's
  config (`Heard`); `ResolvedHears` proves it of every provider and every answer
  of Z.AI's endpoints, and `SendHears` that what is sent keeps it. A kept bearer
  was signed, never made of a key (`KeptAreSigned`).

### Only model-checked

Liveness and everything else under fairness: out of the prover's reach. The
action properties `InvalidationsTold`, `CommitmentsFollowThread` and `PickerStays`,
the safety properties of `MemoryRecall`, `Workbench` and `CliView`, and `TurnInv`
of `ModelTurn`, which speaks of what filters and folds of the library
(`SelectSeq`, `FoldLeft`) yield for every sequence: that takes their induction,
which cannot be stated here. `Picked` of `Disclosure` is a recursive function of
its own, of which it can, by the least element at which it would fail.

## Not modelled

- The wording of prompts and streams, keyword classification, scores and
  rendering: data without control. Their outcome is an input (the risk of a turn,
  the topics in a text, the keywords in a title).
- The payload formats of the model adapters; the provider table; the settings of
  providers that only take one variable for another; the signing of AWS requests.
- Archiving of threads, settings and memory panels of the clients, where notices
  stand among the entries of the web client's transcript, shutdown of
  the listener, the Telegram poller, which is not in the repository.
- Symbolic links and paths outside the workspace; text below the line.
- Loss of writes in a power failure; a panic that poisons the mutex; memory use
  of the unbounded channels to a slow client; how long a session token lives that
  the environment holds without its expiry; a multi-byte character split over
  two reads of a pipe.

## Plan

Done: the turn lifecycle and its contract, delivery, shell, registry, memory,
authentication, cloud access and model turns, disclosure and the Telegram
channel, the three clients; proofs about the turn lifecycle, the registry, the
web connection, shell commands, cloud access, the delivery of events, disclosure
and the Telegram channel, profiles and the credential of a model turn. What is
left is proof:

1. `MemoryFacts`: `InvalidationsTold`, `CommitmentsFollowThread`.
2. `ModelTurn`: `DiffsTellTheFiles`, which first needs that the workspace is a
   tree, every directory above a file in it.

------------------------------ MODULE ModelTurn ------------------------------
(***************************************************************************)
(* A model turn: the server asks the provider, runs the tools the answer   *)
(* calls for, hands their results back with the next request, and ends the *)
(* turn with the first answer that calls for none.  Every request resolves *)
(* the credential of ProviderAuth anew from the gateway that was put       *)
(* together when the turn began.                                           *)
(*                                                                         *)
(* The server's lock is held from the beginning of a turn to the end of    *)
(* the memory compilation that follows it, so no login or profile request  *)
(* comes in between; tokens expire, and logins are authorized, at any time.*)
(*                                                                         *)
(* A tool of a call works on the files of the workspace (WorkspaceFiles);  *)
(* the shell tools are those of ShellTasks.                                *)
(*                                                                         *)
(* A call is [round, pos, tool]: the provider's identifier for it, which   *)
(* the server hands back, stands for the round and the position.           *)
(***************************************************************************)
EXTENDS ProviderAuth, WorkspaceFiles

CONSTANTS
    Tool,       \* calls of the standard surface: a tool and its arguments
    Invocation, \* what each of them is in WorkspaceFiles, or a call that does not parse
    Tree,       \* the workspace at first
    Edits,      \* what others write into files of the workspace
    Trees,      \* workspaces the tools that only look are checked on
    Views,      \* invocations of those tools
    Others,     \* bound: the providers clients set up besides the configured one
    MaxCalls,   \* bound: calls in one turn
    MaxBatch,   \* bound: tools an answer names
    MaxRounds,  \* bound: requests of one turn
    MaxTurns    \* bound: turns

ASSUME OthersAssumption == Others \subseteq Provider

VARIABLES
    primary,    \* the provider the server is configured for
    phase,      \* "idle", "ask", "run" or "compile"
    surface,    \* the tools of this turn: all, or none without a workspace
    gateway,    \* what the gateway of this turn took from profile and environment
    owner,      \* the profile it was taken from
    round,      \* requests sent in this turn
    pending,    \* the calls of this round not executed yet
    called,     \* all calls the model made in this turn that were recognised
    results,    \* what the next request hands back
    fresh,      \* results of the current round
    last,       \* the tools of the previous round
    repeated,   \* how often they were repeated in a row
    ran,        \* the calls whose tool ran
    tree,       \* the files of the workspace
    diffs,      \* the diffs recorded in this turn
    disturbed,  \* in this turn a file changed and no diff of it was recorded
    events,     \* what was published for this turn
    sent,       \* the last request: its token and where it came from
    turns       \* turns so far

turnVars == <<primary, phase, surface, gateway, owner, round, pending, called,
              results, fresh, last, repeated, ran, tree, diffs, disturbed, events, sent, turns>>
fileVars == <<tree, diffs, disturbed>>
vars == <<authVars, turnVars>>

Diagnostic == None   \* the call of a result no call asked for

Result(call, failed) == [call |-> call, failed |-> failed]

Event(kind, call) == [kind |-> kind, call |-> call]

(***************************************************************************)
(* What an adapter makes of an answer: the calls with a name of this       *)
(* turn's surface; the others are dropped without a word.                  *)
(***************************************************************************)
Recognised(tools) == SelectSeq(tools, LAMBDA t : t \in surface)

Calls(tools) == [i \in DOMAIN tools |-> [round |-> round + 1, pos |-> i, tool |-> tools[i]]]

Announced(calls) ==
    FoldLeft(LAMBDA es, c : es \o <<Event("started", c), Event("committed", c)>>, <<>>, calls)

(***************************************************************************)
(* The text of an answer is published when the answer calls for no tool;   *)
(* some adapters publish nothing when the text is empty.                   *)
(***************************************************************************)
Spoken(calls) ==
    IF calls = <<>> THEN {<<>>, <<Event("chunk", None), Event("answer", None)>>} ELSE {<<>>}

(***************************************************************************)
(* One request: the credential, then the provider.                         *)
(***************************************************************************)
SendWith(t) == sent' = [token |-> t, owner |-> owner, past |-> t \in expired]

UseAccess ==
    /\ Resolution(primary, gateway) = "use"
    /\ SendWith(gateway.access)
    /\ UNCHANGED issued

Refresh ==
    /\ Resolution(primary, gateway) = "refresh" /\ RefreshAccepted(gateway.refresh)
    /\ Latest(gateway.refresh) < MaxRefresh
    /\ issued' = issued \cup {NextToken(gateway.refresh)}
    /\ SendWith(NextToken(gateway.refresh))

Sends == UseAccess \/ Refresh

CannotSend ==
    /\ \/ Resolution(primary, gateway) = "fail"
       \/ Resolution(primary, gateway) = "refresh"
    /\ UNCHANGED <<issued, sent>>

Begin ==
    /\ phase = "idle" /\ turns < MaxTurns
    /\ turns' = turns + 1
    /\ phase' = "ask"
    /\ surface' \in {Tool, {}}
    /\ owner' = DefaultProfile(primary)
    /\ gateway' = Gateway(primary)
    /\ answer' = NoAnswer /\ sent' = None
    /\ UNCHANGED <<primary, round, pending, called, results, fresh, last, repeated, ran, events,
                   fileVars, torn, profiles, logins, issued, expired, faults>>

(***************************************************************************)
(* What a turn kept goes with it.                                          *)
(***************************************************************************)
Forget ==
    /\ surface' = {} /\ round' = 0 /\ repeated' = 0
    /\ pending' = <<>> /\ called' = <<>> /\ results' = <<>> /\ fresh' = <<>> /\ last' = <<>>
    /\ ran' = {} /\ diffs' = <<>> /\ disturbed' = FALSE

(***************************************************************************)
(* The end of a turn.  When its log entry cannot be written nothing is     *)
(* published and no memory compiled; the gateway of the compilation is put *)
(* together anew.                                                          *)
(***************************************************************************)
End(kind, spoken) ==
    \/ /\ events' = events \o spoken \o <<Event(kind, None)>>
       /\ phase' = "compile"
       /\ owner' = DefaultProfile(primary) /\ gateway' = Gateway(primary)
       /\ UNCHANGED faults
    \/ /\ faults < MaxFaults /\ faults' = faults + 1
       /\ events' = <<>> /\ phase' = "idle"
       /\ owner' = None /\ gateway' = Unset

AskFails ==
    /\ phase = "ask"
    /\ CannotSend \/ Sends
    /\ End("turn_failed", <<>>)
    /\ Forget
    /\ UNCHANGED <<primary, turns, tree, torn, profiles, logins, expired, answer>>

Repeats(tools) == IF tools = last THEN repeated + 1 ELSE 0

ToolSeqs == SeqOf(Tool \cup {"unknown"}, MaxBatch)

Ask(tools) ==
    LET calls == Calls(Recognised(tools)) IN
    /\ phase = "ask" /\ round < MaxRounds /\ Len(called \o calls) <= MaxCalls
    /\ Sends
    /\ \E spoken \in Spoken(calls) :
         IF calls = <<>>
         THEN End("turn_completed", spoken) /\ Forget /\ UNCHANGED tree
         ELSE /\ events' = events \o Announced(calls) \o spoken
              /\ phase' = "run" /\ round' = round + 1
              /\ pending' = calls /\ called' = called \o calls
              /\ repeated' = Repeats(Recognised(tools))
              /\ last' = Recognised(tools)
              /\ UNCHANGED <<surface, owner, gateway, results, fresh, ran, fileVars, faults>>
    /\ UNCHANGED <<primary, turns, torn, profiles, logins, expired, answer>>

(***************************************************************************)
(* One call.  A tool that is not run, or cannot do its work, has failed.   *)
(***************************************************************************)
Invoked(c) == Invocation[c.tool]

Parses(c) == Invoked(c).op # "malformed"

Failed(c) ==
    /\ events' = Append(events, Event("failed", c))
    /\ fresh' = Append(fresh, Result(c, TRUE))

NotParsed(c) ==
    /\ ~Parses(c)
    /\ Failed(c)
    /\ UNCHANGED <<ran, fileVars, faults>>

ToolFails(c) ==
    /\ Parses(c) /\ ~Works(tree, Invoked(c))
    /\ Failed(c)
    /\ UNCHANGED <<ran, fileVars, faults>>

(***************************************************************************)
(* A write to the file may fail, before or after it truncated the file.    *)
(***************************************************************************)
SaveFails(c) ==
    /\ Parses(c) /\ Works(tree, Invoked(c)) /\ Changes(Invoked(c))
    /\ faults < MaxFaults /\ faults' = faults + 1
    /\ \/ UNCHANGED fileVars
       \/ tree' = Put(tree, Invoked(c).path, <<>>) /\ disturbed' = TRUE /\ UNCHANGED diffs
    /\ Failed(c)
    /\ UNCHANGED ran

Runs(c) ==
    /\ Parses(c) /\ Works(tree, Invoked(c))
    /\ ran' = ran \cup {c}
    /\ tree' = After(tree, Invoked(c))

Diff(c) == [path |-> Invoked(c).path] @@ Change(tree, Invoked(c))

Completed(c) ==
    /\ Runs(c)
    /\ diffs' = IF Changes(Invoked(c)) THEN Append(diffs, Diff(c)) ELSE diffs
    /\ events' = Append(events, Event("completed", c))
    /\ fresh' = Append(fresh, Result(c, FALSE))
    /\ UNCHANGED <<disturbed, faults>>

(***************************************************************************)
(* The tool ran, and its artifacts or its log entry could not be written.  *)
(***************************************************************************)
RecordingFails(c) ==
    /\ Runs(c)
    /\ faults < MaxFaults /\ faults' = faults + 1
    /\ disturbed' = (disturbed \/ Changes(Invoked(c)))
    /\ Failed(c)
    /\ UNCHANGED diffs

RunTool ==
    /\ phase = "run" /\ pending # <<>>
    /\ LET c == Head(pending) IN
         NotParsed(c) \/ ToolFails(c) \/ SaveFails(c) \/ Completed(c) \/ RecordingFails(c)
    /\ pending' = Tail(pending)
    /\ UNCHANGED <<primary, phase, surface, gateway, owner, round, called, results, last,
                   repeated, sent, turns, torn, profiles, logins, issued, expired, answer>>

(***************************************************************************)
(* Others work on the same files during a turn, and no tool notices.       *)
(***************************************************************************)
OthersEdit ==
    /\ phase \in {"ask", "run"}
    /\ faults < MaxFaults /\ faults' = faults + 1
    /\ \E edit \in Edits : tree' = Put(tree, edit.path, edit.text)
    /\ disturbed' = TRUE
    /\ UNCHANGED <<primary, phase, surface, gateway, owner, round, pending, called, results,
                   fresh, last, repeated, ran, diffs, events, sent, turns, torn, profiles,
                   logins, issued, expired, answer>>

(***************************************************************************)
(* The next request hands back the results of all rounds so far; after the *)
(* third round in a row with the same calls it holds a remark of the       *)
(* server's own.                                                           *)
(***************************************************************************)
Remark == IF repeated >= 2 THEN <<Result(Diagnostic, TRUE)>> ELSE <<>>

Continued_ThisRound == fresh \o Remark

Continued == results \o fresh \o Remark

HandBack ==
    /\ phase = "run" /\ pending = <<>>
    /\ results' = Continued
    /\ fresh' = <<>>
    /\ phase' = "ask"
    /\ UNCHANGED <<primary, surface, gateway, owner, round, pending, called, last, repeated,
                   ran, fileVars, events, sent, turns, authVars>>

(***************************************************************************)
(* The compilation after a turn asks once, without tools; when it fails    *)
(* the server compiles without a model.                                    *)
(***************************************************************************)
Compile ==
    /\ phase = "compile"
    /\ CannotSend \/ Sends
    /\ phase' = "idle" /\ events' = <<>>
    /\ owner' = None /\ gateway' = Unset
    /\ UNCHANGED <<primary, surface, round, pending, called, results, fresh, last, repeated,
                   ran, turns, fileVars, torn, profiles, logins, expired, answer, faults>>

-----------------------------------------------------------------------------
Init ==
    /\ AuthInit
    /\ primary \in Provider
    /\ phase = "idle" /\ surface = {} /\ owner = None /\ gateway = Unset
    /\ round = 0 /\ repeated = 0 /\ turns = 0
    /\ pending = <<>> /\ called = <<>> /\ results = <<>> /\ fresh = <<>> /\ last = <<>>
    /\ ran = {} /\ tree = Tree /\ diffs = <<>> /\ disturbed = FALSE
    /\ events = <<>> /\ sent = None

Requests ==
    /\ phase = "idle" /\ AuthRequest({primary} \cup Others) /\ sent' = None
    /\ UNCHANGED <<primary, phase, surface, gateway, owner, round, pending, called, results,
                   fresh, last, repeated, ran, fileVars, events, turns>>

World == AuthWorld({primary} \cup Others) /\ UNCHANGED turnVars

Next ==
    \/ Requests
    \/ World
    \/ Begin
    \/ AskFails
    \/ \E tools \in ToolSeqs : Ask(tools)
    \/ RunTool
    \/ OthersEdit
    \/ HandBack
    \/ Compile

Spec == Init /\ [][Next]_vars

-----------------------------------------------------------------------------
Of(kinds) == SelectSeq(events, LAMBDA e : e.kind \in kinds)

CallsOf(es) == [i \in DOMAIN es |-> es[i].call]

Answers(rs) == SelectSeq(rs, LAMBDA r : r.call # Diagnostic)

(***************************************************************************)
(* A request hands back one result for every call the model made before,   *)
(* in the order of the calls, and a result that is no error is of a tool   *)
(* that ran.                                                               *)
(***************************************************************************)
EveryCallAnswered ==
    /\ phase = "ask" => CallsOf(Answers(results)) = called
    /\ \A i \in DOMAIN results : ~results[i].failed => results[i].call \in ran

(***************************************************************************)
(* The tools of a round end in the order in which they were announced,     *)
(* after all of them were, and before the next request is sent: what the   *)
(* clients' views rely on when they pair results with calls by tool.       *)
(***************************************************************************)
ToolsEndInOrder ==
    /\ IsPrefix(CallsOf(Of({"completed", "failed"})), CallsOf(Of({"committed"})))
    /\ phase # "run" => Len(Of({"completed", "failed"})) = Len(Of({"committed"}))

(***************************************************************************)
(* The model's answer is published at most once in a turn, after every     *)
(* tool ended, and only the end of the turn follows it.                    *)
(***************************************************************************)
AnswerIsLast ==
    \A i \in DOMAIN events : events[i].kind = "answer" =>
        \A j \in DOMAIN events : j > i => events[j].kind \in {"turn_completed", "turn_failed"}

(***************************************************************************)
(* The diffs a turn recorded fit together, each begins where the one of    *)
(* the same file before it ended, and the last one ends where the file is, *)
(* unless others edited the file or a tool changed it and then failed.     *)
(***************************************************************************)
DiffsTellTheFiles ==
    ~disturbed =>
        \A i \in DOMAIN diffs :
            LET later == {j \in DOMAIN diffs : j > i /\ diffs[j].path = diffs[i].path}
            IN diffs[i].after = IF later = {} THEN tree[diffs[i].path]
                                ELSE diffs[Min(later)].before

(***************************************************************************)
(* What the tools that only look tell of a workspace is true of it.        *)
(***************************************************************************)
ViewsAreTrue == \A w \in Trees, t \in Views : ViewIsTrue(w, t)

(***************************************************************************)
(* A tool that says that the contents did not change left them alone.  The *)
(* code takes a file it cannot read, or that is not there, for an empty    *)
(* one.                                                                    *)
(***************************************************************************)
ChangesAreTold ==
    \A t \in Tool : Changes(Invocation[t]) => ChangeIsTrue(tree, Invocation[t])

(***************************************************************************)
(* The parts about the tools of a turn, and the types.                     *)
(***************************************************************************)
TurnInv ==
    /\ AuthTypeOK
    /\ phase \in {"idle", "ask", "run", "compile"}
    /\ EveryCallAnswered
    /\ ToolsEndInOrder
    /\ AnswerIsLast
    /\ DiffsTellTheFiles
    /\ ViewsAreTrue

(***************************************************************************)
(* The profile file against what clients were told, of logins and of what  *)
(* can be used.                                                            *)
(***************************************************************************)
ProfilesInv == CompleteIsStored /\ IdsAreUnique /\ UsableIsReady

(***************************************************************************)
(* A request made with a stored login carries a token of that login, and   *)
(* none that is past the expiry stored with it.                            *)
(***************************************************************************)
Login(pr) == pr # None /\ pr.access.from = "login"

LoginUsedWhole ==
    sent # None /\ Login(sent.owner) =>
        /\ SameLogin(sent.token, sent.owner.access)
        /\ sent.owner.expires => ~sent.past
=============================================================================

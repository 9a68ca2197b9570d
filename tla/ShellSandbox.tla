---------------------------- MODULE ShellSandbox ----------------------------
(***************************************************************************)
(* The sandbox of a shell command: what a request and the defaults ask     *)
(* for, the backend the platform has for it, and the command that is built *)
(* or the refusal (executor/sandbox.rs, executor/shell.rs).                *)
(*                                                                         *)
(* A request is [mode, network].  A host is [platform, windows, mode,      *)
(* network, helpers]: mode and network are what its environment says, and  *)
(* helpers the backends whose helper program is found, by its variable or  *)
(* on the search path.  What a helper enforces is its own business; it is  *)
(* given the mode and the network access as arguments.                     *)
(***************************************************************************)
EXTENDS Naturals

Unconfined == {"danger-full-access", "external-sandbox"}
Confined   == {"read-only", "workspace-write"}
Network    == {"disabled", "restricted", "enabled"}
Request    == [mode : Unconfined \cup Confined, network : Network]

HasSandbox == {"macos", "linux", "windows"}

WindowsBackend == {"windows-restricted-token", "windows-sandbox-user"}
Backend        == {"macos-seatbelt", "linux-helper"} \cup WindowsBackend

PossibleHost == [platform : HasSandbox \cup {"other"}, windows : WindowsBackend,
                 mode : STRING, network : STRING, helpers : SUBSET Backend]

(* EffectiveSandboxRequest, and what is started in it.                     *)
Sandbox == [mode : Unconfined \cup Confined, network : Network, backend : Backend \cup {"none"}]
Started == [by : Backend \cup {"none"}, mode : Unconfined \cup Confined, network : Network]

(* LIZ_SANDBOX_MODE and LIZ_SANDBOX_NETWORK, when they are understood.     *)
FromEnv(host) ==
  [mode    |-> IF host.mode \in Unconfined \cup Confined THEN host.mode
               ELSE IF host.platform \in HasSandbox THEN "workspace-write"
               ELSE "danger-full-access",
   network |-> IF host.network \in Network THEN host.network ELSE "restricted"]

SelectBackend(host, mode) ==
  CASE mode \in Unconfined       -> "none"
    [] host.platform = "macos"   -> "macos-seatbelt"
    [] host.platform = "linux"   -> "linux-helper"
    [] host.platform = "windows" -> host.windows
    [] OTHER                     -> "none"

(* The override of a tool call counts as a whole, or the defaults do.      *)
ResolveRequest(host, request, defaults, None) ==
  LET asked == IF request = None THEN defaults ELSE request
  IN  [mode |-> asked.mode, network |-> asked.network,
       backend |-> SelectBackend(host, asked.mode)]

EnsureSupported(sandbox) == sandbox.mode \in Unconfined \/ sandbox.backend # "none"

(* A helper is the one its variable names, or the first of its names next  *)
(* to the server's program or on the search path.  Seatbelt needs none.    *)
FoundHelpers(host) == host.helpers

HelperPath(host, backend) == backend = "macos-seatbelt" \/ backend \in FoundHelpers(host)

(* What encloses the shell.  A helper is given the mode and the network    *)
(* access as arguments, Seatbelt as a policy: writes below the working     *)
(* directory in one mode only, and the network as asked.                   *)
AccessGiven(sandbox) == [mode |-> sandbox.mode, network |-> sandbox.network]

SandboxedCommand(sandbox) == [by |-> sandbox.backend, mode |-> AccessGiven(sandbox).mode,
                              network |-> AccessGiven(sandbox).network]

DirectCommand == [by |-> "none", mode |-> "danger-full-access", network |-> "enabled"]

BuildCommand(sandbox) ==
  IF sandbox.mode \in Unconfined THEN DirectCommand ELSE SandboxedCommand(sandbox)

(* Whether prepare_shell_command succeeds.                                 *)
Prepares(host, sandbox) ==
  /\ EnsureSupported(sandbox)
  /\ sandbox.mode \in Confined => HelperPath(host, sandbox.backend)

(* The output of a confined command begins with a banner.                  *)
Decorates(sandbox) == sandbox.mode \in Confined

=============================================================================

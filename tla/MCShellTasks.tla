---------------------------- MODULE MCShellTasks ----------------------------
(***************************************************************************)
(* Instances of ShellTasks for TLC.                                        *)
(***************************************************************************)
EXTENDS ShellTasks, TLC

On(platform, mode, network, helpers) ==
  [platform |-> platform, windows |-> "windows-sandbox-user", mode |-> mode,
   network |-> network, helpers |-> helpers]

MCHost ==
  {On("linux", "read-only", "disabled", {"linux-helper"}),
   On("linux", "danger-full-access", "restricted", {}),
   On("other", "", "", {})}

MCAsked ==
  {[mode |-> "danger-full-access", network |-> "restricted"],
   [mode |-> "read-only", network |-> "disabled"]}

Symmetry == Permutations(Task)

=============================================================================

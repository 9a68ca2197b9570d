SPECIFICATION Spec
CONSTANTS
  Provider = {"openai_codex", "gitlab", "github_copilot", "minimax_portal"}
  Env = {"openai_codex", "minimax_portal"}
  Rotating = {"gitlab"}
  None = None
  MaxLogins = 1
  MaxPastes = 1
  MaxRefresh = 1
  MaxFaults = 1
  Dir = Dir
  Binary = Binary
  Hidden = {1}
  Tool = {"patch", "malformed"}
  Invocation <- MCInvocation
  Tree <- MCTree
  Edits <- MCEdits
  Trees <- MCTrees
  Views <- MCViews
  Others = {}
  MaxCalls = 3
  MaxBatch = 2
  MaxRounds = 4
  MaxTurns = 1
INVARIANT
  ReadyIsUsable

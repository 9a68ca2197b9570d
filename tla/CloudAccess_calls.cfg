SPECIFICATION Spec
CONSTANTS
  Provider = {"azure", "cloudflare", "sap_ai_core", "google_vertex", "amazon_bedrock", "amazon_bedrock_mantle", "zai"}
  Own <- MCOwn
  Env <- MCEnv
  Region = {"east", "west", "north"}
  Supported = {"east", "west"}
  Home = "north"
  None = None
  TTL = 2
  Lifetime = 3
  Window = 1
  MaxTime = 3
  MaxAccounts = 2
INVARIANTS
  AccessInv
  OwnerIsHeard

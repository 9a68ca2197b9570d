SPECIFICATION Spec
CONSTANTS
  Provider = {"amazon_bedrock_mantle"}
  Own <- MCOwnPlaces
  Env <- MCEnvPlaces
  Region = {"east", "west", "north"}
  Supported = {"east", "west"}
  Home = "north"
  None = None
  TTL = 2
  Lifetime = 4
  Window = 1
  MaxTime = 1
  MaxAccounts = 1
INVARIANTS
  MantleMeetsRegion

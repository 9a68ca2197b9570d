SPECIFICATION FairSpec
CONSTANTS
  Task = {k1}
  None = None
  MaxOutput = 2
  Descendants = TRUE
  Host <- MCHost
  Asked <- MCAsked
INVARIANTS
  OutputInv
PROPERTIES
  OutputArrives
  OnlyCommandsBlock

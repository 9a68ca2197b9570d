SPECIFICATION Spec
CONSTANTS
  Task = {k1}
  None = None
  MaxOutput = 1
  Descendants = FALSE
  Host <- MCHost
  Asked <- MCAsked
INVARIANT
  WaitIsFinal

SPECIFICATION Spec
CONSTANTS
  Thread = {th1, th2}
  Turn = {t1, t2}
  g1 = g1
  g2 = g2
  Goal = {g1}
  Risks = {"low", "high"}
  Mentions <- MentionsSelf
  None = None
  MaxToolEntries = 0
  MaxResumes = 1
  MaxFaults = 1
  MaxCrashes = 0
SYMMETRY Symmetry
INVARIANTS
  OneOpenTurn
  EndingsInv
  PublishedIsLogged
  ProjectionTrailsLog
PROPERTIES
  ModelRunIsAllowed
  ImplementsContract

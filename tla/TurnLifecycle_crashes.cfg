SPECIFICATION FairSpec
CONSTANTS
  Thread = {th1}
  Turn = {t1, t2}
  g1 = g1
  g2 = g2
  Goal = {g1, g2}
  Risks = {"high"}
  Mentions <- MentionsOneWay
  None = None
  MaxToolEntries = 1
  MaxResumes = 2
  MaxFaults = 0
  MaxCrashes = 1
INVARIANTS
  CancelledWorkRemembered
  RunsAtMostOnce
  NothingLeftBehind
  LifecycleSequencesIncrease
PROPERTIES
  DeniedNeverRuns
  ServerProgress

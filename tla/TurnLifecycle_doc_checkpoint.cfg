SPECIFICATION Spec
CONSTANTS
  Thread = {th1}
  Turn = {t1, t2}
  g1 = g1
  g2 = g2
  Goal = {g1}
  Risks = {"medium", "high"}
  Mentions <- MentionsSelf
  None = None
  MaxToolEntries = 1
  MaxResumes = 2
  MaxFaults = 0
  MaxCrashes = 0
INVARIANT
  CheckpointBeforeRun

SPECIFICATION Spec
CONSTANTS
  t1 = t1
  t2 = t2
  buyMilk = buyMilk
  buyMilkToo = buyMilkToo
  v1 = v1
  v2 = v2
  work = work
  blank = blank
  none = none
  Thread = {t1, t2}
  Created <- MCCreated
  Blank = blank
  None = none
  Slug <- MCSlug
  Evidence <- MCEvidence
  Answers <- MCAnswers
  AboutYou <- MCAboutYou
  Corrections = {v2}
  InTitle <- MCInTitle
  Logs <- MCLogs
  RecentEntries = 2
  WakeupLimit = 2
  MaxIds = 5
INVARIANT
  MemoryInv
PROPERTIES
  InvalidationsTold
  CommitmentsFollowThread
CHECK_DEADLOCK FALSE

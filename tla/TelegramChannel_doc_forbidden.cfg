SPECIFICATION Spec
CONSTANTS
  project = project
  private = private
  hello = hello
  status = status
  blank = blank
  none = none
  done = done
  c1 = c1
  c2 = c2
  u1 = u1
  u2 = u2
  owner = owner
  Words <- MCWords
  Blank = blank
  None = none
  Owner = owner
  Chat = {c1, c2}
  User = {u1, u2}
  Senders = {u1, none}
  Persons <- MCPersons
  Situations <- MCSituations
  Askers <- MCAskers
  Answers <- MCAnswers
  DoneText = done
  MaxTurns = 2
  MaxFaults = 1
  MaxSaves = 2
INVARIANT
  ForbiddenNeverTold
CHECK_DEADLOCK FALSE

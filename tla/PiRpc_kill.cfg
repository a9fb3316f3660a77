SPECIFICATION FairSpec
CONSTANTS
  r1 = r1
  u1 = u1
  n1 = n1
  k1 = k1
  None = None
  Requests = {r1}
  Untimed = {}
  Notes = {}
  Killers = {k1}
  StderrCapacity = 1
  MaxStderr = 0
  MaxLines = 0
CHECK_DEADLOCK FALSE
PROPERTY KillEnds

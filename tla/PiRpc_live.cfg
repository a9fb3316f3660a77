SPECIFICATION FairSpec
CONSTANTS
  r1 = r1
  u1 = u1
  n1 = n1
  k1 = k1
  None = None
  Requests = {r1, u1}
  Untimed = {u1}
  Notes = {}
  Killers = {}
  StderrCapacity = 1
  MaxStderr = 0
  MaxLines = 1
CHECK_DEADLOCK FALSE
PROPERTY TimedRequestsEnd
PROPERTY ExitEndsInFlight
PROPERTY ExitReported

SPECIFICATION Spec
CONSTANTS
  r1 = r1
  u1 = u1
  n1 = n1
  k1 = k1
  None = None
  Requests = {r1, u1}
  Untimed = {u1}
  Notes = {n1}
  Killers = {k1}
  StderrCapacity = 1
  MaxStderr = 2
  MaxLines = 0
CHECK_DEADLOCK FALSE
INVARIANT TypeOK
INVARIANT WaitingHasSender
INVARIANT PendingIsOpen
INVARIANT AnswerOnce
INVARIANT StrayOnlyLate
INVARIANT DiagnosticComplete
PROPERTY ImplementsRequestService

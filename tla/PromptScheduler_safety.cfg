SPECIFICATION Spec
CONSTANTS
  p1 = p1
  p2 = p2
  p3 = p3
  e1 = e1
  b1 = b1
  s1 = s1
  Prompts = {p1, p2, p3}
  Anonymous = {p3}
  SendNow = {p2}
  ExtMsgs = {e1}
  SteerMsgs = {e1}
  BridgeCmds = {b1}
  None = None
  CANCEL_IDLE_CONFIRMATIONS = 3
  Sessions = {s1}
  MaxCancels = 1
  Scenarios <- SafetyScenarios
CHECK_DEADLOCK FALSE
INVARIANT TypeOK
INVARIANT WaiterHeld
INVARIANT QueuedHasRow
INVARIANT RowRunsOnce
INVARIANT CancelBarrier
PROPERTY CancelAnswersAll
PROPERTY ImplementsService

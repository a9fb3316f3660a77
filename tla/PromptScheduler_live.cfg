SPECIFICATION FairSpec
CONSTANTS
  p1 = p1
  p2 = p2
  p3 = p3
  e1 = e1
  b1 = b1
  s1 = s1
  Prompts = {p1, p2}
  Anonymous = {}
  SendNow = {}
  ExtMsgs = {}
  SteerMsgs = {}
  BridgeCmds = {}
  None = None
  CANCEL_IDLE_CONFIRMATIONS = 2
  Sessions = {s1}
  MaxCancels = 1
  Scenarios <- LiveScenarios
CHECK_DEADLOCK FALSE
PROPERTY EveryPromptAnswered
PROPERTY CancelEnds
PROPERTY QueueDrains

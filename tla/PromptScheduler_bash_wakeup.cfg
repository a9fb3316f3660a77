SPECIFICATION FairSpec
CONSTANTS
  p1 = p1
  p2 = p2
  p3 = p3
  e1 = e1
  b1 = b1
  s1 = s1
  Prompts = {p1}
  Anonymous = {}
  SendNow = {}
  ExtMsgs = {}
  SteerMsgs = {}
  BridgeCmds = {}
  None = None
  CANCEL_IDLE_CONFIRMATIONS = 3
  Sessions = {s1}
  MaxCancels = 0
  Scenarios <- PromptDuringBash
CHECK_DEADLOCK FALSE
PROPERTY IdleQueueMoves

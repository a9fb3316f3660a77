\* Safety and the deferred exit, in five worlds.
SPECIFICATION FairSpec
CONSTANTS
  s1 = s1
  s2 = s2
  Sessions = {s1, s2}
  Start = s1
  None = None
  MaxActive = 2
  MaxSettled = 1
  Worlds <- SafeWorlds
INVARIANTS
  TypeOK
  GateMatches
  RestartFaithful
  PlanModeFollowsUser
  AwaitingWithinProgram
PROPERTY
  DeferredExitEnds

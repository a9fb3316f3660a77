\* Overlapping loads of two sessions, in five scenarios.
SPECIFICATION FairSpec
CONSTANTS
  s1 = s1
  s2 = s2
  s3 = s3
  t1 = t1
  t2 = t2
  Sessions = {s1, s2, s3}
  Start = s1
  None = None
  Loads = {t1, t2}
  Records <- SomeRecords
  Scenarios <- SwitchScenarios
INVARIANTS
  TypeOK
  TransitionOwned
  ReplayDelivered
  ShownOnce
PROPERTY
  TransitionEnds

\* The gate while Pi runs in plan mode, when a row is interjected.
SPECIFICATION Spec
CONSTANTS
  s1 = s1
  s2 = s2
  Sessions = {s1, s2}
  Start = s1
  None = None
  MaxActive = 2
  MaxSettled = 1
  Worlds <- InterjectWorlds
INVARIANT
  ActiveIsGated

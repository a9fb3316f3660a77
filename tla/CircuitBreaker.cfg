\* Two threads, three recorded outcomes, one probe slot.
SPECIFICATION Spec
SYMMETRY ThreadSymmetry
CONSTANTS
  Threads = {t1, t2}
  open_duration = 1
  window_duration = 1
  min_samples = 1
  error_rate_threshold = 50
  half_open_max_probes = 1
  MAX_WINDOW_ENTRIES = 2
  USIZE = 8
  MAX_TIME = 2
  MAX_RECORDS = 3
INVARIANTS
  WindowExact
  MirrorUnlessRaced
PROPERTIES
  ShedForCause
  OneTakeoverPerLease
  CoolDownUnlessStale

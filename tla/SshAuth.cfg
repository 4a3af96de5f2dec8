SPECIFICATION Spec
CONSTANTS
  Confs <- MCConfs
  Keys = {k1, k2}
  k1 = k1
  k2 = k2
  NoKey = NoKey
  Ttys = {t1, t2, t3}
  MaxAttempts = 4
  MaxSessions = 2
  FaultyChild = TRUE
INVARIANTS LoginEarned SameVerdict MonitorTrusts TtysReleased
CHECK_DEADLOCK FALSE

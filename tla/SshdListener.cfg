SPECIFICATION Spec
CONSTANTS
  Conns = {c1, c2, c3}
  c1 = c1
  c2 = c2
  c3 = c3
  NoConn = NoConn
  Source <- MCSource
  Unnamed = {c1}
  MaxStartups = 2
  Begin = 1
  Rate = 30
  PerSource = 1
  Signals = {"HUP", "TERM"}
  MaxHups = 1
INVARIANTS LimitHonoured RestartSafe
PROPERTIES SignalsHandled SlotsFreed
CHECK_DEADLOCK FALSE

SPECIFICATION Spec
CONSTANTS
  Window = 2
  Packet = 1
  RBuf = 1
  Written <- Data
  Ttys = {TRUE, FALSE}
  Timeouts = {}
  MayBreak = {}
INVARIANTS WindowHonoured
PROPERTIES SessionEnds
CHECK_DEADLOCK FALSE

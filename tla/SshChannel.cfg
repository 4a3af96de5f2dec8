SPECIFICATION Spec
CONSTANTS
  Window = 2
  Packet = 1
  RBuf = 1
  Written <- OneEach
  Ttys = {TRUE, FALSE}
  Timeouts = {"server"}
  MayBreak = {"stdout", "stderr"}
INVARIANTS NoProtocolError PacketOrder ExitStatusFirst OutputComplete
CHECK_DEADLOCK FALSE

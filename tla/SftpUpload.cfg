SPECIFICATION Spec
CONSTANTS
  Confs <- Uploads
  Size = 5
  Buflen = 2
  MinRead = 1
  NumRequests = 2
  Faults = {"write"}
  MaxFaults = 1
INVARIANT GotEverything
CHECK_DEADLOCK FALSE

SPECIFICATION Spec
CONSTANTS
  Confs <- MCConfs
  Size = 5
  Buflen = 2
  MinRead = 1
  NumRequests = 2
  Faults = {"open", "read", "write", "truncate", "close", "store", "interrupt"}
  MaxFaults = 2
INVARIANTS RepliesMatched CopyFaithful PrefixLeft
PROPERTIES TransferEnds
CHECK_DEADLOCK FALSE

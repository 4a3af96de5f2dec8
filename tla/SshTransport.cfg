SPECIFICATION Spec
CONSTANTS
  MaxData = 2
  MaxRekeys = 4
INVARIANTS EveryPacketHandled OnlyKexDuringRekey
PROPERTIES SessionIdFixed RekeyEnds StreamHolds
CHECK_DEADLOCK FALSE

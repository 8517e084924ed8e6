SPECIFICATION DispatchSpec
CONSTANTS
  MaxHops = 3
INVARIANTS NoBugReached  RemovalMirrorsInstall
   NoHopWithItsResolution 
CHECK_DEADLOCK FALSE

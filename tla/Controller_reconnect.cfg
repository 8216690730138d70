\* The caller, the reconnection and the gateway's outages, interleaved.
SPECIFICATION ControllerFairSpec
CONSTANTS
  Order <- MCOrder
  Analogue = {"position"}
  Values <- MCValues
  Deadband = 2
  Indices = {2, 3}
  MaxChanges = 3
  MaxOutages = 2
\* The caller may disconnect, and then nothing is left to do.
CHECK_DEADLOCK FALSE
INVARIANTS
  ControllerTypeOK
  DriftIsSeen
  ClosedStaysClosed
  NodesAreCurrent
PROPERTIES
  FirstIsNews
  ViewCatchesUp

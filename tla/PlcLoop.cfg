\* The scan's deadlines and the masters' connections on one thread.
SPECIFICATION LoopSpec
CONSTANTS
  Masters = {gateway, m1, m2}
  Persistent = {gateway}
  MaxConnections = 2
  Period = 3
  ScanTimes = {1, 2, 4}
  EventTimes = {0, 1}
  Stalls = {7}
  MaxStalls = 1
INVARIANTS
  LoopTypeOK
  WithinLimit
  SeenSoon
PROPERTIES
  KeepsThePeriod
  GetsIn

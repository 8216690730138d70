\* A second master, in any interleaving.
SPECIFICATION HSpec
CONSTANTS
  MaxSpeed = 1
  RampMin = 1
  RampMax = 1
  MaxPosition = 0
  Duration <- MCDuration
  NaN = NaN
  SeqMax = 8
  Codes = {"START"}
  Setpoints = {}
  Forged = {}
  Ramps = {}
  InitialRamp = 1
  Faults = {"plcRestart", "gatewayRestart", "lostRead", "lostRequest"}
  MaxFaults = 1
  Callers = {c1}
  MaxCalls = 4
  MaxRogue = 3
CHECK_DEADLOCK FALSE
INVARIANTS
  NoFalseAlarm
  StrangerIsNoticed
PROPERTY KeepsPromise

\* Two calls at a time on the one link: every call returns, whatever is lost.
SPECIFICATION HFairSpec
CONSTANTS
  MaxSpeed = 1
  RampMin = 1
  RampMax = 1
  MaxPosition = 0
  Duration <- MCDuration
  NaN = NaN
  SeqMax = 2
  Codes = {"START"}
  Setpoints = {}
  Forged = {}
  Ramps = {}
  InitialRamp = 1
  Faults = {"overrun", "plcRestart", "gatewayRestart", "lostRequest", "lostRead", "lostWrite"}
  MaxFaults = 3
  Callers = {c1, c2}
  MaxCalls = 2
  MaxRogue = 0
CHECK_DEADLOCK FALSE
PROPERTIES
  KeepsPromise
  EveryCallReturns

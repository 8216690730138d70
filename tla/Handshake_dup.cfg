\* Two calls sample the same ack and use the same number.
SPECIFICATION HSpec
CONSTANTS
  MaxSpeed = 1
  RampMin = 1
  RampMax = 1
  MaxPosition = 0
  Duration <- MCDuration
  NaN = NaN
  SeqMax = 3
  Codes = {"START"}
  Setpoints = {}
  Forged = {}
  Ramps = {}
  InitialRamp = 1
  Faults = {}
  MaxFaults = 0
  Callers = {c1, c2}
  MaxCalls = 2
  MaxRogue = 0
CHECK_DEADLOCK FALSE
INVARIANT AckProvesOurs

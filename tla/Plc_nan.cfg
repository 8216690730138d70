\* A RampTime register may hold NaN, which the clamp lets through.
SPECIFICATION PlcSpec
CONSTANTS
  MaxSpeed = 2
  RampMin = 1
  RampMax = 2
  MaxPosition = 2
  Duration <- MCDuration
  NaN = NaN
  SeqMax = 2
  Codes = {"START"}
  Setpoints = {1}
  Forged <- MCForged
  Ramps <- MCRampsNaN
  InitialRamp = 1
  Faults = {}
  MaxFaults = 0
INVARIANT ScanSurvivesWrites

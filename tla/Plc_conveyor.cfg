\* The belt: masters write setpoints beyond max_speed, ramps outside the clamp,
\* START and STOP, and acks of their own, in any order.
SPECIFICATION PlcSpec
CONSTANTS
  MaxSpeed = 3
  RampMin = 1
  RampMax = 3
  MaxPosition = 0
  Duration <- MCDuration
  NaN = NaN
  SeqMax = 2
  Codes = {"START", "STOP"}
  Setpoints = {0, 4}
  Forged <- MCForged
  Ramps <- MCRamps
  InitialRamp = 2
  Faults = {"machine", "overrun"}
  MaxFaults = 1
INVARIANTS
  PlcTypeOK
PROPERTIES
  RampRespected
  SpeedSettles

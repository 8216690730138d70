\* One call at a time, every fault: the handshake's promise to a sole master.
SPECIFICATION HSpec
CONSTANTS
  MaxSpeed = 1
  RampMin = 1
  RampMax = 1
  MaxPosition = 0
  Duration <- MCDuration
  NaN = NaN
  SeqMax = 2
  Codes = {"START", "STOP", "CNC_RESET"}
  Setpoints = {}
  Forged = {}
  Ramps = {}
  InitialRamp = 1
  Faults = {"overrun", "plcRestart", "gatewayRestart", "lostRequest", "lostRead", "lostWrite"}
  MaxFaults = 3
  Callers = {c1}
  MaxCalls = 4
  MaxRogue = 0
CHECK_DEADLOCK FALSE
INVARIANTS
  HTypeOK
  AckProvesOurs
  NeverTwice
  AnswerStands
PROPERTY KeepsPromise

\* The cell and the belt under every command and one that does not exist, at
\* every point of the cycle, with faults; a ramp time that is NaN ends the
\* scan, and the Modbus server goes on.
SPECIFICATION PlcSpec
CONSTANTS
  MaxSpeed = 2
  RampMin = 1
  RampMax = 1
  MaxPosition = 0
  Duration <- MCDuration
  NaN = NaN
  SeqMax = 2
  Codes = {"START", "STOP", "BOGUS", "CNC_START", "CNC_RESET"}
  Setpoints = {}
  Forged <- MCForged
  Ramps <- MCRampsNaN
  InitialRamp = 1
  Faults = {"machine", "overrun", "plcRestart"}
  MaxFaults = 2
PROPERTIES
  OnlyCommandsSwitch
  CycleCompletes
  RefusalChangesNothing
  CommandsAreAnswered

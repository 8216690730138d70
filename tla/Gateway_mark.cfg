\* A refused write leaves a mark, and the next outage ends the gateway.
SPECIFICATION GatewaySpec
CONSTANTS
  Order <- MCOrder
  Writable = {"setpoint", "ramp"}
  StateSignal = "cnc"
  Declared = {"idle", "homing"}
  Words <- MCWords
  Boot <- MCBoot
  Requests <- MCMistyped
  MaxWrites = 2
  MaxChanges = 1
CHECK_DEADLOCK FALSE
INVARIANT OutageIsSurvived

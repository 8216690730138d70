\* The repository's client writes while signals change and the PLC comes and goes.
SPECIFICATION GatewayFairSpec
CONSTANTS
  Order <- MCOrder
  Writable = {"setpoint", "ramp"}
  StateSignal = "cnc"
  Declared = {"idle", "homing"}
  Words <- MCWords
  Boot <- MCBoot
  Requests <- MCSingles
  MaxWrites = 2
  MaxChanges = 2
\* The gateway may be stopped, and everything stops with it.
CHECK_DEADLOCK FALSE
INVARIANTS
  GatewayTypeOK
  GoodIffConfirmed
  AcceptedReachesPlc
  TransitionExplainsState
PROPERTIES
  PollNeverWrites
  NodesCatchUp
  Starts

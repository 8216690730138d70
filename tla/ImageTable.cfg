\* Crowded contracts, good and bad; then anything a master may ask.
SPECIFICATION ImageSpec
CONSTANTS
  Base = 2
  Contracts <- MCContracts
  InitialRamp = 9
  Published = {"position"}
  Values <- MCValues
  Commands <- MCCommands
  Foreign <- MCForeign
  MaxWrites = 3
\* A refused contract ends the process.
CHECK_DEADLOCK FALSE
INVARIANTS
  ImageTypeOK
  LoadedIsSound
  EachHoldsItsOwn
PROPERTIES
  PollReadsIt

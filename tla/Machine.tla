------------------------------ MODULE Machine ------------------------------
(***************************************************************************)
(* The physics the PLC drives (src/src/machine): a conveyor belt and a CNC *)
(* cell, both stepped by one scan period at a time.  There is no state     *)
(* here: each operator is one method, from the machine it is called on to  *)
(* the machine it leaves behind.                                           *)
(*                                                                         *)
(* Units.  One step is one scan period, so a time is a number of scans.  A *)
(* speed is a whole number of some fraction of the register's 0.001 m/s,   *)
(* as fine as one likes: nothing here depends on which.  (The rounding to  *)
(* register units is in Contract.)  Floats matter in one place only: a     *)
(* float32 register can hold a value that compares false with everything,  *)
(* which is what NaN is here.                                              *)
(***************************************************************************)
EXTENDS Integers

CONSTANTS
  MaxSpeed,     \* Conveyor.max_speed
  RampMin,      \* RAMP_TIME_MIN, in scans
  RampMax,      \* RAMP_TIME_MAX, in scans
  MaxPosition,  \* bound: the modelled belt counter saturates here
  Duration,     \* scans spent in each state of the CNC cycle
  NaN           \* the float that is not a number

CycleStates == {"HOMING", "LOADING", "RUNNING", "UNLOADING"}
CncStates   == CycleStates \cup {"IDLE", "FAULT"}

ASSUME MachineAssumption ==
  /\ RampMin \in Nat \ {0} /\ RampMax \in Nat /\ RampMin <= RampMax
  /\ MaxSpeed \in Nat
  /\ MaxPosition \in Nat
  /\ Duration \in [CycleStates -> Nat \ {0}]
  /\ NaN \notin Int

\* A defect the runs must catch: only the short ramps are corrected.
BugClampRamp(ramp) ==
  IF ramp = NaN THEN NaN ELSE IF ramp < RampMin THEN RampMin ELSE ramp

(***************************************************************************)
(* Python's min(max(ramp, MIN), MAX): each comparison with NaN is false,   *)
(* and both functions then keep their first argument.                      *)
(***************************************************************************)
ClampRamp(ramp) ==
  IF ramp = NaN THEN NaN
  ELSE IF ramp < RampMin THEN RampMin
  ELSE IF ramp > RampMax THEN RampMax
  ELSE ramp

----------------------------------------------------------------------------
(* The conveyor. *)

NewConveyor(ramp) ==
  [ setpoint |-> 0, ramp |-> ramp, running |-> FALSE, fault |-> FALSE,
    speed |-> 0, position |-> 0 ]

Target(belt) == IF belt.running /\ ~belt.fault THEN belt.setpoint ELSE 0

\* How far the speed may move in one scan: (max_speed / ramp_time) * dt.  In a
\* coarse unit this may be 0 where the code's float is not.
MaxDelta(ramp) == MaxSpeed \div ramp

\* A defect the runs must catch: the belt stops dead instead of ramping down.
BugNextSpeed(belt) ==
  IF belt.ramp = NaN \/ belt.speed = NaN THEN NaN
  ELSE IF Target(belt) - belt.speed > MaxDelta(belt.ramp)
       THEN belt.speed + MaxDelta(belt.ramp)
       ELSE Target(belt)

NextSpeed(belt) ==
  IF belt.ramp = NaN \/ belt.speed = NaN THEN NaN
  ELSE LET max == MaxDelta(belt.ramp)
           t   == Target(belt)
       IN  IF t - belt.speed > max THEN belt.speed + max
           ELSE IF belt.speed - t > max THEN belt.speed - max
           ELSE t

NextPosition(belt, speed) ==
  IF speed = NaN \/ belt.position = NaN THEN NaN
  ELSE IF belt.position + speed > MaxPosition THEN MaxPosition
  ELSE belt.position + speed

ConveyorStep(belt) ==
  [belt EXCEPT !.speed    = NextSpeed(belt),
               !.position = NextPosition(belt, NextSpeed(belt))]

----------------------------------------------------------------------------
(* The CNC cell. *)

NewCnc == [state |-> "IDLE", elapsed |-> 0]

CncFault(cell) == [state |-> "FAULT", elapsed |-> 0]

CncStart(cell) ==
  IF cell.state = "IDLE" THEN [state |-> "HOMING", elapsed |-> 0] ELSE cell

CncReset(cell) ==
  IF cell.state = "FAULT" THEN [state |-> "IDLE", elapsed |-> 0] ELSE cell

\* A defect the runs must catch: the order wraps round on itself.
BugSuccessor ==
  [HOMING |-> "LOADING", LOADING |-> "RUNNING",
   RUNNING |-> "UNLOADING", UNLOADING |-> "HOMING"]

\* CYCLE_ORDER, and back to idle after its last state.
Successor ==
  [HOMING |-> "LOADING", LOADING |-> "RUNNING",
   RUNNING |-> "UNLOADING", UNLOADING |-> "IDLE"]

\* The state has lasted as long as it should.
TimeUp(cell) == cell.elapsed + 1 >= Duration[cell.state]

CncStep(cell) ==
  IF cell.state \notin CycleStates THEN cell
  ELSE IF TimeUp(cell)
       THEN [state |-> Successor[cell.state], elapsed |-> 0]
       ELSE [cell EXCEPT !.elapsed = @ + 1]
============================================================================

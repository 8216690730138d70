----------------------------- MODULE PlcProofs -----------------------------
(***************************************************************************)
(* The PLC for every ramp, speed, sequence width and duration: its types,  *)
(* the ramp's bound on a step, and what commands may switch.               *)
(***************************************************************************)
EXTENDS Plc, TLAPS

----------------------------------------------------------------------------
(* The machines. *)

\* Whatever is written to the register, the clamp yields a ramp of its range.
LEMMA ClampedRamp ==
  ASSUME NEW r \in Int \cup {NaN}
  PROVE  /\ ClampRamp(r) \in (RampMin .. RampMax) \cup {NaN}
         /\ r # NaN => ClampRamp(r) \in RampMin .. RampMax
  BY MachineAssumption DEF ClampRamp

\* One step's slope is a number of register units.
LEMMA SlopeIsNat ==
  ASSUME NEW r \in RampMin .. RampMax
  PROVE  MaxDelta(r) \in Nat
  BY MachineAssumption DEF MaxDelta

\* The shortest ramp is the steepest.
LEMMA SteepestSlope ==
  ASSUME NEW r \in RampMin .. RampMax
  PROVE  MaxDelta(r) <= MaxDelta(RampMin)
<1> DEFINE q == MaxSpeed \div r
           p == MaxSpeed \div RampMin
<1>1. /\ r \in Nat /\ r >= RampMin /\ RampMin \in Nat /\ RampMin > 0
      /\ MaxSpeed \in Nat
  BY MachineAssumption
<1>2. q \in Nat /\ r * q <= MaxSpeed
  BY <1>1
<1>3. p \in Nat /\ RampMin * (p + 1) > MaxSpeed
  BY <1>1
<1>4. RampMin * q <= r * q
  BY <1>1, <1>2
<1>5. SUFFICES ASSUME q >= p + 1 PROVE FALSE
  BY <1>2, <1>3 DEF MaxDelta
<1>6. RampMin * q >= RampMin * (p + 1)
  BY <1>1, <1>2, <1>3, <1>5
<1>7. RampMin * q \in Nat /\ r * q \in Nat /\ RampMin * (p + 1) \in Nat
  BY <1>1, <1>2, <1>3
<1>8. QED
  BY <1>1, <1>2, <1>3, <1>4, <1>6, <1>7

Belts ==
  [setpoint : Nat, ramp : (RampMin .. RampMax) \cup {NaN},
   running : BOOLEAN, fault : BOOLEAN, speed : Speeds, position : Positions]

Cells == [state : CncStates, elapsed : Nat]

\* A belt stepped is a belt.
LEMMA ConveyorStepType ==
  ASSUME NEW belt \in Belts
  PROVE  ConveyorStep(belt) \in Belts
<1>1. NextSpeed(belt) \in Speeds
  <2>1. CASE belt.ramp = NaN \/ belt.speed = NaN
    BY <2>1 DEF NextSpeed, Speeds
  <2>2. CASE belt.ramp # NaN /\ belt.speed # NaN
    <3>1. belt.ramp \in RampMin .. RampMax /\ belt.speed \in Nat /\ Target(belt) \in Nat
      BY <2>2 DEF Belts, Speeds, Target
    <3>2. MaxDelta(belt.ramp) \in Nat
      BY <3>1, SlopeIsNat
    <3>3. QED
      BY <2>2, <3>1, <3>2 DEF NextSpeed, Speeds
  <2>3. QED
    BY <2>1, <2>2
<1>2. NextPosition(belt, NextSpeed(belt)) \in Positions
  <2>1. belt.position \in (0 .. MaxPosition) \cup {NaN}
    BY DEF Belts, Positions
  <2>2. QED
    BY <1>1, <2>1, MachineAssumption DEF NextPosition, Speeds, Positions
<1>3. QED
  BY <1>1, <1>2 DEF ConveyorStep, Belts

\* A cell stepped is a cell.
LEMMA CncStepType ==
  ASSUME NEW cell \in Cells
  PROVE  CncStep(cell) \in Cells
  BY DEF CncStep, Cells, CncStates, CycleStates, Successor

\* A belt with a real ramp moves its speed by no more than the steepest slope.
LEMMA StepBounded ==
  ASSUME NEW belt \in Belts, belt.ramp # NaN, belt.speed # NaN
  PROVE  /\ NextSpeed(belt) \in Nat
         /\ NextSpeed(belt) - belt.speed <= MaxDelta(RampMin)
         /\ belt.speed - NextSpeed(belt) <= MaxDelta(RampMin)
<1>1. belt.ramp \in RampMin .. RampMax /\ belt.speed \in Nat /\ Target(belt) \in Nat
  BY DEF Belts, Speeds, Target
<1>2. /\ MaxDelta(belt.ramp) \in Nat /\ MaxDelta(RampMin) \in Nat
      /\ MaxDelta(belt.ramp) <= MaxDelta(RampMin)
  BY <1>1, SlopeIsNat, SteepestSlope, MachineAssumption
<1>3. QED
  BY <1>1, <1>2 DEF NextSpeed

----------------------------------------------------------------------------
(* Types. *)

\* What write_outputs() drives the belt with.
LEMMA DrivenConveyorType ==
  ASSUME PlcTypeOK
  PROVE  DrivenConveyor \in Belts
<1>1. ClampRamp(params.ramp) \in (RampMin .. RampMax) \cup {NaN}
  BY ClampedRamp DEF PlcTypeOK
<1>2. BeltRuns \in BOOLEAN
  BY DEF BeltRuns, Obeys
<1>3. conveyor \in Belts /\ params.setpoint \in Nat
  BY DEF PlcTypeOK, Belts
<1>4. QED
  BY <1>1, <1>2, <1>3 DEF DrivenConveyor, Belts

\* ... and the cell.
LEMMA DrivenCncType ==
  ASSUME PlcTypeOK
  PROVE  DrivenCnc \in Cells
  BY DEF PlcTypeOK, DrivenCnc, CncStart, CncReset, Cells, CncStates, CycleStates

\* One scan keeps the types.
LEMMA ScanBodyType ==
  ASSUME PlcTypeOK, ScanBody
  PROVE  /\ params' = params /\ cmd' = cmd
         /\ ack' \in [seq : Seq16, result : AckResults, id : Int]
         /\ handled' \subseteq Int
         /\ conveyor' \in Belts /\ cnc' \in Cells
         /\ input' \in [speed : Nat, position : Positions, cnc : CncStates]
<1>1. conveyor' \in Belts
  BY DrivenConveyorType, ConveyorStepType DEF ScanBody
<1>2. cnc' \in Cells
  BY DrivenCncType, CncStepType DEF ScanBody
<1>3. Verdict \in AckResults
  BY DEF Verdict, AckResults
<1>4. /\ ack' \in [seq : Seq16, result : AckResults, id : Int]
      /\ handled' \subseteq Int
  <2>1. Acknowledge /\ cmd.seq \in Seq16 /\ cmd.id \in Int
    BY DEF ScanBody, PlcTypeOK
  <2>2. CASE Answers
    <3>1. /\ ack' = [seq |-> cmd.seq, result |-> Verdict, id |-> cmd.id]
          /\ handled' = handled \cup {cmd.id}
      BY <2>1, <2>2 DEF Acknowledge
    <3>2. handled \subseteq Int
      BY DEF PlcTypeOK
    <3>3. QED
      BY <1>3, <2>1, <3>1, <3>2
  <2>3. CASE ~Answers
    BY <2>1, <2>3 DEF Acknowledge, PlcTypeOK
  <2>4. QED
    BY <2>2, <2>3
<1>5. input' \in [speed : Nat, position : Positions, cnc : CncStates]
  BY DEF ScanBody, Encodable, PlcTypeOK, Speeds
<1>6. QED
  BY <1>1, <1>2, <1>4, <1>5 DEF ScanBody

LEMMA BootType ==
  /\ BootParams \in [setpoint : Nat, ramp : Int \cup {NaN}]
  /\ BootCmd \in [code : Codes \cup {"NONE"}, seq : Seq16, id : Int]
  /\ BootAck \in [seq : Seq16, result : AckResults, id : Int]
  /\ BootInput \in [speed : Nat, position : Positions, cnc : CncStates]
  /\ NewConveyor(InitialRamp) \in Belts
  /\ NewCnc \in Cells
<1> USE MachineAssumption, PlcAssumption
<1>1. InitialRamp \in RampMin .. RampMax /\ InitialRamp \in Int /\ 0 \in Seq16
  BY DEF Seq16
<1>2. 0 \in Positions /\ 0 \in Speeds
  BY DEF Positions, Speeds
<1>3. QED
  BY <1>1, <1>2 DEF BootParams, BootCmd, BootAck, BootInput, BootId, NewConveyor,
     NewCnc, Belts, Cells, CncStates, AckResults

LEMMA PlcTypeInit == PlcInit => PlcTypeOK
  BY BootType, PlcAssumption DEF PlcInit, PlcTypeOK, Belts, Cells

\* The steps of the PLC process itself.
LEMMA PlcStepType ==
  ASSUME PlcTypeOK, PlcStep
  PROVE  PlcTypeOK'
<1>1. CASE Scan
  BY <1>1, ScanBodyType DEF Scan, PlcTypeOK, Belts, Cells
<1>2. CASE Overrun
  BY <1>2, ScanBodyType, PlcAssumption DEF Overrun, Fault, PlcTypeOK, Belts, Cells
<1>3. CASE ScanCrash
  BY <1>3 DEF ScanCrash, PlcTypeOK
<1>4. QED
  BY <1>1, <1>2, <1>3 DEF PlcStep

\* Faults of the machines, and a restart of the process.
LEMMA MachineFaultType ==
  ASSUME PlcTypeOK, MachineFault
  PROVE  PlcTypeOK'
<1>1. conveyor \in Belts /\ cnc \in Cells
  BY DEF PlcTypeOK, Belts, Cells
<1>2. conveyor' \in Belts
  <2>1. [conveyor EXCEPT !.fault = TRUE] \in Belts
    BY <1>1 DEF Belts
  <2>2. QED
    BY <1>1, <2>1 DEF MachineFault
<1>3. cnc' \in Cells
  BY <1>1 DEF MachineFault, CncFault, Cells, CncStates
<1>4. faults' \in 0 .. MaxFaults
  BY PlcAssumption DEF MachineFault, Fault, PlcTypeOK
<1>5. QED
  BY <1>2, <1>3, <1>4 DEF MachineFault, PlcTypeOK, Belts, Cells

LEMMA PlcRestartType ==
  ASSUME PlcTypeOK, PlcRestart
  PROVE  PlcTypeOK'
  BY BootType, PlcAssumption DEF PlcRestart, Fault, PlcTypeOK, Belts, Cells

\* A command written by any master.
LEMMA WriteCommandType ==
  ASSUME PlcTypeOK, NEW cc \in Codes, NEW s \in Seq16, NEW i \in Int,
         WriteCommand(cc, s, i)
  PROVE  cmd' \in [code : Codes \cup {"NONE"}, seq : Seq16, id : Int]
  BY DEF WriteCommand

LEMMA MasterWriteType ==
  ASSUME PlcTypeOK, MasterWrite
  PROVE  PlcTypeOK'
<1>1. ASSUME NEW v \in Setpoints, WriteSetpoint(v)
      PROVE  PlcTypeOK'
  BY <1>1, PlcAssumption DEF WriteSetpoint, PlcTypeOK
<1>2. ASSUME NEW r \in Ramps, WriteRamp(r)
      PROVE  PlcTypeOK'
  BY <1>2, PlcAssumption DEF WriteRamp, PlcTypeOK
<1>3. ASSUME NEW cc \in Codes, NEW s \in Seq16, WriteCommand(cc, s, Foreign),
             UNCHANGED <<params, ack, input, conveyor, cnc, scanner, handled, faults>>
      PROVE  PlcTypeOK'
  BY <1>3, WriteCommandType DEF Foreign, PlcTypeOK
<1>4. ASSUME NEW f \in Forged, WriteAck(f)
      PROVE  PlcTypeOK'
  BY <1>4, PlcAssumption DEF WriteAck, Foreign, PlcTypeOK
<1>5. QED
  BY <1>1, <1>2, <1>3, <1>4 DEF MasterWrite

(* Whatever masters write, every register and every machine holds a value  *)
(* of its kind: no arithmetic of the scan leaves its range.                *)
THEOREM PlcTypeCorrect == PlcSpec => []PlcTypeOK
<1>1. PlcTypeOK /\ [PlcNext]_plcVars => PlcTypeOK'
  <2> SUFFICES ASSUME PlcTypeOK, [PlcNext]_plcVars
               PROVE  PlcTypeOK'
    OBVIOUS
  <2>1. CASE UNCHANGED plcVars
    BY <2>1 DEF plcVars, PlcTypeOK
  <2>2. QED
    BY <2>1, PlcStepType, MachineFaultType, PlcRestartType, MasterWriteType
    DEF PlcNext
<1>2. QED
  BY PlcTypeInit, <1>1, PTL DEF PlcSpec

----------------------------------------------------------------------------
(* The ramp. *)

\* While no master writes NaN, nothing in the process becomes NaN.
NumbersOnly ==
  /\ params.ramp # NaN
  /\ conveyor.ramp # NaN
  /\ conveyor.speed # NaN

LEMMA NumbersOnlyInit == PlcInit => NumbersOnly
  BY MachineAssumption, PlcAssumption
  DEF PlcInit, NumbersOnly, BootParams, NewConveyor

\* What a scan makes of the speed, and by how much.
LEMMA ScanBodyNumbers ==
  ASSUME PlcTypeOK, NumbersOnly, ScanBody
  PROVE  /\ NumbersOnly'
         /\ conveyor'.speed - conveyor.speed <= MaxDelta(RampMin)
         /\ conveyor.speed - conveyor'.speed <= MaxDelta(RampMin)
<1>1. DrivenConveyor \in Belts
  BY DrivenConveyorType
<1>2. /\ DrivenConveyor.ramp = ClampRamp(params.ramp)
      /\ DrivenConveyor.speed = conveyor.speed
  BY DEF DrivenConveyor, PlcTypeOK
<1>3. ClampRamp(params.ramp) # NaN
  <2>1. params.ramp \in Int
    BY DEF PlcTypeOK, NumbersOnly
  <2>2. ClampRamp(params.ramp) \in RampMin .. RampMax
    BY <2>1, ClampedRamp, MachineAssumption
  <2>3. QED
    BY <2>2, MachineAssumption
<1>4. DrivenConveyor.ramp # NaN /\ DrivenConveyor.speed # NaN
  BY <1>2, <1>3 DEF NumbersOnly
<1>5. /\ NextSpeed(DrivenConveyor) \in Nat
      /\ NextSpeed(DrivenConveyor) - conveyor.speed <= MaxDelta(RampMin)
      /\ conveyor.speed - NextSpeed(DrivenConveyor) <= MaxDelta(RampMin)
  BY <1>1, <1>2, <1>4, StepBounded
<1>6. /\ conveyor'.speed = NextSpeed(DrivenConveyor)
      /\ conveyor'.ramp = DrivenConveyor.ramp
  BY <1>1 DEF ScanBody, ConveyorStep, Belts
<1>7. QED
  BY <1>4, <1>5, <1>6, MachineAssumption DEF ScanBody, NumbersOnly

\* Everybody else's steps leave numbers numbers.
LEMMA OthersNumbers ==
  ASSUME NaN \notin Ramps, PlcTypeOK, NumbersOnly,
         ScanCrash \/ MachineFault \/ PlcRestart \/ MasterWrite \/ UNCHANGED plcVars
  PROVE  NumbersOnly'
<1>1. CASE ScanCrash
  BY <1>1 DEF ScanCrash, NumbersOnly
<1>2. CASE MachineFault
  BY <1>2 DEF MachineFault, NumbersOnly, PlcTypeOK
<1>3. CASE PlcRestart
  BY <1>3, MachineAssumption, PlcAssumption
  DEF PlcRestart, NumbersOnly, BootParams, NewConveyor
<1>4. CASE MasterWrite
  <2>1. ASSUME NEW v \in Setpoints, WriteSetpoint(v)
        PROVE  NumbersOnly'
    BY <2>1 DEF WriteSetpoint, NumbersOnly, PlcTypeOK
  <2>2. ASSUME NEW r \in Ramps, WriteRamp(r)
        PROVE  NumbersOnly'
    BY <2>2 DEF WriteRamp, NumbersOnly, PlcTypeOK
  <2>3. ASSUME NEW f \in Forged, WriteAck(f)
        PROVE  NumbersOnly'
    BY <2>3 DEF WriteAck, NumbersOnly
  <2>4. QED
    BY <1>4, <2>1, <2>2, <2>3 DEF MasterWrite, NumbersOnly
<1>5. CASE UNCHANGED plcVars
  BY <1>5 DEF plcVars, NumbersOnly
<1>6. QED
  BY <1>1, <1>2, <1>3, <1>4, <1>5

(* The clamp does what scan.py says it is for: as long as no master writes *)
(* NaN, whatever else masters write, zero and negative ramp times included *)
(* and in whatever order, no scan moves the belt's speed by more than the  *)
(* shortest allowed ramp does.                                             *)
THEOREM RampIsRespected ==
  ASSUME NaN \notin Ramps
  PROVE  PlcSpec => RampRespected
<1>1. PlcTypeOK /\ NumbersOnly /\ [PlcNext]_plcVars => NumbersOnly'
  <2> SUFFICES ASSUME PlcTypeOK, NumbersOnly, [PlcNext]_plcVars
               PROVE  NumbersOnly'
    OBVIOUS
  <2>1. ScanBody => NumbersOnly'
    BY ScanBodyNumbers
  <2>2. QED
    BY <2>1, OthersNumbers DEF PlcNext, PlcStep, Scan, Overrun
<1>2. PlcTypeOK /\ NumbersOnly /\ [PlcNext]_plcVars =>
        [PlcStep => /\ conveyor'.speed - conveyor.speed <= MaxDelta(RampMin)
                    /\ conveyor.speed - conveyor'.speed <= MaxDelta(RampMin)]_plcVars
  <2> SUFFICES ASSUME PlcTypeOK, NumbersOnly, PlcStep
               PROVE  /\ conveyor'.speed - conveyor.speed <= MaxDelta(RampMin)
                      /\ conveyor.speed - conveyor'.speed <= MaxDelta(RampMin)
    OBVIOUS
  <2>1. CASE ScanBody
    BY <2>1, ScanBodyNumbers
  <2>2. CASE ScanCrash
    BY <2>2 DEF ScanCrash, Encodable, NumbersOnly
  <2>3. QED
    BY <2>1, <2>2 DEF PlcStep, Scan, Overrun
<1>3. QED
  BY PlcTypeCorrect, NumbersOnlyInit, <1>1, <1>2, PTL DEF PlcSpec, RampRespected

(* NaN is the only value that ends the scan: if no master writes it, none  *)
(* of the values masters write does (the run of ScanSurvivesWrites shows   *)
(* what happens when one writes it).                                       *)
THEOREM OnlyNaNEndsTheScan ==
  ASSUME NaN \notin Ramps
  PROVE  PlcSpec => []ScanSurvivesWrites
<1>1. PlcInit => ScanSurvivesWrites
  BY DEF PlcInit, ScanSurvivesWrites
<1>2. PlcTypeOK /\ NumbersOnly /\ [PlcNext]_plcVars => NumbersOnly'
  BY ScanBodyNumbers, OthersNumbers DEF PlcNext, PlcStep, Scan, Overrun
<1>3. NumbersOnly /\ ScanSurvivesWrites /\ [PlcNext]_plcVars => ScanSurvivesWrites'
  BY DEF NumbersOnly, ScanSurvivesWrites, PlcNext, PlcStep, Scan, Overrun, ScanCrash,
         Encodable, MachineFault, PlcRestart, MasterWrite, WriteSetpoint, WriteRamp,
         WriteAck,
         plcVars
<1>4. QED
  BY PlcTypeCorrect, NumbersOnlyInit, <1>1, <1>2, <1>3, PTL DEF PlcSpec

----------------------------------------------------------------------------
(* Commands. *)

\* A scan that carries nothing out leaves the belt's switch, and steps the cell.
LEMMA IdleScan ==
  ASSUME PlcTypeOK, ScanBody, \A cc \in CmdCodes : ~Obeys(cc)
  PROVE  conveyor'.running = conveyor.running /\ cnc' = CncStep(cnc)
<1>1. ~Obeys("START") /\ ~Obeys("STOP") /\ ~Obeys("CNC_START") /\ ~Obeys("CNC_RESET")
  BY DEF CmdCodes
<1>2. conveyor.running \in BOOLEAN
  BY DEF PlcTypeOK
<1>3. BeltRuns = conveyor.running
  BY <1>1, <1>2 DEF BeltRuns, StartsBelt
<1>4. DrivenConveyor.running = BeltRuns /\ DrivenConveyor \in Belts
  BY DrivenConveyorType DEF DrivenConveyor, PlcTypeOK
<1>5. conveyor'.running = DrivenConveyor.running
  BY <1>4 DEF ScanBody, ConveyorStep, Belts
<1>6. DrivenCnc = cnc
  BY <1>1 DEF DrivenCnc
<1>7. QED
  BY <1>3, <1>4, <1>5, <1>6 DEF ScanBody

(* The edge of the handshake, for every interleaving of masters: a scan    *)
(* that acknowledges nothing starts nothing and stops nothing.             *)
THEOREM CommandsAreEdges == PlcSpec => OnlyCommandsSwitch
<1>1. PlcTypeOK /\ [PlcNext]_plcVars =>
        [PlcStep /\ ack'.seq = ack.seq =>
           /\ conveyor'.running = conveyor.running
           /\ cnc.state \in {"IDLE", "FAULT"} => cnc' = cnc]_plcVars
  <2> SUFFICES ASSUME PlcTypeOK, PlcStep, ack'.seq = ack.seq
               PROVE  /\ conveyor'.running = conveyor.running
                      /\ cnc.state \in {"IDLE", "FAULT"} => cnc' = cnc
    OBVIOUS
  <2>1. CASE ScanBody
    <3>1. ~Pending
      BY <2>1 DEF ScanBody, Acknowledge, Answers, Pending
    <3>2. conveyor'.running = conveyor.running /\ cnc' = CncStep(cnc)
      BY <2>1, <3>1, IdleScan DEF Obeys
    <3>3. QED
      BY <3>2 DEF CncStep, CycleStates
  <2>2. CASE ScanCrash
    BY <2>2 DEF ScanCrash
  <2>3. QED
    BY <2>1, <2>2 DEF PlcStep, Scan, Overrun
<1>2. QED
  BY PlcTypeCorrect, <1>1, PTL DEF PlcSpec, OnlyCommandsSwitch

(* A refused command switches nothing and disturbs no cycle, whatever the  *)
(* machines were doing and whoever wrote it.                               *)
THEOREM RefusalsAreHarmless == PlcSpec => RefusalChangesNothing
<1>1. PlcTypeOK /\ [PlcNext]_plcVars =>
        [PlcStep /\ ack' # ack /\ ack'.result # "OK" =>
           /\ conveyor'.running = conveyor.running
           /\ cnc' = CncStep(cnc)]_plcVars
  <2> SUFFICES ASSUME PlcTypeOK, PlcStep, ack' # ack, ack'.result # "OK"
               PROVE  conveyor'.running = conveyor.running /\ cnc' = CncStep(cnc)
    OBVIOUS
  <2>1. CASE ScanBody
    <3>1. ack' = [seq |-> cmd.seq, result |-> Verdict, id |-> cmd.id]
      BY <2>1 DEF ScanBody, Acknowledge
    <3>2. Verdict # "OK"
      BY <3>1
    <3>3. QED
      BY <2>1, <3>2, IdleScan DEF Obeys
  <2>2. CASE ScanCrash
    BY <2>2 DEF ScanCrash
  <2>3. QED
    BY <2>1, <2>2 DEF PlcStep, Scan, Overrun
<1>2. QED
  BY PlcTypeCorrect, <1>1, PTL DEF PlcSpec, RefusalChangesNothing

============================================================================

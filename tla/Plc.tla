-------------------------------- MODULE Plc --------------------------------
(***************************************************************************)
(* The PLC process (src/src/plc): the image tables a Modbus master writes, *)
(* the machines, and the scan that connects the two.                       *)
(*                                                                         *)
(* The process is one asyncio loop.  A Modbus request and a scan each run  *)
(* to completion without awaiting, so each is one action here, and they    *)
(* interleave freely.  Only when the scan period is overrun, or a scan     *)
(* raises, does the loop stop scanning; it goes on answering Modbus.       *)
(*                                                                         *)
(* Every write of the command block carries an `id' that is not on the     *)
(* wire: it says which command this is, so that a property can tell whose  *)
(* command an acknowledgement answers.                                     *)
(***************************************************************************)
EXTENDS Machine

CONSTANTS
  SeqMax,        \* largest sequence number, 0xFFFF
  Codes,         \* command codes written in this instance
  Setpoints,     \* values written to the SpeedSetpoint register
  Ramps,         \* values written to the RampTime register
  Forged,        \* acks another master writes over the PLC's own
  InitialRamp,   \* the ramp_time the conveyor is built with
  Faults,        \* kinds of fault the environment may inject
  MaxFaults      \* bound: how many of them, in all

VARIABLES
  params,        \* the setpoint and ramp-time holding registers
  cmd,           \* the command block, and the id of the command in it
  ack,           \* the ack block, and the id of the command it answers
  input,         \* the input registers, which only a scan writes
  conveyor, cnc, \* the machines
  scanner,       \* is Plc.run still scanning, and if not, why
  handled,       \* history: ids of the commands handled since the PLC started
  faults         \* how many faults have been injected

plcVars == <<params, cmd, ack, input, conveyor, cnc, scanner, handled, faults>>

Seq16      == 0 .. SeqMax
AckResults == {"OK", "RANGE", "STATE"}
CmdCodes   == {"START", "STOP", "CNC_START", "CNC_RESET"}
BootId     == 0      \* nobody's command: what the blocks hold after a boot
Foreign    == -1     \* a command some other master wrote
FaultKinds == {"overrun", "machine", "plcRestart", "gatewayRestart",
               "lostRequest", "lostRead", "lostWrite"}

ASSUME PlcAssumption ==
  /\ SeqMax \in Nat /\ SeqMax >= 2
  /\ Setpoints \subseteq Nat
  /\ Ramps \subseteq Int \cup {NaN}
  /\ Forged \subseteq [seq : Seq16, result : AckResults]
  /\ InitialRamp \in RampMin .. RampMax
  /\ Faults \subseteq FaultKinds
  /\ MaxFaults \in Nat

\* What the process holds when it has just started.
BootParams == [setpoint |-> 0, ramp |-> InitialRamp]
BootCmd    == [code |-> "NONE", seq |-> 0, id |-> BootId]
BootAck    == [seq |-> 0, result |-> "OK", id |-> BootId]
BootInput  == [speed |-> 0, position |-> 0, cnc |-> "IDLE"]

PlcInit ==
  /\ params   = BootParams
  /\ cmd      = BootCmd
  /\ ack      = BootAck
  /\ input    = BootInput
  /\ conveyor = NewConveyor(InitialRamp)
  /\ cnc      = NewCnc
  /\ scanner  = "running"
  /\ handled  = {}
  /\ faults   = 0

\* A fault of this kind happens now; the budget is the model's, not the code's.
Fault(kind) ==
  /\ kind \in Faults
  /\ faults < MaxFaults
  /\ faults' = faults + 1

----------------------------------------------------------------------------
(* Modbus writes: PlcContext.async_setValues stores the registers and      *)
(* returns; nothing else happens until the next scan.                      *)

WriteSetpoint(v) ==
  /\ params' = [params EXCEPT !.setpoint = v]
  /\ UNCHANGED <<cmd, ack, input, conveyor, cnc, scanner, handled, faults>>

WriteRamp(r) ==
  /\ params' = [params EXCEPT !.ramp = r]
  /\ UNCHANGED <<cmd, ack, input, conveyor, cnc, scanner, handled, faults>>

\* FC16 over the whole block: the PLC never holds half of a command.
WriteCommand(code, seq, id) ==
  cmd' = [code |-> code, seq |-> seq, id |-> id]

\* The ack block is holding registers like any other: a master may forge one.
WriteAck(f) ==
  /\ ack' = [seq |-> f.seq, result |-> f.result, id |-> Foreign]
  /\ UNCHANGED <<params, cmd, input, conveyor, cnc, scanner, handled, faults>>

----------------------------------------------------------------------------
(* The scan: read_inputs -> execute -> write_outputs -> step.              *)

\* A defect the runs must catch: a command is a level, not an edge.
BugPending == cmd.code # "NONE"

\* A command is new when its number differs from the one last acknowledged.
Pending == cmd.seq # ack.seq

\* What execute() answers to the command in the block.
Verdict ==
  CASE cmd.code = "START"     -> IF conveyor.fault THEN "STATE" ELSE "OK"
    [] cmd.code = "STOP"      -> "OK"
    [] cmd.code = "CNC_START" -> IF cnc.state = "IDLE" THEN "OK" ELSE "STATE"
    [] cmd.code = "CNC_RESET" -> IF cnc.state = "FAULT" THEN "OK" ELSE "STATE"
    [] OTHER                  -> "RANGE"

\* A defect the runs must catch: a command acts for as long as it stands.
BugObeys(code) == cmd.code = code /\ Verdict = "OK"

\* This scan carries out the command `code'.
Obeys(code) == Pending /\ cmd.code = code /\ Verdict = "OK"

\* A defect the runs must catch: START switches the belt on, allowed or not.
BugStartsBelt == conveyor.running \/ (Pending /\ cmd.code = "START")

\* A defect the runs must catch: STOP is answered and the belt runs on.
BugBeltRuns == conveyor.running \/ Obeys("START")

StartsBelt == conveyor.running \/ Obeys("START")

BeltRuns   == StartsBelt /\ ~Obeys("STOP")

\* write_outputs() on the machines, before they are stepped.
DrivenConveyor ==
  [conveyor EXCEPT
     !.setpoint = params.setpoint,
     !.ramp     = ClampRamp(params.ramp),
     !.running  = BeltRuns]

DrivenCnc ==
  IF Obeys("CNC_START") THEN CncStart(cnc)
  ELSE IF Obeys("CNC_RESET") THEN CncReset(cnc)
  ELSE cnc

\* A defect the runs must catch: what is refused is not acknowledged.
BugAnswers == Pending /\ Verdict = "OK"

Answers == Pending

\* The ack block is written in the same scan as the outputs it reports on.
Acknowledge ==
  IF Answers
  THEN /\ ack'     = [seq |-> cmd.seq, result |-> Verdict, id |-> cmd.id]
       /\ handled' = handled \cup {cmd.id}
  ELSE UNCHANGED <<ack, handled>>

\* _publish() encodes the speed the scan began with, and round(nan) raises.
Encodable == conveyor.speed # NaN

Scanning == scanner = "running"

ScanBody ==
  /\ Scanning
  /\ Encodable
  /\ conveyor' = ConveyorStep(DrivenConveyor)
  /\ cnc'      = CncStep(DrivenCnc)
  /\ input'    = [speed    |-> conveyor.speed,
                  position |-> conveyor.position,
                  cnc      |-> cnc.state]
  /\ Acknowledge
  /\ UNCHANGED <<params, cmd>>

Scan == ScanBody /\ UNCHANGED <<scanner, faults>>

\* The scan took longer than its period: it counts, and it is the last one.
Overrun ==
  /\ ScanBody
  /\ Fault("overrun")
  /\ scanner' = "tripped"

\* execute() raises: nothing is written and the scan task is gone.
ScanCrash ==
  /\ Scanning
  /\ ~Encodable
  /\ scanner' = "crashed"
  /\ UNCHANGED <<params, cmd, ack, input, conveyor, cnc, handled, faults>>

----------------------------------------------------------------------------
(* The environment. *)

\* Cnc.fault(), and the fault flag of the conveyor: the machine's own doing.
MachineFault ==
  /\ Fault("machine")
  /\ \/ /\ conveyor' = [conveyor EXCEPT !.fault = TRUE]
        /\ UNCHANGED cnc
     \/ /\ cnc' = CncFault(cnc)
        /\ UNCHANGED conveyor
  /\ UNCHANGED <<params, cmd, ack, input, scanner, handled>>

\* The process is killed and started again: nothing it held is kept.
PlcRestart ==
  /\ Fault("plcRestart")
  /\ params'   = BootParams
  /\ cmd'      = BootCmd
  /\ ack'      = BootAck
  /\ input'    = BootInput
  /\ conveyor' = NewConveyor(InitialRamp)
  /\ cnc'      = NewCnc
  /\ scanner'  = "running"
  /\ handled'  = {}

\* A master with no manners: any value, any code, any number, any ack, at any
\* time.
MasterWrite ==
  \/ \E v \in Setpoints : WriteSetpoint(v)
  \/ \E r \in Ramps : WriteRamp(r)
  \/ /\ \E code \in Codes, seq \in Seq16 : WriteCommand(code, seq, Foreign)
     /\ UNCHANGED <<params, ack, input, conveyor, cnc, scanner, handled, faults>>
  \/ \E f \in Forged : WriteAck(f)

PlcStep == Scan \/ Overrun \/ ScanCrash

PlcNext == PlcStep \/ MachineFault \/ PlcRestart \/ MasterWrite

\* Plc.run: the scan task is rescheduled every period for as long as it lives.
PlcSpec == PlcInit /\ [][PlcNext]_plcVars /\ WF_plcVars(PlcStep)

----------------------------------------------------------------------------
(* Properties. *)

Speeds    == Nat \cup {NaN}
Positions == 0 .. MaxPosition \cup {NaN}

\* Every register and every machine holds a value of its kind.
PlcTypeOK ==
  /\ params \in [setpoint : Nat, ramp : Int \cup {NaN}]
  /\ cmd \in [code : Codes \cup {"NONE"}, seq : Seq16, id : Int]
  /\ ack \in [seq : Seq16, result : AckResults, id : Int]
  /\ input \in [speed : Nat, position : Positions, cnc : CncStates]
  /\ conveyor \in [setpoint : Nat, ramp : (RampMin .. RampMax) \cup {NaN},
                   running : BOOLEAN, fault : BOOLEAN,
                   speed : Speeds, position : Positions]
  /\ cnc \in [state : CncStates, elapsed : Nat]
  /\ scanner \in {"running", "tripped", "crashed"}
  /\ handled \subseteq Int
  /\ faults \in 0 .. MaxFaults

(* The ramp is the PLC's last line of defence (scan.py, RAMP_TIME_MIN):    *)
(* whatever masters write, and in whatever order, no scan changes the      *)
(* belt's speed by more than the shortest ramp allows.                     *)
RampRespected ==
  [][PlcStep => /\ conveyor'.speed - conveyor.speed <= MaxDelta(RampMin)
                /\ conveyor.speed - conveyor'.speed <= MaxDelta(RampMin)]_plcVars

(* The handshake's edge (execute(), cmd_seq != last_ack_seq): a command    *)
(* that stands in the block after its ack is not carried out again.  The   *)
(* belt is started or stopped, and the cell leaves IDLE or FAULT, only in  *)
(* a scan that acknowledges a command.                                     *)
OnlyCommandsSwitch ==
  [][PlcStep /\ ack'.seq = ack.seq =>
       /\ conveyor'.running = conveyor.running
       /\ cnc.state \in {"IDLE", "FAULT"} => cnc' = cnc]_plcVars

(* The ack speaks for the machines (acks and outputs share one scan): when *)
(* a scan refuses a command nothing is switched by it, a running belt does *)
(* not stop and a cell in the middle of its cycle is not sent back.        *)
RefusalChangesNothing ==
  [][PlcStep /\ ack' # ack /\ ack'.result # "OK" =>
       /\ conveyor'.running = conveyor.running
       /\ cnc' = CncStep(cnc)]_plcVars

(* A started belt reaches a setpoint that is left alone, even if masters   *)
(* go on rewriting the ramp time: the clamp keeps every step above zero.   *)
Asked(v) ==
  /\ scanner = "running" /\ conveyor.running /\ ~conveyor.fault
  /\ params.setpoint = v

SpeedSettles ==
  \A v \in Setpoints : <>[]Asked(v) => <>[](conveyor.speed = v)

(* A CNC cycle that has begun ends, in IDLE or in a fault, whatever        *)
(* commands arrive meanwhile; a second CNC_START does not start it over.   *)
CycleCompletes ==
  cnc.state = "HOMING" ~> (cnc.state \in {"IDLE", "FAULT"} \/ scanner # "running")

(* No command stands in the block unanswered for ever (execute() has no    *)
(* branch without an ack): the refused and the unknown are acknowledged    *)
(* too, so the PLC comes back to having nothing to do, unless its scan has *)
(* ended; the Modbus server that outlives it leaves the command standing.  *)
CommandsAreAnswered == Pending ~> (~Pending \/ scanner # "running")

(* What the code's documents claim, and the runs refute.                   *)

\* scan.py:14-16: the clamp is "the last line of defence on a value it did
\* not choose", so no value a master writes stops the scan.
ScanSurvivesWrites == scanner # "crashed"
============================================================================

----------------------------- MODULE Handshake -----------------------------
(***************************************************************************)
(* The command handshake (src/src/gateway/commands.py) over the gateway's  *)
(* one Modbus connection (ModbusLink), against the PLC of module Plc, with *)
(* a second master (src/src/rogue/master.py) on the same registers.        *)
(*                                                                         *)
(* A caller is one OPC UA method call in progress.  The gateway is one     *)
(* asyncio loop, so an action is what runs between two awaits:             *)
(*                                                                         *)
(*   idle -> readAck -> gotAck -> sendCmd -> sentCmd -> pollAck -> gotPoll *)
(*                                                         ^         |     *)
(*                                                         +- sleep -+     *)
(*                                                                         *)
(* A transaction is two actions.  In the first the PLC serves the request; *)
(* the link's lock is held from there on.  In the second the gateway gets  *)
(* the response, frees the lock and runs on.  Between the two the PLC may  *)
(* scan, the other master may write, and the response may be lost.         *)
(***************************************************************************)
EXTENDS Plc

CONSTANTS
  Callers,     \* method calls that may be in progress at the same time
  MaxCalls,    \* bound: method calls in a behaviour
  MaxRogue     \* bound: commands of the other master

VARIABLES
  issued,      \* CommandHandshake._issued
  link,        \* the caller that holds ModbusLink._lock, or NoOne
  resent,      \* the transaction in flight is pymodbus's one retry
  broken,      \* the connection of the transaction in flight is gone
  pc,          \* where each call is
  code,        \* the command of each call
  id,          \* the id of each call: calls are numbered as they arrive
  seq,         \* invoke()'s local seq
  sample,      \* the ack block the call last read
  reply,       \* what the client was told
  calls,       \* number of calls so far
  rogue,       \* the other master: what it is doing, its number, its commands
  intrusions,  \* history: commands the gateway did not write, and PLC restarts
  alarms,      \* history: calls refused as contended
  overlap,     \* history: another master, or a restart, met a call in progress
  unnoticed    \* history: a stranger's command since the gateway's last refusal

NoSeq == -1
NoOne == "nobody"

callVars  == <<pc, code, id, seq, sample, reply, calls>>
linkVars  == <<issued, link, resent, broken>>
history   == <<intrusions, alarms, overlap, unnoticed>>
vars      == <<plcVars, linkVars, callVars, rogue, history>>

Failures == {"Contended", "Timeout", "Failed", "Lost"}
Replies  == AckResults \cup Failures \cup {"None"}

ASSUME HandshakeAssumption ==
  /\ NoOne \notin Callers
  /\ MaxCalls \in Nat /\ MaxRogue \in Nat
  /\ "NONE" \notin Codes

HInit ==
  /\ PlcInit
  /\ issued = NoSeq /\ link = NoOne /\ resent = FALSE /\ broken = FALSE
  /\ pc     = [c \in Callers |-> "idle"]
  /\ code   = [c \in Callers |-> "NONE"]
  /\ id     = [c \in Callers |-> BootId]
  /\ seq    = [c \in Callers |-> 0]
  /\ sample = [c \in Callers |-> BootAck]
  /\ reply  = [c \in Callers |-> "None"]
  /\ calls  = 0
  /\ rogue  = [pc |-> "idle", seq |-> 0, calls |-> 0]
  /\ intrusions = 0 /\ alarms = 0 /\ overlap = FALSE /\ unnoticed = FALSE

\* A defect the runs must catch: the numbers do not wrap.
BugNextSeq(current) == current + 1

NextSeq(current) == IF current >= SeqMax THEN 1 ELSE current + 1

Quiet == \A c \in Callers : pc[c] = "idle"

\* The call ends here, and this is what the client is told (Gateway._invoke).
Return(c, status) ==
  /\ pc'    = [pc EXCEPT ![c] = "idle"]
  /\ reply' = [reply EXCEPT ![c] = status]

----------------------------------------------------------------------------
(* ModbusLink: one transaction at a time. *)

Served   == {"gotAck", "sentCmd", "gotPoll"}    \* the PLC has answered
Unserved == {"readAck", "sendCmd", "pollAck"}   \* waiting for the lock, or a retry

MayUse(c) == link \in {NoOne, c}

Hold(c) ==
  /\ link' = c
  /\ broken' = FALSE
  /\ UNCHANGED <<issued, resent>>

\* The response is in: the lock is free again before the call runs on.
Holds(c) == link = c /\ ~broken
\* A defect the runs must catch: the lock is left locked.
BugRelease == resent' = FALSE /\ broken' = FALSE /\ UNCHANGED link

Release == link' = NoOne /\ resent' = FALSE /\ broken' = FALSE

----------------------------------------------------------------------------
(* CommandHandshake.invoke. *)

Invoke(c, cc) ==
  /\ pc[c] = "idle"
  /\ calls < MaxCalls
  /\ calls' = calls + 1
  /\ id'    = [id EXCEPT ![c] = calls + 1]
  /\ code'  = [code EXCEPT ![c] = cc]
  /\ pc'    = [pc EXCEPT ![c] = "readAck"]
  /\ overlap' = (overlap \/ rogue.pc # "idle" \/ (Pending /\ cmd.id = Foreign))
  /\ UNCHANGED <<plcVars, linkVars, seq, sample, reply, rogue,
                 intrusions, alarms, unnoticed>>

\* read_block(ack): ack_seq and ack_result in one request, so never torn.
ReadAck(c, from, to) ==
  /\ pc[c] = from
  /\ MayUse(c)
  /\ Hold(c)
  /\ sample' = [sample EXCEPT ![c] = ack]
  /\ pc'     = [pc EXCEPT ![c] = to]
  /\ UNCHANGED <<plcVars, code, id, seq, reply, calls, rogue, history>>

ServeAck(c)  == ReadAck(c, "readAck", "gotAck")
ServePoll(c) == ReadAck(c, "pollAck", "gotPoll")

\* A defect the runs must catch: a bit that toggles instead of a count.
BugInStep(c) == issued = NoSeq \/ sample[c].seq % 2 = issued % 2

\* The PLC's number is the one this gateway issued last, as far as it knows.
InStep(c) == issued = NoSeq \/ sample[c].seq = issued

\* A defect the runs must catch: refuse without a resync.
BugResync(c) == issued

\* The number the gateway goes on from, so that the next call goes through.
Resync(c) == sample[c].seq

Refuse(c) ==
  /\ pc[c] = "gotAck"
  /\ Holds(c)
  /\ ~InStep(c)
  /\ issued' = Resync(c)
  /\ alarms' = alarms + 1
  /\ unnoticed' = FALSE
  /\ Release
  /\ Return(c, "Contended")
  /\ UNCHANGED <<plcVars, code, id, seq, sample, calls, rogue, intrusions, overlap>>

Number(c) ==
  /\ pc[c] = "gotAck"
  /\ Holds(c)
  /\ InStep(c)
  /\ seq' = [seq EXCEPT ![c] = NextSeq(sample[c].seq)]
  /\ pc'  = [pc EXCEPT ![c] = "sendCmd"]
  /\ Release
  /\ UNCHANGED <<plcVars, issued, code, id, sample, reply, calls, rogue, history>>

ServeCmd(c) ==
  /\ pc[c] = "sendCmd"
  /\ MayUse(c)
  /\ Hold(c)
  /\ WriteCommand(code[c], seq[c], id[c])
  /\ pc' = [pc EXCEPT ![c] = "sentCmd"]
  /\ UNCHANGED <<params, ack, input, conveyor, cnc, scanner, handled, faults,
                 code, id, seq, sample, reply, calls, rogue, history>>

\* write_block returned: only now is the number remembered.
CmdSent(c) ==
  /\ pc[c] = "sentCmd"
  /\ Holds(c)
  /\ issued' = seq[c]
  /\ Release
  /\ pc' = [pc EXCEPT ![c] = "pollAck"]
  /\ UNCHANGED <<plcVars, code, id, seq, sample, reply, calls, rogue, history>>

\* A defect the runs must catch: any ack is taken for ours.
BugIsOurs(c) == TRUE

IsOurs(c) == sample[c].seq = seq[c]

Acked(c) ==
  /\ pc[c] = "gotPoll"
  /\ Holds(c)
  /\ IsOurs(c)
  /\ Release
  /\ Return(c, sample[c].result)
  /\ UNCHANGED <<plcVars, issued, code, id, seq, sample, calls, rogue, history>>

NotAcked(c) ==
  /\ pc[c] = "gotPoll"
  /\ Holds(c)
  /\ ~IsOurs(c)
  /\ Release
  /\ pc' = [pc EXCEPT ![c] = "sleep"]
  /\ UNCHANGED <<plcVars, issued, code, id, seq, sample, reply, calls, rogue, history>>

Wake(c) ==
  /\ pc[c] = "sleep"
  /\ pc' = [pc EXCEPT ![c] = "pollAck"]
  /\ UNCHANGED <<plcVars, linkVars, code, id, seq, sample, reply, calls, rogue, history>>

(* A scan takes 10 ms and shares its loop with the Modbus server; ACK_TIMEOUT *)
(* and the transport's timeout are 1 s each.  So by the time either expires a *)
(* scan that is alive has looked at every command written before the last few *)
(* milliseconds; one written since can as well be written after the expiry.   *)
(* This is an assumption on timing: a PLC process that stalls for longer than *)
(* a timeout breaks it, and its late scan or late service is not modelled.    *)
CaughtUp == scanner = "running" => ~Pending

Timeout(c) ==
  /\ pc[c] = "sleep"
  /\ CaughtUp
  /\ Return(c, "Timeout")
  /\ UNCHANGED <<plcVars, linkVars, code, id, seq, sample, calls, rogue, history>>

----------------------------------------------------------------------------
(* The transport: AsyncModbusTcpClient(timeout=1, retries=1). *)

LostResponse(c) == IF pc[c] = "sentCmd" THEN "lostWrite" ELSE "lostRead"

\* The transaction in flight will get no response.
Unanswered(c) ==
  \/ broken /\ UNCHANGED faults
  \/ ~broken /\ Fault(LostResponse(c))

\* A defect the runs must catch: a poll that fails starts from the command again.
BugSentAgainFrom == [gotAck |-> "readAck", sentCmd |-> "sendCmd", gotPoll |-> "sendCmd"]

SentAgainFrom == [gotAck |-> "readAck", sentCmd |-> "sendCmd", gotPoll |-> "pollAck"]

\* The response is lost and the client sends the same request once more.
Resend(c) ==
  /\ pc[c] \in Served
  /\ link = c
  /\ ~resent
  /\ CaughtUp
  /\ Unanswered(c)
  /\ resent' = TRUE /\ broken' = FALSE
  /\ pc' = [pc EXCEPT ![c] = SentAgainFrom[pc[c]]]
  /\ UNCHANGED <<params, cmd, ack, input, conveyor, cnc, scanner, handled,
                 issued, link, code, id, seq, sample, reply, calls, rogue, history>>

\* ... or gives up: invoke() leaves by the exception, whatever the PLC has done.
GiveUp(c) ==
  /\ \/ /\ pc[c] \in Served
        /\ link = c
        /\ resent \/ broken
        /\ Unanswered(c)
     \/ /\ pc[c] \in Unserved
        /\ MayUse(c)
        /\ Fault("lostRequest")
  /\ CaughtUp
  /\ Release
  /\ Return(c, "Failed")
  /\ UNCHANGED <<params, cmd, ack, input, conveyor, cnc, scanner, handled,
                 issued, code, id, seq, sample, calls, rogue, history>>

----------------------------------------------------------------------------
(* The rest of the world. *)

PlcScans ==
  /\ PlcStep
  /\ UNCHANGED <<linkVars, callVars, rogue, history>>

\* The PLC is restarted: every connection to it is gone.
PlcReboots ==
  /\ PlcRestart
  /\ broken' = (link # NoOne)
  /\ rogue'  = [rogue EXCEPT !.pc = "idle"]
  /\ intrusions' = intrusions + 1
  /\ overlap' = TRUE
  /\ UNCHANGED <<issued, link, resent, callVars, alarms, unnoticed>>

\* The gateway is restarted, which takes longer than a scan: the calls in
\* progress are lost with it, and so is what it had issued.
GatewayReboots ==
  /\ Fault("gatewayRestart")
  /\ CaughtUp
  /\ issued' = NoSeq
  /\ unnoticed' = FALSE
  /\ Release
  /\ pc'    = [c \in Callers |-> "idle"]
  /\ reply' = [c \in Callers |-> IF pc[c] = "idle" THEN reply[c] ELSE "Lost"]
  /\ UNCHANGED <<params, cmd, ack, input, conveyor, cnc, scanner, handled,
                 code, id, seq, sample, calls, rogue, intrusions, alarms, overlap>>

\* RogueMaster.command: count on from the PLC's number ...
RogueRead ==
  /\ rogue.pc = "idle"
  /\ rogue.calls < MaxRogue
  /\ rogue' = [pc    |-> "read",
               seq   |-> (ack.seq + 1) % (SeqMax + 1),
               calls |-> rogue.calls + 1]
  /\ overlap' = (overlap \/ ~Quiet)
  /\ UNCHANGED <<plcVars, linkVars, callVars, intrusions, alarms, unnoticed>>

\* ... and write the gateway's own command block.
RogueWrite(cc) ==
  /\ rogue.pc = "read"
  /\ WriteCommand(cc, rogue.seq, Foreign)
  /\ rogue' = [rogue EXCEPT !.pc = "idle"]
  /\ intrusions' = intrusions + 1
  /\ overlap'   = (overlap \/ ~Quiet)
  /\ unnoticed' = (unnoticed \/ issued # NoSeq)
  /\ UNCHANGED <<params, ack, input, conveyor, cnc, scanner, handled, faults,
                 linkVars, callVars, alarms>>

----------------------------------------------------------------------------

Serve(c)    == ServeAck(c) \/ ServeCmd(c) \/ ServePoll(c)
Continue(c) == Refuse(c) \/ Number(c) \/ CmdSent(c) \/ Acked(c) \/ NotAcked(c)
Lose(c)     == Resend(c) \/ GiveUp(c)

CallStep(c) ==
  \/ \E cc \in Codes : Invoke(c, cc)
  \/ Serve(c) \/ Continue(c) \/ Lose(c)
  \/ Wake(c) \/ Timeout(c)

Environment ==
  \/ PlcReboots
  \/ GatewayReboots
  \/ RogueRead
  \/ \E cc \in Codes : RogueWrite(cc)

HNext == PlcScans \/ Environment \/ \E c \in Callers : CallStep(c)

HSpec == HInit /\ [][HNext]_vars

(* What the scheduling gives.  The scan is periodic.  The lock is a FIFO, so  *)
(* a call that is waiting gets it: strong fairness for Serve.  A response, or *)
(* the loss of a connection, is acted on.  The deadline of a call is a time   *)
(* on a real clock: a call that keeps polling comes to it.                    *)
Fairness ==
  /\ WF_vars(PlcScans)
  /\ \A c \in Callers :
       /\ SF_vars(Serve(c))
       /\ WF_vars(Continue(c))
       /\ WF_vars(broken /\ Lose(c))
       /\ WF_vars(Wake(c))
       /\ SF_vars(Timeout(c))

HFairSpec == HSpec /\ Fairness

----------------------------------------------------------------------------
(* Properties. *)

\* The numbers a caller may hold; -1 is "no number yet" and "not the gateway's".
HTypeOK ==
  /\ PlcTypeOK
  /\ issued \in Seq16 \cup {NoSeq}
  /\ link \in Callers \cup {NoOne}
  /\ resent \in BOOLEAN /\ broken \in BOOLEAN
  /\ overlap \in BOOLEAN /\ unnoticed \in BOOLEAN
  /\ pc \in [Callers -> Served \cup Unserved \cup {"idle", "sleep"}]
  /\ code \in [Callers -> Codes \cup {"NONE"}]
  /\ id \in [Callers -> 0 .. MaxCalls]
  /\ seq \in [Callers -> Seq16]
  /\ sample \in [Callers -> [seq : Seq16, result : AckResults, id : Int]]
  /\ reply \in [Callers -> Replies]
  /\ calls \in 0 .. MaxCalls
  /\ rogue \in [pc : {"idle", "read"}, seq : Seq16, calls : 0 .. MaxRogue]
  /\ intrusions \in Nat /\ alarms \in Nat

(* commands.py:4-7: a call is told that the PLC carried its command out or *)
(* refused it only on the strength of the PLC's answer to this very        *)
(* command, never of an answer to somebody else's or to an earlier one.    *)
AckProvesOurs ==
  \A c \in Callers :
    pc[c] = "idle" /\ reply[c] \in AckResults => sample[c].id = id[c]

(* A command is never carried out twice by one PLC: not by a retried write *)
(* whose response was lost, not when the numbers wrap, not after a restart.*)
(* (A scan later than the call's timeout, or a request served later than   *)
(* its transport's, is excluded by CaughtUp and GiveUp: see there.)        *)
NeverTwice == Pending /\ cmd.id # Foreign => cmd.id \notin handled

(* What a finished call was told about the belt is true of the belt: after *)
(* Start's OK it runs, for as long as the PLC that said so does, and after *)
(* Stop's OK it does not, until the next call.  A command that failed, or  *)
(* timed out on a PLC whose scan had ended, does not come back to undo it. *)
(* (On a PLC that scans, it has been looked at by then: CaughtUp.)         *)
AnswerStands ==
  \A c \in Callers :
    pc[c] = "idle" /\ reply[c] = "OK" =>
      /\ code[c] = "START" /\ id[c] \in handled => conveyor.running
      /\ code[c] = "STOP" => ~conveyor.running

(* The gateway hears of every command of its own: it has one call at a     *)
(* time, no response to a write is lost, and the PLC goes on scanning.     *)
OneCaller == \A a, b \in Callers : a = b
HearsOfIt == OneCaller /\ "lostWrite" \notin Faults /\ "overrun" \notin Faults

(* The alarm means something where the gateway hears of every command of   *)
(* its own: each CommandContended is accounted for by its own command of   *)
(* another master or restart of the PLC, which shows as a gap in the same  *)
(* way.  One intrusion never refuses two calls, for the first refusal      *)
(* resyncs (commands.py:58).  Without HearsOfIt the alarm may be false:    *)
(* _issued is set only after write_block returns (commands.py:85), so a    *)
(* lost response, a call that overtakes another, or a scan that has ended  *)
(* leaves the gap commands.py:31-32 puts down to another master.           *)
NoFalseAlarm == HearsOfIt => alarms <= intrusions

(* test_contention.py, a_sequence_the_gateway_never_issued_is_refused: a   *)
(* command of another master that fell between two calls of the gateway is *)
(* noticed: no command is sent before a call has been refused for it, if   *)
(* the two masters never overlapped and the numbers have not gone all the  *)
(* way round.                                                              *)
StrangerIsNoticed ==
  unnoticed /\ ~overlap =>
    \A c \in Callers : pc[c] \in {"idle", "readAck", "gotAck"}

(* The handshake keeps the promise of CommandService: a refused call never *)
(* reaches the machine (server.py:48-50, "was not sent"), a command is     *)
(* carried out at most once by a running PLC, and for the only call of the *)
(* only master an answer is its own.                                       *)
Sole == MaxRogue = 0 /\ \A a, b \in Callers : a = b

PhaseOf(c) ==
  CASE pc[c] = "idle" -> "idle"
    [] pc[c] \in {"readAck", "gotAck"} \/ (pc[c] = "sendCmd" /\ link # c) -> "asked"
    [] OTHER -> "posted"

Service ==
  INSTANCE CommandService WITH
    Clients    <- Callers,
    Answers    <- AckResults,
    MaxTickets <- MaxCalls,
    Exclusive  <- Sole,
    phase      <- [c \in Callers |-> PhaseOf(c)],
    ticket     <- id,
    told       <- reply,
    tickets    <- calls,
    mailbox    <- IF Pending /\ cmd.id # Foreign THEN cmd.id ELSE BootId,
    taken      <- handled \ {Foreign, BootId}

KeepsPromise == Service!ServiceSpec

(* Every method call returns: the poll ends at its deadline, a lost        *)
(* connection ends a transaction, and callers sharing the link do not      *)
(* starve each other.                                                      *)
EveryCallReturns == \A c \in Callers : pc[c] # "idle" ~> pc[c] = "idle"

============================================================================

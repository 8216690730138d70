-------------------------- MODULE HandshakeProofs --------------------------
(***************************************************************************)
(* The command handshake for any number of calls and faults and any width  *)
(* of the sequence number.  In this order:                                 *)
(*                                                                         *)
(*   the types;                                                            *)
(*   the sole caller of the only master: its answers are its own;          *)
(*   any number of callers: no command runs twice, and the handshake       *)
(*   implements CommandService, so that a refused call is never carried    *)
(*   out;                                                                  *)
(*   the sole caller again: its answers stay true of the belt;             *)
(*   one caller and another master: every alarm has its cause, and a       *)
(*   stranger's command between two calls is noticed.                      *)
(***************************************************************************)
EXTENDS Handshake, PlcProofs

----------------------------------------------------------------------------
(* Types. *)

LEMMA PlcTypeUnchanged ==
  ASSUME PlcTypeOK, UNCHANGED plcVars
  PROVE  PlcTypeOK'
  BY DEF PlcTypeOK, plcVars

\* Only the count of faults moves.
LEMMA PlcTypeFault ==
  ASSUME PlcTypeOK, faults' \in 0 .. MaxFaults,
         UNCHANGED <<params, cmd, ack, input, conveyor, cnc, scanner, handled>>
  PROVE  PlcTypeOK'
  BY DEF PlcTypeOK

LEMMA FaultCount ==
  ASSUME PlcTypeOK, NEW kind, Fault(kind)
  PROVE  faults' \in 0 .. MaxFaults
  BY PlcAssumption DEF PlcTypeOK, Fault

\* Only the command block moves.
LEMMA PlcTypeCommand ==
  ASSUME PlcTypeOK, NEW cc \in Codes \cup {"NONE"}, NEW s \in Seq16, NEW i \in Int,
         WriteCommand(cc, s, i),
         UNCHANGED <<params, ack, input, conveyor, cnc, scanner, handled, faults>>
  PROVE  PlcTypeOK'
  BY DEF PlcTypeOK, WriteCommand

LEMMA NextSeqType ==
  ASSUME NEW s \in Seq16
  PROVE  NextSeq(s) \in Seq16 /\ NextSeq(s) >= 1 /\ NextSeq(s) # s
  BY PlcAssumption DEF NextSeq, Seq16

LEMMA HTypeInit == HInit => HTypeOK
<1> SUFFICES ASSUME HInit PROVE HTypeOK
  OBVIOUS
<1>1. PlcTypeOK
  BY PlcTypeInit DEF HInit
<1>2. 0 \in Seq16 /\ BootAck \in [seq : Seq16, result : AckResults, id : Int]
  BY BootType, PlcAssumption DEF Seq16
<1>3. /\ pc \in [Callers -> Served \cup Unserved \cup {"idle", "sleep"}]
      /\ code \in [Callers -> Codes \cup {"NONE"}]
      /\ id \in [Callers -> 0 .. MaxCalls]
      /\ seq \in [Callers -> Seq16]
      /\ sample \in [Callers -> [seq : Seq16, result : AckResults, id : Int]]
      /\ reply \in [Callers -> Replies]
  BY <1>2, HandshakeAssumption DEF HInit, Replies, BootId
<1>4. rogue \in [pc : {"idle", "read"}, seq : Seq16, calls : 0 .. MaxRogue]
  BY <1>2, HandshakeAssumption DEF HInit
<1>5. calls \in 0 .. MaxCalls
  BY HandshakeAssumption DEF HInit
<1>6. QED
  BY <1>1, <1>3, <1>4, <1>5 DEF HInit, HTypeOK

\* What a call may be told.
LEMMA ReturnType ==
  ASSUME HTypeOK, NEW c \in Callers, NEW status \in Replies, Return(c, status)
  PROVE  /\ pc' \in [Callers -> Served \cup Unserved \cup {"idle", "sleep"}]
         /\ reply' \in [Callers -> Replies]
  BY DEF HTypeOK, Return

LEMMA InvokeType ==
  ASSUME HTypeOK, NEW c \in Callers, NEW cc \in Codes, Invoke(c, cc)
  PROVE  HTypeOK'
<1>1. PlcTypeOK'
  BY PlcTypeUnchanged DEF Invoke, HTypeOK
<1>2. calls + 1 \in 0 .. MaxCalls /\ calls' = calls + 1
  BY HandshakeAssumption DEF Invoke, HTypeOK
<1>3. id' \in [Callers -> 0 .. MaxCalls]
  BY <1>2 DEF Invoke, HTypeOK
<1>4. /\ pc' \in [Callers -> Served \cup Unserved \cup {"idle", "sleep"}]
      /\ code' \in [Callers -> Codes \cup {"NONE"}]
  BY DEF Invoke, HTypeOK, Unserved
<1>5. overlap' \in BOOLEAN
  BY DEF Invoke, HTypeOK
<1>6. QED
  BY <1>1, <1>2, <1>3, <1>4, <1>5 DEF Invoke, HTypeOK, linkVars

LEMMA ServeType ==
  ASSUME HTypeOK, NEW c \in Callers, Serve(c)
  PROVE  HTypeOK'
<1>1. ASSUME NEW from, NEW to \in Served, ReadAck(c, from, to)
      PROVE  HTypeOK'
  <2>1. PlcTypeOK'
    BY <1>1, PlcTypeUnchanged DEF ReadAck, HTypeOK
  <2>2. ack \in [seq : Seq16, result : AckResults, id : Int]
    BY DEF HTypeOK, PlcTypeOK
  <2>3. QED
    BY <1>1, <2>1, <2>2 DEF ReadAck, Hold, HTypeOK, history
<1>2. CASE ServeCmd(c)
  <2>1. /\ code[c] \in Codes \cup {"NONE"} /\ seq[c] \in Seq16 /\ id[c] \in Int
        /\ PlcTypeOK
    BY HandshakeAssumption DEF HTypeOK
  <2>2. PlcTypeOK'
    BY <1>2, <2>1, PlcTypeCommand DEF ServeCmd
  <2>3. QED
    BY <1>2, <2>2 DEF ServeCmd, Hold, HTypeOK, history, Served
<1>3. QED
  BY <1>1, <1>2 DEF Serve, ServeAck, ServePoll, Served

LEMMA ContinueType ==
  ASSUME HTypeOK, NEW c \in Callers, Continue(c)
  PROVE  HTypeOK'
<1>1. PlcTypeOK'
  BY PlcTypeUnchanged
  DEF Continue, Refuse, Number, CmdSent, Acked, NotAcked, HTypeOK
<1>2. sample[c].seq \in Seq16 /\ sample[c].result \in AckResults /\ seq[c] \in Seq16
  BY DEF HTypeOK
<1>3. CASE Refuse(c)
  <2>1. "Contended" \in Replies
    BY DEF Replies, Failures
  <2>2. /\ pc' \in [Callers -> Served \cup Unserved \cup {"idle", "sleep"}]
        /\ reply' \in [Callers -> Replies]
    BY <1>3, <2>1, ReturnType DEF Refuse
  <2>3. issued' \in Seq16 /\ alarms' \in Nat /\ unnoticed' \in BOOLEAN
    <3>1. issued' = sample[c].seq /\ alarms' = alarms + 1 /\ unnoticed' = FALSE
      BY <1>3 DEF Refuse, Resync
    <3>2. alarms \in Nat
      BY DEF HTypeOK
    <3>3. alarms' \in Nat
      BY <3>1, <3>2
    <3>4. QED
      BY <1>2, <3>1, <3>3
  <2>4. link' \in Callers \cup {NoOne} /\ resent' \in BOOLEAN /\ broken' \in BOOLEAN
    BY <1>3 DEF Refuse, Release
  <2>5. QED
    BY <1>1, <1>3, <2>2, <2>3, <2>4 DEF Refuse, HTypeOK
<1>4. CASE Number(c)
  <2>1. NextSeq(sample[c].seq) \in Seq16
    BY <1>2, NextSeqType
  <2>2. QED
    BY <1>1, <1>4, <2>1 DEF Number, Release, HTypeOK, history, Unserved
<1>5. CASE CmdSent(c)
  BY <1>1, <1>2, <1>5 DEF CmdSent, Release, HTypeOK, history, Unserved
<1>6. CASE Acked(c)
  <2>1. sample[c].result \in Replies
    BY <1>2 DEF Replies
  <2>2. QED
    BY <1>1, <1>6, <2>1, ReturnType DEF Acked, Release, HTypeOK, history
<1>7. CASE NotAcked(c)
  BY <1>1, <1>7 DEF NotAcked, Release, HTypeOK, history
<1>8. QED
  BY <1>3, <1>4, <1>5, <1>6, <1>7 DEF Continue

LEMMA LoseType ==
  ASSUME HTypeOK, NEW c \in Callers, Lose(c)
  PROVE  HTypeOK'
<1>1. Unanswered(c) \/ Fault("lostRequest") => faults' \in 0 .. MaxFaults
  BY FaultCount DEF Unanswered, HTypeOK, PlcTypeOK
<1>2. PlcTypeOK'
  BY <1>1, PlcTypeFault DEF Lose, Resend, GiveUp, HTypeOK
<1>3. CASE Resend(c)
  <2>1. SentAgainFrom[pc[c]] \in Unserved
    BY <1>3 DEF Resend, SentAgainFrom, Served, Unserved
  <2>2. QED
    BY <1>2, <1>3, <2>1 DEF Resend, HTypeOK, history
<1>4. CASE GiveUp(c)
  <2>1. "Failed" \in Replies
    BY DEF Replies, Failures
  <2>2. QED
    BY <1>2, <1>4, <2>1, ReturnType DEF GiveUp, Release, HTypeOK, history
<1>5. QED
  BY <1>3, <1>4 DEF Lose

LEMMA CallStepType ==
  ASSUME HTypeOK, NEW c \in Callers, CallStep(c)
  PROVE  HTypeOK'
<1>1. CASE Wake(c)
  <2>1. PlcTypeOK'
    BY <1>1, PlcTypeUnchanged DEF Wake, HTypeOK
  <2>2. QED
    BY <1>1, <2>1 DEF Wake, HTypeOK, linkVars, history, Unserved
<1>2. CASE Timeout(c)
  <2>1. PlcTypeOK'
    BY <1>2, PlcTypeUnchanged DEF Timeout, HTypeOK
  <2>2. "Timeout" \in Replies
    BY DEF Replies, Failures
  <2>3. QED
    BY <1>2, <2>1, <2>2, ReturnType DEF Timeout, HTypeOK, linkVars, history
<1>3. QED
  BY <1>1, <1>2, InvokeType, ServeType, ContinueType, LoseType DEF CallStep

LEMMA EnvironmentType ==
  ASSUME HTypeOK, Environment
  PROVE  HTypeOK'
<1>1. CASE PlcReboots
  <2>1. PlcTypeOK'
    BY <1>1, PlcRestartType DEF PlcReboots, HTypeOK
  <2>2. rogue' \in [pc : {"idle", "read"}, seq : Seq16, calls : 0 .. MaxRogue]
    BY <1>1 DEF PlcReboots, HTypeOK
  <2>3. QED
    BY <1>1, <2>1, <2>2 DEF PlcReboots, HTypeOK, callVars
<1>2. CASE GatewayReboots
  <2>1. PlcTypeOK'
    BY <1>2, FaultCount, PlcTypeFault DEF GatewayReboots, HTypeOK
  <2>2. reply' \in [Callers -> Replies]
    BY <1>2 DEF GatewayReboots, HTypeOK, Replies, Failures
  <2>3. QED
    BY <1>2, <2>1, <2>2 DEF GatewayReboots, Release, HTypeOK
<1>3. CASE RogueRead
  <2>1. PlcTypeOK'
    BY <1>3, PlcTypeUnchanged DEF RogueRead, HTypeOK
  <2>2. (ack.seq + 1) % (SeqMax + 1) \in Seq16
    <3>1. ack.seq \in Nat /\ SeqMax \in Nat
      BY PlcAssumption DEF HTypeOK, PlcTypeOK, Seq16
    <3>2. QED
      BY <3>1 DEF Seq16
  <2>3. rogue.calls + 1 \in 0 .. MaxRogue
    BY <1>3, HandshakeAssumption DEF RogueRead, HTypeOK
  <2>4. rogue' \in [pc : {"idle", "read"}, seq : Seq16, calls : 0 .. MaxRogue]
    BY <1>3, <2>2, <2>3 DEF RogueRead
  <2>5. overlap' \in BOOLEAN
    BY <1>3 DEF RogueRead, HTypeOK
  <2>6. QED
    BY <1>3, <2>1, <2>4, <2>5 DEF RogueRead, HTypeOK, linkVars, callVars
<1>4. ASSUME NEW cc \in Codes, RogueWrite(cc)
      PROVE  HTypeOK'
  <2>1. rogue.seq \in Seq16 /\ Foreign \in Int /\ PlcTypeOK
    BY DEF HTypeOK, Foreign
  <2>2. PlcTypeOK'
    BY <1>4, <2>1, PlcTypeCommand DEF RogueWrite
  <2>3. rogue' \in [pc : {"idle", "read"}, seq : Seq16, calls : 0 .. MaxRogue]
    BY <1>4 DEF RogueWrite, HTypeOK
  <2>4. overlap' \in BOOLEAN /\ unnoticed' \in BOOLEAN /\ intrusions' \in Nat
    BY <1>4 DEF RogueWrite, HTypeOK
  <2>5. QED
    BY <1>4, <2>2, <2>3, <2>4 DEF RogueWrite, HTypeOK, linkVars, callVars
<1>5. QED
  BY <1>1, <1>2, <1>3, <1>4 DEF Environment

LEMMA HTypeStep ==
  ASSUME HTypeOK, [HNext]_vars
  PROVE  HTypeOK'
<1>1. CASE PlcScans
  <2>1. PlcTypeOK'
    BY <1>1, PlcStepType DEF PlcScans, HTypeOK
  <2>2. QED
    BY <1>1, <2>1 DEF PlcScans, HTypeOK, linkVars, callVars, history
<1>2. CASE UNCHANGED vars
  <2>1. PlcTypeOK'
    BY <1>2, PlcTypeUnchanged DEF vars, HTypeOK
  <2>2. QED
    BY <1>2, <2>1 DEF vars, HTypeOK, linkVars, callVars, history
<1>3. QED
  BY <1>1, <1>2, EnvironmentType, CallStepType DEF HNext

(* Every register, number and program counter stays in its range, for any  *)
(* number of callers, retries and faults: the sequence numbers wrap inside *)
(* sixteen bits on both sides of the wire (commands.py, next_seq).         *)
THEOREM HTypeCorrect == HSpec => []HTypeOK
<1>1. HTypeOK /\ [HNext]_vars => HTypeOK'
  BY HTypeStep
<1>2. QED
  BY HTypeInit, <1>1, PTL DEF HSpec

----------------------------------------------------------------------------
(* The gateway's only call, with no other master: Sole.                    *)
(*                                                                         *)
(* A call is Before the command write, or Posted from the moment the PLC   *)
(* has served it (a write that is resent stays posted).  The argument:     *)
(* while nothing is posted the PLC has caught up, so the ack the call      *)
(* numbers itself from cannot move except back to 0, and the number it     *)
(* takes is not the ack's.  Once posted, the block holds this command or,  *)
(* after a restart, nothing; so an ack with this number answers it, and    *)
(* if it has been carried out the ack says so, which makes a resent write  *)
(* no news to the scan.                                                    *)

Posted(c) ==
  \/ pc[c] \in {"sentCmd", "pollAck", "gotPoll", "sleep"}
  \/ pc[c] = "sendCmd" /\ link = c

Before(c) ==
  \/ pc[c] \in {"readAck", "gotAck"}
  \/ pc[c] = "sendCmd" /\ link # c

\* Ids count up: nothing in the PLC is from a call still to come.
IdsKnown ==
  /\ rogue.pc = "idle"
  /\ cmd.id <= calls
  /\ \A i \in handled : i <= calls
  /\ \A c \in Callers : id[c] <= calls

\* The ack a call starts from is fresh, and its command is too.
FreshBefore(c) ==
  /\ ~Posted(c) => CaughtUp
  /\ Before(c) => id[c] \notin handled
  /\ pc[c] = "gotAck" => ack.seq \in {sample[c].seq, 0}
  /\ pc[c] = "sendCmd" /\ link # c => seq[c] >= 1 /\ ack.seq # seq[c]

\* What the two blocks hold for a posted command.
InBlock(c)  == cmd.seq = seq[c] /\ cmd.id = id[c]
Rebooted    == cmd.seq = 0 /\ ack.seq = 0

OwnPosted(c) ==
  Posted(c) =>
    /\ seq[c] >= 1
    /\ InBlock(c) \/ Rebooted
    /\ ack.seq = seq[c] => ack.id = id[c]
    /\ id[c] \in handled => ack.seq = seq[c]

\* The poll that is about to end the call has read the ack of this command.
OwnPoll(c) ==
  pc[c] = "gotPoll" /\ sample[c].seq = seq[c] => sample[c].id = id[c] /\ ~Pending

SoloInv ==
  /\ IdsKnown
  /\ NeverTwice
  /\ AckProvesOurs
  /\ \A c \in Callers : FreshBefore(c) /\ OwnPosted(c) /\ OwnPoll(c)

LEMMA CallTypes ==
  ASSUME HTypeOK, NEW c \in Callers
  PROVE  /\ seq[c] \in 0 .. SeqMax /\ seq[c] \in Nat /\ id[c] \in Nat
         /\ sample[c] \in [seq : Seq16, result : AckResults, id : Int]
         /\ sample[c].seq \in Nat
         /\ cmd.seq \in Nat /\ ack.seq \in Nat /\ cmd.id \in Int /\ ack.id \in Int
         /\ calls \in Nat /\ SeqMax \in Nat
  BY PlcAssumption, HandshakeAssumption DEF HTypeOK, PlcTypeOK, Seq16

\* What a step of the PLC does to the two blocks.
LEMMA PlcStepBlocks ==
  ASSUME PlcStep
  PROVE  /\ cmd' = cmd
         /\ scanner' = "running" => scanner = "running" /\ ~Pending'
         /\ \/ UNCHANGED <<ack, handled>>
            \/ /\ Pending /\ scanner = "running"
               /\ ack'.seq = cmd.seq /\ ack'.id = cmd.id
               /\ handled' = handled \cup {cmd.id}
  <1>1. CASE ScanBody
    <2>1. CASE Pending
      BY <1>1, <2>1 DEF ScanBody, Scanning, Acknowledge, Answers, Pending
    <2>2. CASE ~Pending
      BY <1>1, <2>2 DEF ScanBody, Scanning, Acknowledge, Answers, Pending
    <2>3. QED
      BY <2>1, <2>2
  <1>2. CASE ScanCrash
    BY <1>2 DEF ScanCrash
  <1>3. QED
    BY <1>1, <1>2 DEF PlcStep, Scan, Overrun

LEMMA SoloInit == HInit => SoloInv
<1> SUFFICES ASSUME HInit PROVE SoloInv
  OBVIOUS
<1>1. ~Pending /\ cmd.id = 0 /\ handled = {} /\ calls = 0 /\ rogue.pc = "idle"
  BY DEF HInit, PlcInit, BootCmd, BootAck, BootId, Pending
<1>2. \A c \in Callers : pc[c] = "idle" /\ id[c] = 0 /\ reply[c] = "None"
  BY DEF HInit, BootId
<1>3. QED
  BY <1>1, <1>2
  DEF SoloInv, IdsKnown, NeverTwice, AckProvesOurs, FreshBefore, OwnPosted, OwnPoll,
      Posted, Before, CaughtUp, AckResults

\* Scans: only a posted command can be pending.
LEMMA SoloScans ==
  ASSUME HTypeOK, SoloInv, PlcScans
  PROVE  SoloInv'
<1>1. /\ cmd' = cmd
      /\ scanner' = "running" => scanner = "running" /\ ~Pending'
      /\ \/ UNCHANGED <<ack, handled>>
         \/ /\ Pending /\ scanner = "running"
            /\ ack'.seq = cmd.seq /\ ack'.id = cmd.id
            /\ handled' = handled \cup {cmd.id}
  BY PlcStepBlocks DEF PlcScans
<1>2. UNCHANGED <<pc, link, code, id, seq, sample, reply, calls, rogue>>
  BY DEF PlcScans, callVars, linkVars
<1>3. IdsKnown'
  BY <1>1, <1>2 DEF SoloInv, IdsKnown
<1>4. NeverTwice'
  BY <1>1 DEF SoloInv, NeverTwice, Pending
<1>5. AckProvesOurs'
  BY <1>2 DEF SoloInv, AckProvesOurs
<1>6. ASSUME NEW c \in Callers
      PROVE  FreshBefore(c)' /\ OwnPosted(c)' /\ OwnPoll(c)'
  <2>1. FreshBefore(c) /\ OwnPosted(c) /\ OwnPoll(c)
    BY DEF SoloInv
  <2>2. FreshBefore(c)'
    <3>1. CASE Posted(c)
      BY <1>2, <3>1 DEF FreshBefore, Posted, Before
    <3>2. CASE ~Posted(c)
      <4>1. UNCHANGED <<ack, handled>> /\ CaughtUp'
        BY <1>1, <2>1, <3>2 DEF FreshBefore, CaughtUp
      <4>2. QED
        BY <1>2, <2>1, <4>1 DEF FreshBefore, Posted, Before
    <3>3. QED
      BY <3>1, <3>2
  <2>3. OwnPosted(c)'
    BY <1>1, <1>2, <2>1 DEF OwnPosted, Posted, InBlock, Rebooted, Pending
  <2>4. OwnPoll(c)'
    BY <1>1, <1>2, <2>1 DEF OwnPoll, Pending
  <2>5. QED
    BY <2>2, <2>3, <2>4
<1>7. QED
  BY <1>3, <1>4, <1>5, <1>6 DEF SoloInv

\* A restarted PLC: both blocks are empty, and nothing has been handled.
LEMMA SoloReboots ==
  ASSUME HTypeOK, SoloInv, PlcReboots
  PROVE  SoloInv'
<1>1. /\ cmd'.seq = 0 /\ cmd'.id = 0 /\ ack'.seq = 0 /\ handled' = {} /\ ~Pending'
      /\ UNCHANGED <<pc, link, code, id, seq, sample, reply, calls>>
      /\ rogue'.pc = "idle"
  BY DEF PlcReboots, PlcRestart, BootCmd, BootAck, BootId, callVars, Pending, HTypeOK
<1>2. calls \in Nat
  BY HandshakeAssumption DEF HTypeOK
<1>3. IdsKnown' /\ NeverTwice' /\ AckProvesOurs'
  BY <1>1, <1>2 DEF SoloInv, IdsKnown, NeverTwice, AckProvesOurs
<1>4. ASSUME NEW c \in Callers
      PROVE  FreshBefore(c)' /\ OwnPosted(c)' /\ OwnPoll(c)'
  <2>1. FreshBefore(c) /\ OwnPosted(c) /\ OwnPoll(c)
    BY DEF SoloInv
  <2>2. FreshBefore(c)'
    <3>1. seq[c] \in Nat
      BY CallTypes
    <3>2. QED
      BY <1>1, <2>1, <3>1 DEF FreshBefore, Posted, Before, CaughtUp
  <2>3. OwnPosted(c)'
    BY <1>1, <2>1, CallTypes DEF OwnPosted, Posted, InBlock, Rebooted
  <2>4. QED
    BY <1>1, <2>1, <2>2, <2>3 DEF OwnPoll
<1>5. QED
  BY <1>3, <1>4 DEF SoloInv

\* A restarted gateway: no call is left.
LEMMA SoloGatewayReboots ==
  ASSUME HTypeOK, SoloInv, GatewayReboots
  PROVE  SoloInv'
<1>1. /\ UNCHANGED <<cmd, ack, handled, scanner, calls, id, seq, sample, rogue>>
      /\ CaughtUp
      /\ \A c \in Callers : pc'[c] = "idle"
      /\ \A c \in Callers : reply'[c] = (IF pc[c] = "idle" THEN reply[c] ELSE "Lost")
  BY DEF GatewayReboots
<1>2. IdsKnown' /\ NeverTwice'
  BY <1>1 DEF SoloInv, IdsKnown, NeverTwice, Pending
<1>3. AckProvesOurs'
  BY <1>1 DEF SoloInv, AckProvesOurs, AckResults
<1>4. CaughtUp'
  BY <1>1 DEF CaughtUp, Pending
<1>5. ASSUME NEW c \in Callers
      PROVE  FreshBefore(c)' /\ OwnPosted(c)' /\ OwnPoll(c)'
  BY <1>1, <1>4 DEF FreshBefore, OwnPosted, OwnPoll, Posted, Before
<1>6. QED
  BY <1>2, <1>3, <1>5 DEF SoloInv

\* With one caller, what is said of it is all there is to say.
LEMMA OnlyCaller ==
  ASSUME Sole, NEW c \in Callers, IdsKnown', NeverTwice',
         pc'[c] = "idle" /\ reply'[c] \in AckResults => sample'[c].id = id'[c],
         FreshBefore(c)', OwnPosted(c)', OwnPoll(c)'
  PROVE  SoloInv'
<1>1. \A d \in Callers : d = c
  BY DEF Sole
<1>2. AckProvesOurs'
  BY <1>1 DEF AckProvesOurs
<1>3. QED
  BY <1>1, <1>2 DEF SoloInv

LEMMA SoloInvoke ==
  ASSUME HTypeOK, SoloInv, Sole, NEW c \in Callers, NEW cc \in Codes, Invoke(c, cc)
  PROVE  SoloInv'
<1>1. /\ pc[c] = "idle" /\ pc'[c] = "readAck" /\ id'[c] = calls + 1 /\ calls' = calls + 1
      /\ UNCHANGED <<cmd, ack, handled, scanner, link, seq, sample, reply, rogue>>
  BY DEF Invoke, HTypeOK, plcVars, linkVars
<1>2. IdsKnown /\ NeverTwice /\ FreshBefore(c) /\ calls \in Nat /\ cmd.id \in Int
  BY CallTypes DEF SoloInv
<1>3. \A i \in handled : i \in Int
  BY DEF HTypeOK, PlcTypeOK
<1>4. \A d \in Callers : d = c
  BY DEF Sole
<1>5. IdsKnown'
  BY <1>1, <1>2, <1>3, <1>4 DEF IdsKnown
<1>6. NeverTwice'
  BY <1>1, <1>2 DEF NeverTwice, Pending
<1>7. FreshBefore(c)'
  <2>1. calls + 1 \notin handled
    BY <1>2, <1>3 DEF IdsKnown
  <2>2. CaughtUp'
    BY <1>1, <1>2 DEF FreshBefore, Posted, CaughtUp, Pending
  <2>3. QED
    BY <1>1, <2>1, <2>2 DEF FreshBefore, Before, Posted
<1>8. OwnPosted(c)' /\ OwnPoll(c)'
  BY <1>1 DEF OwnPosted, OwnPoll, Posted
<1>9. QED
  BY <1>1, <1>5, <1>6, <1>7, <1>8, OnlyCaller

LEMMA SoloServeAck ==
  ASSUME HTypeOK, SoloInv, Sole, NEW c \in Callers, ServeAck(c)
  PROVE  SoloInv'
<1>1. /\ pc[c] = "readAck" /\ pc'[c] = "gotAck" /\ sample'[c] = ack
      /\ UNCHANGED <<cmd, ack, handled, scanner, id, seq, reply, rogue, calls>>
  BY DEF ServeAck, ReadAck, HTypeOK, plcVars
<1>2. IdsKnown /\ NeverTwice /\ FreshBefore(c)
  BY DEF SoloInv
<1>3. IdsKnown' /\ NeverTwice'
  BY <1>1, <1>2 DEF IdsKnown, NeverTwice, Pending
<1>4. FreshBefore(c)'
  BY <1>1, <1>2 DEF FreshBefore, Before, Posted, CaughtUp, Pending
<1>5. OwnPosted(c)' /\ OwnPoll(c)'
  BY <1>1 DEF OwnPosted, OwnPoll, Posted
<1>6. QED
  BY <1>1, <1>3, <1>4, <1>5, OnlyCaller

LEMMA SoloServePoll ==
  ASSUME HTypeOK, SoloInv, Sole, NEW c \in Callers, ServePoll(c)
  PROVE  SoloInv'
<1>1. /\ pc[c] = "pollAck" /\ pc'[c] = "gotPoll" /\ sample'[c] = ack
      /\ UNCHANGED <<cmd, ack, handled, scanner, id, seq, reply, rogue, calls>>
  BY DEF ServePoll, ReadAck, HTypeOK, plcVars
<1>2. IdsKnown /\ NeverTwice /\ OwnPosted(c)
  BY DEF SoloInv
<1>3. IdsKnown' /\ NeverTwice'
  BY <1>1, <1>2 DEF IdsKnown, NeverTwice, Pending
<1>4. FreshBefore(c)'
  BY <1>1 DEF FreshBefore, Before, Posted
<1>5. OwnPosted(c)'
  BY <1>1, <1>2 DEF OwnPosted, Posted, InBlock, Rebooted
<1>6. OwnPoll(c)'
  BY <1>1, <1>2, CallTypes DEF OwnPosted, OwnPoll, Posted, InBlock, Rebooted, Pending
<1>7. QED
  BY <1>1, <1>3, <1>4, <1>5, <1>6, OnlyCaller

\* The command reaches the block: for the first time, or once more.
LEMMA SoloServeCmd ==
  ASSUME HTypeOK, SoloInv, Sole, NEW c \in Callers, ServeCmd(c)
  PROVE  SoloInv'
<1>1. /\ pc[c] = "sendCmd" /\ pc'[c] = "sentCmd"
      /\ cmd'.seq = seq[c] /\ cmd'.id = id[c]
      /\ UNCHANGED <<ack, handled, scanner, id, seq, sample, reply, rogue, calls>>
  BY DEF ServeCmd, WriteCommand, HTypeOK
<1>2. IdsKnown /\ FreshBefore(c) /\ OwnPosted(c)
  BY DEF SoloInv
<1>3. seq[c] >= 1
  BY <1>1, <1>2 DEF FreshBefore, OwnPosted, Posted
<1>4. /\ ack.seq = seq[c] => ack.id = id[c]
      /\ id[c] \in handled => ack.seq = seq[c]
  BY <1>1, <1>2 DEF FreshBefore, OwnPosted, Posted, Before
<1>5. IdsKnown' /\ NeverTwice'
  BY <1>1, <1>2, <1>4 DEF IdsKnown, NeverTwice, Pending
<1>6. OwnPosted(c)'
  BY <1>1, <1>3, <1>4 DEF OwnPosted, InBlock
<1>7. FreshBefore(c)' /\ OwnPoll(c)'
  BY <1>1 DEF FreshBefore, OwnPoll, Before, Posted
<1>8. QED
  BY <1>1, <1>5, <1>6, <1>7, OnlyCaller

LEMMA SoloContinue ==
  ASSUME HTypeOK, SoloInv, Sole, NEW c \in Callers, Continue(c)
  PROVE  SoloInv'
<1>1. UNCHANGED <<cmd, ack, handled, scanner, id, sample, rogue, calls>>
  BY DEF Continue, Refuse, Number, CmdSent, Acked, NotAcked, plcVars
<1>2. IdsKnown /\ NeverTwice /\ FreshBefore(c) /\ OwnPosted(c) /\ OwnPoll(c)
  BY DEF SoloInv
<1>3. IdsKnown' /\ NeverTwice'
  BY <1>1, <1>2 DEF IdsKnown, NeverTwice, Pending
<1>4. CASE Refuse(c)
  <2>1. pc[c] = "gotAck" /\ pc'[c] = "idle" /\ reply'[c] = "Contended"
    BY <1>4 DEF Refuse, Return, HTypeOK
  <2>2. FreshBefore(c)' /\ OwnPosted(c)' /\ OwnPoll(c)'
    BY <1>1, <1>2, <2>1
    DEF FreshBefore, OwnPosted, OwnPoll, Before, Posted, CaughtUp, Pending
  <2>3. QED
    BY <1>3, <2>1, <2>2, OnlyCaller DEF AckResults
<1>5. CASE Number(c)
  <2>1. /\ pc[c] = "gotAck" /\ pc'[c] = "sendCmd" /\ link' = NoOne /\ NoOne # c
        /\ seq'[c] = NextSeq(sample[c].seq)
    BY <1>5, HandshakeAssumption DEF Number, Release, HTypeOK
  <2>2. seq'[c] >= 1 /\ seq'[c] # sample[c].seq /\ seq'[c] # 0
    BY <2>1, NextSeqType, CallTypes
  <2>3. FreshBefore(c)'
    BY <1>1, <1>2, <2>1, <2>2 DEF FreshBefore, Before, Posted, CaughtUp, Pending
  <2>4. OwnPosted(c)' /\ OwnPoll(c)'
    BY <2>1 DEF OwnPosted, OwnPoll, Posted
  <2>5. QED
    BY <1>3, <2>1, <2>3, <2>4, OnlyCaller
<1>6. CASE CmdSent(c) \/ NotAcked(c)
  <2>1. /\ pc[c] \in {"sentCmd", "gotPoll"} /\ pc'[c] \in {"pollAck", "sleep"}
        /\ seq' = seq
    BY <1>6 DEF CmdSent, NotAcked, HTypeOK
  <2>2. FreshBefore(c)' /\ OwnPoll(c)'
    BY <2>1 DEF FreshBefore, OwnPoll, Before, Posted
  <2>3. OwnPosted(c)'
    BY <1>1, <1>2, <2>1 DEF OwnPosted, Posted, InBlock, Rebooted
  <2>4. QED
    BY <1>3, <2>1, <2>2, <2>3, OnlyCaller
<1>7. CASE Acked(c)
  <2>1. /\ pc[c] = "gotPoll" /\ pc'[c] = "idle" /\ seq' = seq
        /\ sample[c].seq = seq[c]
    BY <1>7 DEF Acked, IsOurs, Return, HTypeOK
  <2>2. sample[c].id = id[c] /\ ~Pending
    BY <1>2, <2>1 DEF OwnPoll
  <2>3. FreshBefore(c)' /\ OwnPosted(c)' /\ OwnPoll(c)'
    BY <1>1, <2>1, <2>2
    DEF FreshBefore, OwnPosted, OwnPoll, Before, Posted, CaughtUp, Pending
  <2>4. QED
    BY <1>1, <1>3, <2>2, <2>3, OnlyCaller
<1>8. QED
  BY <1>4, <1>5, <1>6, <1>7 DEF Continue

\* A retry keeps what it retries; a call that gives up leaves a PLC that has caught up.
LEMMA SoloLose ==
  ASSUME HTypeOK, SoloInv, Sole, NEW c \in Callers, Lose(c)
  PROVE  SoloInv'
<1>1. UNCHANGED <<cmd, ack, handled, scanner, id, seq, sample, rogue, calls>> /\ CaughtUp
  BY DEF Lose, Resend, GiveUp
<1>2. IdsKnown /\ NeverTwice /\ FreshBefore(c) /\ OwnPosted(c) /\ OwnPoll(c)
  BY DEF SoloInv
<1>3. IdsKnown' /\ NeverTwice' /\ CaughtUp'
  BY <1>1, <1>2 DEF IdsKnown, NeverTwice, CaughtUp, Pending
<1>4. CASE Resend(c)
  <2>1. /\ link' = link /\ link = c
        /\ \/ pc[c] = "gotAck" /\ pc'[c] = "readAck"
           \/ pc[c] = "sentCmd" /\ pc'[c] = "sendCmd"
           \/ pc[c] = "gotPoll" /\ pc'[c] = "pollAck"
    BY <1>4 DEF Resend, SentAgainFrom, Served, HTypeOK
  <2>2. FreshBefore(c)'
    BY <1>1, <1>2, <1>3, <2>1 DEF FreshBefore, Before, Posted
  <2>3. OwnPosted(c)' /\ OwnPoll(c)'
    BY <1>1, <1>2, <2>1 DEF OwnPosted, OwnPoll, Posted, InBlock, Rebooted
  <2>4. QED
    BY <1>3, <2>1, <2>2, <2>3, OnlyCaller
<1>5. CASE GiveUp(c)
  <2>1. pc'[c] = "idle" /\ reply'[c] = "Failed"
    BY <1>5 DEF GiveUp, Return, HTypeOK
  <2>2. FreshBefore(c)' /\ OwnPosted(c)' /\ OwnPoll(c)'
    BY <1>3, <2>1 DEF FreshBefore, OwnPosted, OwnPoll, Before, Posted
  <2>3. QED
    BY <1>3, <2>1, <2>2, OnlyCaller DEF AckResults
<1>6. QED
  BY <1>4, <1>5 DEF Lose

LEMMA SoloWaits ==
  ASSUME HTypeOK, SoloInv, Sole, NEW c \in Callers, Wake(c) \/ Timeout(c)
  PROVE  SoloInv'
<1>1. /\ UNCHANGED <<cmd, ack, handled, scanner, id, seq, sample, rogue, calls, link>>
      /\ pc[c] = "sleep"
      /\ \/ pc'[c] = "pollAck"
         \/ pc'[c] = "idle" /\ reply'[c] = "Timeout" /\ CaughtUp
  BY DEF Wake, Timeout, Return, HTypeOK, plcVars, linkVars
<1>2. IdsKnown /\ NeverTwice /\ OwnPosted(c)
  BY DEF SoloInv
<1>3. IdsKnown' /\ NeverTwice'
  BY <1>1, <1>2 DEF IdsKnown, NeverTwice, Pending
<1>4. FreshBefore(c)' /\ OwnPoll(c)'
  BY <1>1 DEF FreshBefore, OwnPoll, Before, Posted, CaughtUp, Pending
<1>5. OwnPosted(c)'
  BY <1>1, <1>2 DEF OwnPosted, Posted, InBlock, Rebooted
<1>6. QED
  BY <1>1, <1>3, <1>4, <1>5, OnlyCaller DEF AckResults

\* The other master never gets a turn.
LEMMA SoloStep ==
  ASSUME HTypeOK, SoloInv, Sole, [HNext]_vars
  PROVE  SoloInv'
<1>1. ASSUME NEW c \in Callers, CallStep(c)
      PROVE  SoloInv'
  BY <1>1, SoloInvoke, SoloServeAck, SoloServePoll, SoloServeCmd, SoloContinue,
     SoloLose, SoloWaits
  DEF CallStep, Serve
<1>2. ~RogueRead /\ \A cc \in Codes : ~RogueWrite(cc)
  BY HandshakeAssumption DEF RogueRead, RogueWrite, Sole, SoloInv, IdsKnown, HTypeOK
<1>3. CASE UNCHANGED vars
  <2>1. UNCHANGED <<cmd, ack, handled, scanner, pc, link, id, seq, sample, reply,
                    calls, rogue>>
    BY <1>3 DEF vars, plcVars, linkVars, callVars
  <2>2. QED
    BY <2>1 DEF SoloInv, IdsKnown, NeverTwice, AckProvesOurs, FreshBefore, OwnPosted,
                OwnPoll, Before, Posted, CaughtUp, Pending, InBlock, Rebooted
<1>4. QED
  BY <1>1, <1>2, <1>3, SoloScans, SoloReboots, SoloGatewayReboots
  DEF HNext, Environment

LEMMA SoloInvariant ==
  ASSUME Sole
  PROVE  HSpec => []SoloInv
<1>1. HTypeOK /\ SoloInv /\ [HNext]_vars => SoloInv'
  BY SoloStep
<1>2. QED
  BY SoloInit, HTypeCorrect, <1>1, PTL DEF HSpec

(* For the gateway's only call and no other master, an answer is always    *)
(* the PLC's to this very command: through lost requests and responses,    *)
(* retries, a stopped scan, restarts of either side, and for every width   *)
(* of the sequence number, however often it wraps.                         *)
THEOREM AnswersAreOwn ==
  ASSUME Sole
  PROVE  HSpec => []AckProvesOurs
<1>1. SoloInv => AckProvesOurs
  BY DEF SoloInv
<1>2. QED
  BY SoloInvariant, <1>1, PTL

----------------------------------------------------------------------------
(* Any number of callers, and the other master: the promise of             *)
(* CommandService.                                                         *)
(*                                                                         *)
(* What could break it is a write that is sent again after its first copy  *)
(* has been carried out and the ack has moved on.  Callers cannot do that  *)
(* to each other, for the link is held from the first copy to the second;  *)
(* the other master can, so the two together are left out: either there is *)
(* no other master, or no response to a write is lost.                     *)

SafeToResend == MaxRogue = 0 \/ "lostWrite" \notin Faults

\* The command of this call is being written: it has been served at least once.
Writing(c) == pc[c] = "sentCmd" \/ (pc[c] = "sendCmd" /\ link = c)

\* Ids count up, and each belongs to one call.
IdsCountUp ==
  /\ cmd.id <= calls
  /\ \A i \in handled : i <= calls
  /\ \A c \in Callers : id[c] <= calls
  /\ \A c \in Callers : pc[c] # "idle" => id[c] >= 1
  /\ \A a, b \in Callers : id[a] = id[b] /\ id[a] >= 1 => a = b

\* A call that has sent nothing yet is unknown to the PLC.
NotSent(c) == Before(c) => id[c] \notin handled /\ cmd.id # id[c]

\* With no other master the block keeps what is being written to it ...
BlockIsKept(c) ==
  Writing(c) /\ MaxRogue = 0 =>
    /\ InBlock(c) \/ Rebooted
    /\ id[c] \in handled => ack.seq = seq[c]

\* ... and if only a restart loses the response, the restart lost the command too.
LostToRestart(c) ==
  Writing(c) /\ "lostWrite" \notin Faults /\ (broken \/ pc[c] = "sendCmd") =>
    id[c] \notin handled /\ cmd.id # id[c]

\* Whoever has been served holds the link until the response is in.
LinkHeld(c) == pc[c] \in Served => link = c

PromiseInv ==
  /\ IdsCountUp
  /\ NeverTwice
  /\ rogue.pc = "read" => rogue.calls >= 1
  /\ \A c \in Callers :
       /\ NotSent(c) /\ BlockIsKept(c) /\ LostToRestart(c)
       /\ LinkHeld(c)

LEMMA PromiseInit == HInit => PromiseInv
<1> SUFFICES ASSUME HInit PROVE PromiseInv
  OBVIOUS
<1>1. ~Pending /\ cmd.id = 0 /\ handled = {} /\ calls = 0 /\ rogue.pc = "idle"
  BY DEF HInit, PlcInit, BootCmd, BootAck, BootId, Pending
<1>2. \A c \in Callers : pc[c] = "idle" /\ id[c] = 0
  BY DEF HInit, BootId
<1>3. QED
  BY <1>1, <1>2
  DEF PromiseInv, IdsCountUp, NeverTwice, NotSent, BlockIsKept, LostToRestart,
      Writing, Before, LinkHeld, Served

\* What any step of a call leaves alone: the PLC acknowledges nothing by it, and
\* another call that holds the link holds it still.
Frame(c) ==
  /\ UNCHANGED <<ack, conveyor, scanner, handled, rogue, intrusions>>
  /\ ServeCmd(c) \/ cmd' = cmd
  /\ (\E cc \in Codes : Invoke(c, cc)) \/ UNCHANGED <<calls, code, id, overlap>>
  /\ \A d \in Callers \ {c} :
       /\ pc'[d] = pc[d] /\ code'[d] = code[d] /\ id'[d] = id[d] /\ seq'[d] = seq[d]
       /\ link' = d <=> link = d
       /\ link = d => broken' = broken /\ cmd' = cmd

LEMMA CallFrame ==
  ASSUME HTypeOK, NEW c \in Callers, CallStep(c)
  PROVE  Frame(c)
<1> USE HandshakeAssumption DEF HTypeOK, Frame
<1>1. ASSUME NEW cc \in Codes, Invoke(c, cc)
      PROVE  Frame(c)
  BY <1>1 DEF Invoke, plcVars, linkVars
<1>2. CASE Serve(c)
  BY <1>2 DEF Serve, ServeAck, ServePoll, ReadAck, ServeCmd, Hold, MayUse, plcVars, history
<1>3. CASE Continue(c)
  BY <1>3 DEF Continue, Refuse, Number, CmdSent, Acked, NotAcked, Release, Return, Holds,
              plcVars, history
<1>4. CASE Lose(c)
  BY <1>4 DEF Lose, Resend, GiveUp, Release, Return, MayUse, history
<1>5. CASE Wake(c) \/ Timeout(c)
  BY <1>5 DEF Wake, Timeout, Return, plcVars, linkVars, history
<1>6. QED
  BY <1>1, <1>2, <1>3, <1>4, <1>5 DEF CallStep

\* What is said of the calls that do not move stays true.
LEMMA OthersKeep ==
  ASSUME HTypeOK, PromiseInv, NEW c \in Callers, CallStep(c), NEW d \in Callers \ {c}
  PROVE  NotSent(d)' /\ BlockIsKept(d)' /\ LostToRestart(d)' /\ LinkHeld(d)'
<1>1. Frame(c)
  BY CallFrame
<1>2. /\ UNCHANGED <<ack, handled>>
      /\ pc'[d] = pc[d] /\ id'[d] = id[d] /\ seq'[d] = seq[d]
      /\ link' = d <=> link = d
      /\ link = d => broken' = broken /\ cmd' = cmd
  BY <1>1 DEF Frame
<1>3. NotSent(d) /\ BlockIsKept(d) /\ LostToRestart(d) /\ LinkHeld(d)
  BY DEF PromiseInv
<1>4. NotSent(d)'
  <2>1. CASE ServeCmd(c)
    <3>1. cmd'.id = id[c]
      BY <2>1 DEF ServeCmd, WriteCommand
    <3>2. id[c] # id[d] \/ id[d] < 1
      BY CallTypes DEF PromiseInv, IdsCountUp
    <3>3. Before(d) => id[d] >= 1
      BY DEF PromiseInv, IdsCountUp, Before
    <3>4. id[d] \in Nat
      BY CallTypes
    <3>5. QED
      BY <1>2, <1>3, <3>1, <3>2, <3>3, <3>4 DEF NotSent, Before
  <2>2. CASE cmd' = cmd
    BY <1>2, <1>3, <2>2 DEF NotSent, Before
  <2>3. QED
    BY <1>1, <2>1, <2>2 DEF Frame
<1>5. LinkHeld(d)' /\ (Writing(d)' <=> Writing(d))
  BY <1>2, <1>3 DEF Writing, LinkHeld, Served
<1>6. BlockIsKept(d)' /\ LostToRestart(d)'
  <2>1. CASE ~Writing(d)
    BY <1>5, <2>1 DEF BlockIsKept, LostToRestart
  <2>2. CASE Writing(d)
    <3>1. broken' = broken /\ cmd' = cmd
      BY <1>2, <1>3, <2>2 DEF LinkHeld, Writing, Served
    <3>2. QED
      BY <1>2, <1>3, <1>5, <3>1 DEF BlockIsKept, LostToRestart, InBlock, Rebooted
  <2>3. QED
    BY <2>1, <2>2
<1>7. QED
  BY <1>4, <1>5, <1>6

LEMMA PromiseInvoke ==
  ASSUME HTypeOK, PromiseInv, NEW c \in Callers, NEW cc \in Codes, Invoke(c, cc)
  PROVE  PromiseInv'
<1>1. /\ pc[c] = "idle" /\ pc'[c] = "readAck" /\ id' = [id EXCEPT ![c] = calls + 1]
      /\ calls' = calls + 1 /\ id'[c] = calls + 1
      /\ UNCHANGED <<cmd, ack, handled, rogue>>
  BY DEF Invoke, HTypeOK, plcVars, linkVars
<1>2. calls \in Nat /\ cmd.id \in Int /\ handled \subseteq Int /\ id \in [Callers -> Nat]
  BY CallTypes, HandshakeAssumption DEF HTypeOK, PlcTypeOK
<1>3. IdsCountUp /\ NeverTwice
  BY DEF PromiseInv
<1>4. CallStep(c)
  BY DEF CallStep
<1>5. \A d \in Callers \ {c} : pc'[d] = pc[d]
  BY <1>4, CallFrame DEF Frame
<1>6. IdsCountUp'
  <2>1. cmd'.id <= calls' /\ (\A i \in handled' : i <= calls')
    <3>1. cmd.id <= calls /\ (\A i \in handled : i <= calls)
      BY <1>3 DEF IdsCountUp
    <3>2. cmd.id <= calls + 1 /\ (\A i \in handled : i <= calls + 1)
      BY <1>2, <3>1
    <3>3. QED
      BY <1>1, <3>2
  <2>2. \A d \in Callers : id'[d] <= calls'
    BY <1>1, <1>2, <1>3 DEF IdsCountUp
  <2>3. \A d \in Callers : pc'[d] # "idle" => id'[d] >= 1
    BY <1>1, <1>2, <1>3, <1>5 DEF IdsCountUp
  <2>4. ASSUME NEW a \in Callers, NEW b \in Callers, id'[a] = id'[b], id'[a] >= 1
        PROVE  a = b
    BY <1>1, <1>2, <1>3, <2>4 DEF IdsCountUp
  <2>5. QED
    BY <2>1, <2>2, <2>3, <2>4 DEF IdsCountUp
<1>7. NeverTwice' /\ (rogue.pc = "read" => rogue.calls >= 1)'
  BY <1>1, <1>3 DEF NeverTwice, Pending, PromiseInv
<1>8. calls + 1 \notin handled /\ cmd.id # calls + 1
  BY <1>2, <1>3 DEF IdsCountUp
<1>9. NotSent(c)' /\ BlockIsKept(c)' /\ LostToRestart(c)' /\ LinkHeld(c)'
  BY <1>1, <1>8 DEF NotSent, BlockIsKept, LostToRestart, Writing, Before, LinkHeld, Served
<1>10. QED
  BY <1>4, <1>6, <1>7, <1>9, OthersKeep DEF PromiseInv

\* A command reaches the block that has not been carried out, or that is no news.
LEMMA FirstTimeOrNoNews ==
  ASSUME HTypeOK, PromiseInv, SafeToResend, NEW c \in Callers, ServeCmd(c)
  PROVE  id[c] \in handled => ack.seq = seq[c]
<1>1. pc[c] = "sendCmd" /\ (Before(c) \/ Writing(c))
  BY DEF ServeCmd, Before, Writing
<1>2. NotSent(c) /\ BlockIsKept(c) /\ LostToRestart(c)
  BY DEF PromiseInv
<1>3. QED
  BY <1>1, <1>2 DEF NotSent, BlockIsKept, LostToRestart, SafeToResend

LEMMA PromiseServeCmd ==
  ASSUME HTypeOK, PromiseInv, SafeToResend, NEW c \in Callers, ServeCmd(c)
  PROVE  PromiseInv'
<1>1. /\ pc' = [pc EXCEPT ![c] = "sentCmd"] /\ pc[c] = "sendCmd"
      /\ cmd'.seq = seq[c] /\ cmd'.id = id[c] /\ link' = c /\ broken' = FALSE
      /\ UNCHANGED <<ack, handled, id, seq, calls, rogue>>
  BY DEF ServeCmd, WriteCommand, Hold
<1>2. pc'[c] = "sentCmd" /\ \A d \in Callers : pc[d] = "idle" => pc'[d] = "idle"
  BY <1>1 DEF HTypeOK
<1>3. id[c] \in handled => ack.seq = seq[c]
  BY FirstTimeOrNoNews
<1>4. IdsCountUp'
  <2>1. \A d \in Callers : pc'[d] # "idle" => pc[d] # "idle"
    BY <1>1 DEF HTypeOK
  <2>2. QED
    BY <1>1, <2>1 DEF IdsCountUp, PromiseInv
<1>5. NeverTwice' /\ (rogue.pc = "read" => rogue.calls >= 1)'
  BY <1>1, <1>3 DEF NeverTwice, Pending, PromiseInv
<1>6. NotSent(c)' /\ BlockIsKept(c)' /\ LostToRestart(c)' /\ LinkHeld(c)'
  BY <1>1, <1>2, <1>3 DEF NotSent, BlockIsKept, LostToRestart, Writing, Before, LinkHeld, Served, InBlock
<1>7. CallStep(c)
  BY DEF CallStep, Serve
<1>8. QED
  BY <1>4, <1>5, <1>6, <1>7, OthersKeep DEF PromiseInv

\* Every other step of a call leaves the block alone, and sends a call back only
\* to what it was doing.
LEMMA PromiseOther ==
  ASSUME HTypeOK, PromiseInv, NEW c \in Callers, CallStep(c),
         ~ServeCmd(c), \A cc \in Codes : ~Invoke(c, cc)
  PROVE  PromiseInv'
<1>1. UNCHANGED <<cmd, ack, handled, id, calls, rogue>>
  BY CallFrame DEF Frame
<1>2. pc'[c] # "idle" => pc[c] # "idle"
  BY DEF CallStep, Serve, Continue, Lose, ServeAck, ServePoll, ReadAck, Refuse, Number, CmdSent,
         Acked, NotAcked, Wake, Timeout, Resend, GiveUp, Return, Served, HTypeOK
<1>3. /\ Before(c)' => Before(c)
      /\ Writing(c)' => Writing(c) /\ link' = c /\ link = c /\ seq'[c] = seq[c]
      /\ pc'[c] \in Served => link' = c
      /\ Writing(c)' => (broken /\ ~broken') \/ UNCHANGED <<broken, pc>> \/ "lostWrite" \in Faults
  <2>1. CASE Serve(c)
    BY <2>1 DEF Serve, ServeAck, ServePoll, ReadAck, Hold, Before, Writing, Served, HTypeOK
  <2>2. CASE Continue(c)
    BY <2>2, HandshakeAssumption
    DEF Continue, Refuse, Number, CmdSent, Acked, NotAcked, Release, Return, Before,
        Writing, Served, HTypeOK
  <2>3. CASE Lose(c)
    BY <2>3, HandshakeAssumption
    DEF Lose, Resend, GiveUp, Unanswered, LostResponse, Fault, Release, Return,
        SentAgainFrom, Served, Before, Writing, HTypeOK
  <2>4. CASE Wake(c) \/ Timeout(c)
    BY <2>4 DEF Wake, Timeout, Return, Before, Writing, Served, linkVars, HTypeOK
  <2>5. QED
    BY <2>1, <2>2, <2>3, <2>4 DEF CallStep
<1>4. NotSent(c) /\ BlockIsKept(c) /\ LostToRestart(c)
  BY DEF PromiseInv
<1>5. NotSent(c)' /\ BlockIsKept(c)' /\ LostToRestart(c)' /\ LinkHeld(c)'
  BY <1>1, <1>3, <1>4 DEF NotSent, BlockIsKept, LostToRestart, LinkHeld, InBlock, Rebooted
<1>6. IdsCountUp'
  <2>1. \A d \in Callers : pc'[d] # "idle" => pc[d] # "idle"
    BY <1>2, CallFrame DEF Frame
  <2>2. QED
    BY <1>1, <2>1 DEF IdsCountUp, PromiseInv
<1>7. NeverTwice' /\ (rogue.pc = "read" => rogue.calls >= 1)'
  BY <1>1 DEF NeverTwice, Pending, PromiseInv
<1>8. QED
  BY <1>5, <1>6, <1>7, OthersKeep DEF PromiseInv

LEMMA PromiseScans ==
  ASSUME HTypeOK, PromiseInv, PlcScans
  PROVE  PromiseInv'
<1>1. /\ cmd' = cmd
      /\ \/ UNCHANGED <<ack, handled>>
         \/ /\ Pending
            /\ ack'.seq = cmd.seq /\ ack'.id = cmd.id
            /\ handled' = handled \cup {cmd.id}
  BY PlcStepBlocks DEF PlcScans
<1>2. UNCHANGED <<pc, link, broken, id, seq, calls, rogue>>
  BY DEF PlcScans, callVars, linkVars
<1>3. IdsCountUp' /\ (rogue.pc = "read" => rogue.calls >= 1)'
  BY <1>1, <1>2 DEF PromiseInv, IdsCountUp
<1>4. NeverTwice'
  BY <1>1 DEF PromiseInv, NeverTwice, Pending
<1>5. ASSUME NEW c \in Callers
      PROVE  NotSent(c)' /\ BlockIsKept(c)' /\ LostToRestart(c)' /\ LinkHeld(c)'
  BY <1>1, <1>2
  DEF PromiseInv, NotSent, BlockIsKept, LostToRestart, Writing, Before, LinkHeld, Served, InBlock, Rebooted,
      Pending
<1>6. QED
  BY <1>3, <1>4, <1>5 DEF PromiseInv

LEMMA PromiseReboots ==
  ASSUME HTypeOK, PromiseInv, PlcReboots
  PROVE  PromiseInv'
<1>1. /\ cmd'.seq = 0 /\ cmd'.id = 0 /\ ack'.seq = 0 /\ handled' = {}
      /\ UNCHANGED <<pc, link, id, seq, calls>> /\ rogue'.pc = "idle"
  BY DEF PlcReboots, PlcRestart, BootCmd, BootAck, BootId, callVars, HTypeOK
<1>2. calls \in Nat
  BY HandshakeAssumption DEF HTypeOK
<1>3. IdsCountUp' /\ NeverTwice'
  BY <1>1, <1>2 DEF PromiseInv, IdsCountUp, NeverTwice, Pending
<1>4. ASSUME NEW c \in Callers
      PROVE  NotSent(c)' /\ BlockIsKept(c)' /\ LostToRestart(c)' /\ LinkHeld(c)'
  <2>1. Before(c) \/ Writing(c) => id[c] >= 1
    BY DEF PromiseInv, IdsCountUp, Before, Writing
  <2>2. id[c] \in Nat
    BY CallTypes
  <2>3. QED
    BY <1>1, <2>1, <2>2
    DEF PromiseInv, NotSent, BlockIsKept, LostToRestart, Writing, Before, LinkHeld, Served, Rebooted
<1>5. QED
  BY <1>1, <1>3, <1>4 DEF PromiseInv

LEMMA PromiseGatewayReboots ==
  ASSUME HTypeOK, PromiseInv, GatewayReboots
  PROVE  PromiseInv'
<1>1. /\ UNCHANGED <<cmd, ack, handled, calls, id, rogue>>
      /\ \A c \in Callers : pc'[c] = "idle"
  BY DEF GatewayReboots
<1>2. QED
  BY <1>1
  DEF PromiseInv, IdsCountUp, NeverTwice, Pending, NotSent, BlockIsKept, LostToRestart,
      Writing, Before, LinkHeld, Served

LEMMA PromiseRogue ==
  ASSUME HTypeOK, PromiseInv, RogueRead \/ \E cc \in Codes : RogueWrite(cc)
  PROVE  PromiseInv'
<1>1. UNCHANGED <<pc, link, broken, id, seq, calls, ack, handled>>
  BY DEF RogueRead, RogueWrite, plcVars, linkVars, callVars
<1>2. CASE RogueRead
  <2>1. cmd' = cmd /\ rogue'.calls = rogue.calls + 1 /\ rogue.calls \in Nat
    BY <1>2, HandshakeAssumption DEF RogueRead, plcVars, HTypeOK
  <2>2. QED
    BY <1>1, <2>1
    DEF PromiseInv, IdsCountUp, NeverTwice, Pending, NotSent, BlockIsKept, LostToRestart,
        Writing, Before, LinkHeld, Served, InBlock, Rebooted
<1>3. ASSUME NEW cc \in Codes, RogueWrite(cc)
      PROVE  PromiseInv'
  <2>1. cmd'.id = Foreign /\ rogue'.pc = "idle" /\ rogue.pc = "read" /\ Foreign = -1
    BY <1>3 DEF RogueWrite, WriteCommand, HTypeOK, Foreign
  <2>2. MaxRogue # 0
    BY <2>1 DEF PromiseInv, HTypeOK
  <2>3. calls \in Nat
    BY HandshakeAssumption DEF HTypeOK
  <2>4. IdsCountUp' /\ NeverTwice'
    BY <1>1, <2>1, <2>3 DEF PromiseInv, IdsCountUp, NeverTwice
  <2>5. ASSUME NEW c \in Callers
        PROVE  NotSent(c)' /\ BlockIsKept(c)' /\ LostToRestart(c)' /\ LinkHeld(c)'
    <3>1. id[c] # Foreign
      BY <2>1, CallTypes
    <3>2. QED
      BY <1>1, <2>1, <2>2, <3>1
      DEF PromiseInv, NotSent, BlockIsKept, LostToRestart, Writing, Before, LinkHeld, Served
  <2>6. QED
    BY <2>1, <2>4, <2>5 DEF PromiseInv
<1>4. QED
  BY <1>2, <1>3

LEMMA PromiseStep ==
  ASSUME HTypeOK, PromiseInv, SafeToResend, [HNext]_vars
  PROVE  PromiseInv'
<1>1. ASSUME NEW c \in Callers, CallStep(c)
      PROVE  PromiseInv'
  BY <1>1, PromiseInvoke, PromiseServeCmd, PromiseOther
<1>2. CASE UNCHANGED vars
  BY <1>2
  DEF vars, plcVars, linkVars, callVars, PromiseInv, IdsCountUp, NeverTwice, Pending, NotSent,
      BlockIsKept, LostToRestart, Writing, Before, LinkHeld, Served, InBlock, Rebooted
<1>3. QED
  BY <1>1, <1>2, PromiseScans, PromiseReboots, PromiseGatewayReboots, PromiseRogue
  DEF HNext, Environment

LEMMA PromiseInvariant ==
  ASSUME SafeToResend
  PROVE  HSpec => []PromiseInv
<1>1. HTypeOK /\ PromiseInv /\ [HNext]_vars => PromiseInv'
  BY PromiseStep
<1>2. QED
  BY PromiseInit, HTypeCorrect, <1>1, PTL DEF HSpec

(* No command waits in the block that has been carried out before, however *)
(* many callers share the link: the write pymodbus resends after a lost    *)
(* response does not run again.                                            *)
THEOREM CommandsRunOnce ==
  ASSUME SafeToResend
  PROVE  HSpec => []NeverTwice
<1>1. PromiseInv => NeverTwice
  BY DEF PromiseInv
<1>2. QED
  BY PromiseInvariant, <1>1, PTL

----------------------------------------------------------------------------
(* The sole caller's answer: what it proves is that the PLC, since it last *)
(* started, has handled this command.                                      *)

Fulfilled(c) ==
  /\ Posted(c) /\ ack.seq = seq[c] => id[c] \in handled
  /\ pc[c] = "gotPoll" /\ ~broken /\ sample[c].seq = seq[c] => id[c] \in handled

SoleInv == Sole => SoloInv /\ \A c \in Callers : Fulfilled(c)

LEMMA SoleInit == HInit => SoleInv
<1> SUFFICES ASSUME HInit PROVE SoleInv
  OBVIOUS
<1>1. \A c \in Callers : pc[c] = "idle"
  BY DEF HInit
<1>2. QED
  BY <1>1, SoloInit DEF SoleInv, Fulfilled, Posted

LEMMA FulfilledStep ==
  ASSUME HTypeOK, PromiseInv, Sole, SoloInv, NEW c \in Callers, Fulfilled(c), [HNext]_vars
  PROVE  Fulfilled(c)'
<1>1. FreshBefore(c) /\ OwnPosted(c) /\ OwnPoll(c)
  BY DEF SoloInv
<1>2. ASSUME CallStep(c)
      PROVE  Fulfilled(c)'
  <2>1. UNCHANGED <<ack, handled>>
    BY <1>2, CallFrame DEF Frame
  <2>2. CASE \E cc \in Codes : Invoke(c, cc)
    <3>1. pc'[c] = "readAck"
      BY <2>2 DEF Invoke, HTypeOK
    <3>2. QED
      BY <3>1 DEF Fulfilled, Posted
  <2>3. ASSUME ~\E cc \in Codes : Invoke(c, cc)
        PROVE  id'[c] = id[c]
    BY <1>2, <2>3, CallFrame DEF Frame
  <2>4. CASE Serve(c)
    <3>1. id'[c] = id[c]
      BY <2>4 DEF Serve, ServeAck, ServePoll, ReadAck, ServeCmd
    <3>2. CASE ServeAck(c)
      BY <3>2 DEF ServeAck, ReadAck, Fulfilled, Posted, HTypeOK
    <3>3. CASE ServePoll(c)
      BY <2>1, <3>1, <3>3 DEF ServePoll, ReadAck, Fulfilled, Posted, HTypeOK
    <3>4. CASE ServeCmd(c)
      BY <1>1, <2>1, <3>1, <3>4 DEF ServeCmd, Fulfilled, FreshBefore, Posted, HTypeOK
    <3>5. QED
      BY <2>4, <3>2, <3>3, <3>4 DEF Serve
  <2>5. CASE Continue(c)
    <3>1. id'[c] = id[c]
      BY <2>5 DEF Continue, Refuse, Number, CmdSent, Acked, NotAcked
    <3>2. QED
      BY <2>1, <2>5, <3>1, HandshakeAssumption
      DEF Continue, Refuse, Number, CmdSent, Acked, NotAcked, Return, Release, Fulfilled,
          Posted, HTypeOK
  <2>6. CASE Lose(c)
    BY <2>1, <2>6, HandshakeAssumption
    DEF Lose, Resend, GiveUp, Return, Release, SentAgainFrom, Served, Fulfilled, Posted, HTypeOK
  <2>7. CASE Wake(c) \/ Timeout(c)
    BY <2>1, <2>7 DEF Wake, Timeout, Return, Fulfilled, Posted, HTypeOK
  <2>8. QED
    BY <1>2, <2>2, <2>4, <2>5, <2>6, <2>7 DEF CallStep
<1>3. CASE PlcScans
  <2>1. /\ cmd' = cmd
        /\ \/ UNCHANGED <<ack, handled>>
           \/ /\ Pending
              /\ ack'.seq = cmd.seq /\ ack'.id = cmd.id
              /\ handled' = handled \cup {cmd.id}
    BY <1>3, PlcStepBlocks DEF PlcScans
  <2>2. UNCHANGED <<pc, link, broken, id, seq, sample>>
    BY <1>3 DEF PlcScans, callVars, linkVars
  <2>3. QED
    BY <1>1, <2>1, <2>2 DEF Fulfilled, OwnPosted, Posted, InBlock, Rebooted, Pending
<1>4. CASE PlcReboots
  <2>1. /\ ack'.seq = 0 /\ UNCHANGED <<pc, link, id, seq, sample>>
        /\ broken' = (link # NoOne)
    BY <1>4 DEF PlcReboots, PlcRestart, BootAck, callVars
  <2>2. pc[c] = "gotPoll" /\ ~broken' => FALSE
    BY <2>1, HandshakeAssumption DEF PromiseInv, LinkHeld, Served
  <2>3. QED
    BY <1>1, <2>1, <2>2, CallTypes DEF Fulfilled, OwnPosted, Posted
<1>5. CASE GatewayReboots
  <2>1. pc'[c] = "idle"
    BY <1>5 DEF GatewayReboots
  <2>2. QED
    BY <2>1 DEF Fulfilled, Posted
<1>6. ~RogueRead /\ \A cc \in Codes : ~RogueWrite(cc)
  BY HandshakeAssumption DEF RogueRead, RogueWrite, Sole, SoloInv, IdsKnown, HTypeOK
<1>7. CASE UNCHANGED vars
  BY <1>7 DEF vars, plcVars, linkVars, callVars, Fulfilled, Posted
<1>8. \A d \in Callers : d = c
  BY DEF Sole
<1>9. QED
  BY <1>2, <1>3, <1>4, <1>5, <1>6, <1>7, <1>8 DEF HNext, Environment

LEMMA SoleStep ==
  ASSUME HTypeOK, PromiseInv, SoleInv, [HNext]_vars
  PROVE  SoleInv'
<1> SUFFICES ASSUME Sole
             PROVE  (SoloInv /\ \A c \in Callers : Fulfilled(c))'
  BY DEF SoleInv
<1>1. SoloInv /\ \A c \in Callers : Fulfilled(c)
  BY DEF SoleInv
<1>2. SoloInv'
  BY <1>1, SoloStep
<1>3. \A c \in Callers : Fulfilled(c)'
  BY <1>1, FulfilledStep
<1>4. QED
  BY <1>2, <1>3

LEMMA ServiceInvariants ==
  ASSUME SafeToResend
  PROVE  HSpec => [](HTypeOK /\ PromiseInv /\ SoleInv)
<1>1. HTypeOK /\ PromiseInv /\ SoleInv /\ [HNext]_vars => SoleInv'
  BY SoleStep
<1>2. QED
  BY SoleInit, HTypeCorrect, PromiseInvariant, <1>1, PTL DEF HSpec

----------------------------------------------------------------------------
(* Each step of the handshake is a step of CommandService, or none.        *)

Phases  == [c \in Callers |-> PhaseOf(c)]
Mailbox == IF Pending /\ cmd.id # Foreign THEN cmd.id ELSE BootId
Taken   == handled \ {Foreign, BootId}

LEMMA PhaseIs ==
  ASSUME NEW c \in Callers
  PROVE  PhaseOf(c) = IF pc[c] = "idle" THEN "idle"
                      ELSE IF Before(c) THEN "asked" ELSE "posted"
  BY DEF PhaseOf, Before

\* ... and so after the step.
LEMMA PhaseWillBe ==
  ASSUME NEW c \in Callers
  PROVE  PhaseOf(c)' = IF pc'[c] = "idle" THEN "idle"
                       ELSE IF Before(c)' THEN "asked" ELSE "posted"
  BY DEF PhaseOf, Before

\* The phases of the calls that do not move.
LEMMA PhasesOfOthers ==
  ASSUME HTypeOK, NEW c \in Callers, CallStep(c), NEW p, PhaseOf(c)' = p
  PROVE  Phases' = [Phases EXCEPT ![c] = p]
<1>1. \A d \in Callers \ {c} : PhaseOf(d)' = PhaseOf(d)
  BY CallFrame, PhaseIs, PhaseWillBe DEF Frame, Before
<1>2. QED
  BY <1>1 DEF Phases

\* What a step of the handshake is to the service's user.
LEMMA MailboxKept ==
  ASSUME UNCHANGED <<cmd, ack, handled>>
  PROVE  UNCHANGED <<Mailbox, Taken>>
  BY DEF Mailbox, Taken, Pending

LEMMA ServiceInitially == HInit => Service!ServiceInit
<1> SUFFICES ASSUME HInit PROVE Service!ServiceInit
  OBVIOUS
<1>1. ~Pending /\ handled = {} /\ pc = [c \in Callers |-> "idle"]
  BY DEF HInit, PlcInit, BootCmd, BootAck, Pending
<1>2. Phases = [c \in Callers |-> "idle"]
  BY <1>1, PhaseIs DEF Phases
<1>3. QED
  BY <1>1, <1>2 DEF Service!ServiceInit, HInit, Phases, BootId, Service!Nobody

LEMMA InvokeAsks ==
  ASSUME HTypeOK, NEW c \in Callers, NEW cc \in Codes, Invoke(c, cc)
  PROVE  Service!Ask(c)
<1>1. /\ pc[c] = "idle" /\ pc'[c] = "readAck" /\ calls < MaxCalls /\ calls' = calls + 1
      /\ id' = [id EXCEPT ![c] = calls + 1] /\ UNCHANGED <<cmd, ack, handled, reply>>
  BY DEF Invoke, HTypeOK, plcVars
<1>2. CallStep(c)
  BY DEF CallStep
<1>3. Phases[c] = "idle" /\ Phases' = [Phases EXCEPT ![c] = "asked"]
  <2>1. PhaseOf(c) = "idle" /\ PhaseOf(c)' = "asked"
    BY <1>1, PhaseIs, PhaseWillBe DEF Before
  <2>2. QED
    BY <1>2, <2>1, PhasesOfOthers DEF Phases
<1>4. UNCHANGED <<Mailbox, Taken>>
  BY <1>1, MailboxKept
<1>5. QED
  BY <1>1, <1>3, <1>4 DEF Service!Ask, Phases, Mailbox, Taken

\* A step within one phase, that leaves the PLC alone, is none of the service's.
LEMMA SamePhase ==
  ASSUME HTypeOK, NEW c \in Callers, CallStep(c), PhaseOf(c)' = PhaseOf(c),
         UNCHANGED <<cmd, ack, handled, id, reply, calls>>
  PROVE  UNCHANGED Service!serviceVars
<1>1. Phases' = Phases
  <2>1. Phases' = [Phases EXCEPT ![c] = PhaseOf(c)]
    BY PhasesOfOthers
  <2>2. QED
    BY <2>1 DEF Phases
<1>2. UNCHANGED <<Mailbox, Taken>>
  BY MailboxKept
<1>3. QED
  BY <1>1, <1>2 DEF Service!serviceVars, Phases, Mailbox, Taken

\* A call that ends tells the client, and that is all.
LEMMA ReturnTells ==
  ASSUME HTypeOK, NEW c \in Callers, CallStep(c), NEW status, Return(c, status),
         UNCHANGED <<cmd, ack, handled, id, calls>>
  PROVE  Service!Tell(c, status)
<1>1. pc'[c] = "idle" /\ reply' = [reply EXCEPT ![c] = status]
  BY DEF Return, HTypeOK
<1>2. Phases' = [Phases EXCEPT ![c] = "idle"]
  BY <1>1, PhaseWillBe, PhasesOfOthers
<1>3. UNCHANGED <<Mailbox, Taken>>
  BY MailboxKept
<1>4. QED
  BY <1>1, <1>2, <1>3 DEF Service!Tell, Phases, Mailbox, Taken

LEMMA ServeCmdPosts ==
  ASSUME HTypeOK, PromiseInv, SafeToResend, NEW c \in Callers, ServeCmd(c)
  PROVE  Service!Post(c)
<1>1. /\ pc[c] = "sendCmd" /\ pc'[c] = "sentCmd"
      /\ cmd'.seq = seq[c] /\ cmd'.id = id[c]
      /\ UNCHANGED <<ack, handled, id, reply, calls>>
  BY DEF ServeCmd, WriteCommand, HTypeOK
<1>2. CallStep(c)
  BY DEF CallStep, Serve
<1>3. Phases[c] \in {"asked", "posted"} /\ Phases' = [Phases EXCEPT ![c] = "posted"]
  <2>1. PhaseOf(c) \in {"asked", "posted"} /\ PhaseOf(c)' = "posted"
    BY <1>1, PhaseIs, PhaseWillBe DEF Before
  <2>2. QED
    BY <1>2, <2>1, PhasesOfOthers DEF Phases
<1>4. \/ id[c] \notin Taken /\ Mailbox' = id[c]
      \/ Mailbox' = BootId
  <2>1. id[c] \in handled => ack.seq = seq[c]
    BY FirstTimeOrNoNews
  <2>2. QED
    BY <1>1, <2>1 DEF Mailbox, Taken, Pending
<1>5. Taken' = Taken
  BY <1>1 DEF Taken
<1>6. QED
  BY <1>1, <1>3, <1>4, <1>5 DEF Service!Post, Service!Nobody, BootId, Phases, Mailbox, Taken

\* What is left of the call's own steps.
LEMMA ServePasses ==
  ASSUME HTypeOK, NEW c \in Callers, ServeAck(c) \/ ServePoll(c)
  PROVE  UNCHANGED Service!serviceVars
<1>1. /\ UNCHANGED <<cmd, ack, handled, id, reply, calls>>
      /\ \/ pc[c] = "readAck" /\ pc'[c] = "gotAck"
         \/ pc[c] = "pollAck" /\ pc'[c] = "gotPoll"
  BY DEF ServeAck, ServePoll, ReadAck, HTypeOK, plcVars
<1>2. PhaseOf(c)' = PhaseOf(c)
  BY <1>1, PhaseIs, PhaseWillBe DEF Before
<1>3. CallStep(c)
  BY DEF CallStep, Serve
<1>4. QED
  BY <1>1, <1>2, <1>3, SamePhase

LEMMA ContinueServes ==
  ASSUME HTypeOK, PromiseInv, SoleInv, NEW c \in Callers, Continue(c)
  PROVE  Service!ServiceNext \/ UNCHANGED Service!serviceVars
<1>1. UNCHANGED <<cmd, ack, handled, id, calls>> /\ CallStep(c)
  BY DEF Continue, Refuse, Number, CmdSent, Acked, NotAcked, plcVars, CallStep
<1>2. CASE Refuse(c)
  <2>1. Service!Tell(c, "Contended")
    BY <1>1, <1>2, ReturnTells DEF Refuse
  <2>2. Phases[c] = "asked"
    BY <1>2, PhaseIs DEF Refuse, Before, Phases
  <2>3. Service!DeclineCall(c)
    BY <2>1, <2>2 DEF Service!DeclineCall, Phases
  <2>4. QED
    BY <2>3 DEF Service!ServiceNext
<1>3. CASE Number(c) \/ CmdSent(c) \/ NotAcked(c)
  <2>1. /\ reply' = reply
        /\ \/ pc[c] = "gotAck" /\ pc'[c] = "sendCmd" /\ link' = NoOne /\ c # NoOne
           \/ pc[c] \in {"sentCmd", "gotPoll"} /\ pc'[c] \in {"pollAck", "sleep"}
    BY <1>3, HandshakeAssumption DEF Number, CmdSent, NotAcked, Release, HTypeOK
  <2>2. PhaseOf(c)' = PhaseOf(c)
    BY <2>1, PhaseIs, PhaseWillBe DEF Before
  <2>3. QED
    BY <1>1, <2>1, <2>2, SamePhase
<1>4. CASE Acked(c)
  <2>1. Service!Tell(c, sample[c].result) /\ sample[c].result \in AckResults
    BY <1>1, <1>4, ReturnTells DEF Acked, HTypeOK
  <2>2. Phases[c] = "posted"
    BY <1>4, PhaseIs DEF Acked, Before, Phases
  <2>3. Sole => id[c] \in Taken
    <3>1. Sole => id[c] \in handled
      BY <1>4 DEF Acked, Holds, IsOurs, SoleInv, Fulfilled
    <3>2. id[c] >= 1 /\ id[c] \in Nat
      BY <1>4, CallTypes DEF Acked, PromiseInv, IdsCountUp
    <3>3. QED
      BY <3>1, <3>2 DEF Taken, Foreign, BootId
  <2>4. Service!Answer(c)
    BY <2>1, <2>2, <2>3 DEF Service!Answer, Phases, Taken
  <2>5. QED
    BY <2>4 DEF Service!ServiceNext
<1>5. QED
  BY <1>2, <1>3, <1>4 DEF Continue

LEMMA LoseServes ==
  ASSUME HTypeOK, NEW c \in Callers, Lose(c)
  PROVE  Service!ServiceNext \/ UNCHANGED Service!serviceVars
<1>1. UNCHANGED <<cmd, ack, handled, id, calls>> /\ CallStep(c)
  BY DEF Lose, Resend, GiveUp, CallStep
<1>2. CASE Resend(c)
  <2>1. /\ reply' = reply /\ link' = link /\ link = c
        /\ \/ pc[c] = "gotAck" /\ pc'[c] = "readAck"
           \/ pc[c] = "sentCmd" /\ pc'[c] = "sendCmd"
           \/ pc[c] = "gotPoll" /\ pc'[c] = "pollAck"
    BY <1>2 DEF Resend, SentAgainFrom, Served, HTypeOK
  <2>2. PhaseOf(c)' = PhaseOf(c)
    BY <2>1, PhaseIs, PhaseWillBe DEF Before
  <2>3. QED
    BY <1>1, <2>1, <2>2, SamePhase
<1>3. CASE GiveUp(c)
  <2>1. Service!Tell(c, "Failed")
    BY <1>1, <1>3, ReturnTells DEF GiveUp
  <2>2. Phases[c] # "idle"
    BY <1>3, PhaseIs DEF GiveUp, Served, Unserved, Phases
  <2>3. Service!NoAnswer(c)
    BY <2>1, <2>2 DEF Service!NoAnswer, Phases
  <2>4. QED
    BY <2>3 DEF Service!ServiceNext
<1>4. QED
  BY <1>2, <1>3 DEF Lose

LEMMA WaitServes ==
  ASSUME HTypeOK, NEW c \in Callers, Wake(c) \/ Timeout(c)
  PROVE  Service!ServiceNext \/ UNCHANGED Service!serviceVars
<1>1. UNCHANGED <<cmd, ack, handled, id, calls>> /\ CallStep(c) /\ pc[c] = "sleep"
  BY DEF Wake, Timeout, plcVars, CallStep
<1>2. CASE Wake(c)
  <2>1. PhaseOf(c)' = PhaseOf(c) /\ reply' = reply
    BY <1>2, PhaseIs, PhaseWillBe DEF Wake, Before, HTypeOK
  <2>2. QED
    BY <1>1, <2>1, SamePhase
<1>3. CASE Timeout(c)
  <2>1. Service!Tell(c, "Timeout")
    BY <1>1, <1>3, ReturnTells DEF Timeout
  <2>2. Phases[c] = "posted"
    BY <1>1, PhaseIs DEF Before, Phases
  <2>3. Service!NoAnswer(c)
    BY <2>1, <2>2 DEF Service!NoAnswer, Phases
  <2>4. QED
    BY <2>3 DEF Service!ServiceNext
<1>4. QED
  BY <1>2, <1>3

\* The scan takes what is in the mailbox, or takes nothing of the gateway's.
LEMMA ScanTakes ==
  ASSUME HTypeOK, PromiseInv, PlcScans
  PROVE  Service!ServiceNext \/ UNCHANGED Service!serviceVars
<1>1. /\ cmd' = cmd
      /\ \/ UNCHANGED <<ack, handled>>
         \/ /\ Pending
            /\ ack'.seq = cmd.seq /\ ack'.id = cmd.id
            /\ handled' = handled \cup {cmd.id}
  BY PlcStepBlocks DEF PlcScans
<1>2. UNCHANGED <<pc, link, id, reply, calls>>
  BY DEF PlcScans, callVars, linkVars
<1>3. Phases' = Phases
  BY <1>2, PhaseIs, PhaseWillBe DEF Phases, Before
<1>4. CASE UNCHANGED <<ack, handled>>
  <2>1. UNCHANGED <<Mailbox, Taken>>
    BY <1>1, <1>4, MailboxKept
  <2>2. QED
    BY <1>2, <1>3, <2>1 DEF Service!serviceVars, Phases, Mailbox, Taken
<1>5. CASE Pending /\ ack'.seq = cmd.seq /\ handled' = handled \cup {cmd.id}
  <2>1. Mailbox' = BootId
    BY <1>1, <1>5 DEF Mailbox, Pending
  <2>2. CASE Mailbox = BootId
    <3>1. Taken' = Taken
      BY <1>5, <2>2 DEF Mailbox, Taken
    <3>2. QED
      BY <1>2, <1>3, <2>1, <2>2, <3>1 DEF Service!serviceVars, Phases, Mailbox, Taken
  <2>3. CASE Mailbox # BootId
    <3>1. Mailbox = cmd.id /\ cmd.id # Foreign
      BY <1>5, <2>3 DEF Mailbox
    <3>2. Mailbox \notin Taken
      BY <1>5, <3>1 DEF Taken, PromiseInv, NeverTwice
    <3>3. Taken' = Taken \cup {Mailbox}
      BY <1>5, <2>3, <3>1 DEF Taken
    <3>4. Service!Take
      BY <1>2, <1>3, <2>1, <2>3, <3>2, <3>3
      DEF Service!Take, Service!Nobody, BootId, Phases, Mailbox, Taken
    <3>5. QED
      BY <3>4 DEF Service!ServiceNext
  <2>4. QED
    BY <2>2, <2>3
<1>6. QED
  BY <1>1, <1>4, <1>5

LEMMA EnvironmentServes ==
  ASSUME HTypeOK, Environment
  PROVE  Service!ServiceNext \/ UNCHANGED Service!serviceVars
<1>1. CASE PlcReboots
  <2>1. /\ ~Pending' /\ handled' = {} /\ UNCHANGED <<pc, link, id, reply, calls>>
    BY <1>1 DEF PlcReboots, PlcRestart, BootCmd, BootAck, Pending, callVars
  <2>2. Phases' = Phases
    BY <2>1, PhaseIs, PhaseWillBe DEF Phases, Before
  <2>3. Mailbox' = BootId /\ Taken' = {}
    BY <2>1 DEF Mailbox, Taken
  <2>4. Service!MachineRestarts
    BY <2>1, <2>2, <2>3
    DEF Service!MachineRestarts, Service!Nobody, BootId, Phases, Mailbox, Taken
  <2>5. QED
    BY <2>4 DEF Service!ServiceNext
<1>2. CASE GatewayReboots
  <2>1. /\ UNCHANGED <<cmd, ack, handled, id, calls>>
        /\ pc' = [c \in Callers |-> "idle"]
        /\ reply' = [c \in Callers |-> IF pc[c] = "idle" THEN reply[c] ELSE "Lost"]
    BY <1>2 DEF GatewayReboots
  <2>2. Phases' = [c \in Callers |-> "idle"]
    BY <2>1, PhaseWillBe DEF Phases
  <2>3. reply' = [c \in Callers |-> IF Phases[c] = "idle" THEN reply[c] ELSE "Lost"]
    BY <2>1, PhaseIs DEF Phases
  <2>4. UNCHANGED <<Mailbox, Taken>>
    BY <2>1, MailboxKept
  <2>5. Service!ServiceRestarts
    BY <2>1, <2>2, <2>3, <2>4 DEF Service!ServiceRestarts, Phases, Mailbox, Taken
  <2>6. QED
    BY <2>5 DEF Service!ServiceNext
<1>3. CASE RogueRead
  <2>1. UNCHANGED <<cmd, ack, handled, pc, link, id, reply, calls>>
    BY <1>3 DEF RogueRead, plcVars, linkVars, callVars
  <2>2. Phases' = Phases
    BY <2>1, PhaseIs, PhaseWillBe DEF Phases, Before
  <2>3. UNCHANGED <<Mailbox, Taken>>
    BY <2>1, MailboxKept
  <2>4. QED
    BY <2>1, <2>2, <2>3 DEF Service!serviceVars, Phases, Mailbox, Taken
<1>4. ASSUME NEW cc \in Codes, RogueWrite(cc)
      PROVE  Service!ServiceNext
  <2>1. cmd'.id = Foreign /\ UNCHANGED <<handled, pc, link, id, reply, calls>>
    BY <1>4 DEF RogueWrite, WriteCommand, linkVars, callVars
  <2>2. Phases' = Phases
    BY <2>1, PhaseIs, PhaseWillBe DEF Phases, Before
  <2>3. Mailbox' = BootId /\ Taken' = Taken
    BY <2>1 DEF Mailbox, Taken
  <2>4. Service!Displace
    BY <2>1, <2>2, <2>3 DEF Service!Displace, Service!Nobody, BootId, Phases, Mailbox, Taken
  <2>5. QED
    BY <2>4 DEF Service!ServiceNext
<1>5. QED
  BY <1>1, <1>2, <1>3, <1>4 DEF Environment

LEMMA StepsOfTheService ==
  ASSUME HTypeOK, PromiseInv, SoleInv, SafeToResend, [HNext]_vars
  PROVE  [Service!ServiceNext]_(Service!serviceVars)
<1>1. ASSUME NEW c \in Callers, CallStep(c)
      PROVE  Service!ServiceNext \/ UNCHANGED Service!serviceVars
  <2>1. CASE \E cc \in Codes : Invoke(c, cc)
    BY <2>1, InvokeAsks DEF Service!ServiceNext
  <2>2. CASE ServeCmd(c)
    BY <2>2, ServeCmdPosts DEF Service!ServiceNext
  <2>3. QED
    BY <1>1, <2>1, <2>2, ServePasses, ContinueServes, LoseServes, WaitServes
    DEF CallStep, Serve
<1>2. CASE UNCHANGED vars
  <2>1. UNCHANGED <<cmd, ack, handled, pc, link, id, reply, calls>>
    BY <1>2 DEF vars, plcVars, linkVars, callVars
  <2>2. Phases' = Phases
    BY <2>1, PhaseIs, PhaseWillBe DEF Phases, Before
  <2>3. UNCHANGED <<Mailbox, Taken>>
    BY <2>1, MailboxKept
  <2>4. QED
    BY <2>1, <2>2, <2>3 DEF Service!serviceVars, Phases, Mailbox, Taken
<1>3. QED
  BY <1>1, <1>2, ScanTakes, EnvironmentServes DEF HNext

(* The handshake implements CommandService, for any number of callers that *)
(* share the link and through every fault: a refused call never reaches    *)
(* the machine, a command is taken at most once by a running PLC, and an   *)
(* answer to the sole caller is about a command the PLC has taken.  Left   *)
(* out is only another master together with lost write responses.          *)
THEOREM HandshakeKeepsPromise ==
  ASSUME SafeToResend
  PROVE  HSpec => KeepsPromise
<1>1. HTypeOK /\ PromiseInv /\ SoleInv /\ [HNext]_vars
        => [Service!ServiceNext]_(Service!serviceVars)
  BY StepsOfTheService
<1>2. QED
  BY ServiceInitially, ServiceInvariants, <1>1, PTL
  DEF HSpec, KeepsPromise, Service!ServiceSpec

\* The theorems of ServiceProofs, about the service that the handshake is.
Kept ==
  INSTANCE ServiceProofs WITH
    Clients    <- Callers,
    Answers    <- AckResults,
    MaxTickets <- MaxCalls,
    Exclusive  <- Sole,
    phase      <- [c \in Callers |-> PhaseOf(c)],
    ticket     <- id,
    told       <- reply,
    tickets    <- calls,
    mailbox    <- IF Pending /\ cmd.id # Foreign THEN cmd.id ELSE BootId,
    taken      <- handled \ {Foreign, BootId}

(* So a client whose call was refused as contended may simply call again   *)
(* (server.py, CONTENDED_STATUS): the PLC has not carried out the refused  *)
(* command, does not hold it and never will, for any number of callers and *)
(* through every fault.  It follows from the promise alone.                *)
THEOREM RefusedNeverReachesPlc ==
  ASSUME SafeToResend
  PROVE  HSpec => []Service!RefusedNeverTaken
<1>1. "Contended" \notin AckResults
  BY DEF AckResults
<1>2. Kept!ServiceSpec => []Kept!RefusedNeverTaken
  BY <1>1, Kept!RefusedIsNeverTaken
<1>3. HSpec => Service!ServiceSpec
  BY HandshakeKeepsPromise DEF KeepsPromise
<1>4. Service!ServiceInit => Kept!ServiceInit
  BY DEF Kept!ServiceInit, Service!ServiceInit, Kept!Nobody, Service!Nobody
<1>5. [Service!ServiceNext]_(Service!serviceVars)
        => [Kept!ServiceNext]_(Kept!serviceVars)
  BY DEF Kept!ServiceNext, Service!ServiceNext, Kept!serviceVars, Service!serviceVars,
         Kept!Take, Service!Take, Kept!Displace, Service!Displace,
         Kept!MachineRestarts, Service!MachineRestarts,
         Kept!ServiceRestarts, Service!ServiceRestarts, Kept!Ask, Service!Ask,
         Kept!DeclineCall, Service!DeclineCall, Kept!Post, Service!Post,
         Kept!Answer, Service!Answer, Kept!NoAnswer, Service!NoAnswer,
         Kept!Tell, Service!Tell, Kept!Nobody, Service!Nobody
<1>6. Kept!RefusedNeverTaken => Service!RefusedNeverTaken
  BY DEF Kept!RefusedNeverTaken, Service!RefusedNeverTaken
<1>7. QED
  BY <1>2, <1>3, <1>4, <1>5, <1>6, PTL DEF Kept!ServiceSpec, Service!ServiceSpec

----------------------------------------------------------------------------
(* What the sole caller was told about the belt.                           *)

\* A result that is true of the belt as it is.
TrueOfBelt(c, result) ==
  result = "OK" =>
    /\ code[c] = "START" /\ id[c] \in handled => conveyor.running
    /\ code[c] = "STOP" => ~conveyor.running

\* From the scan that answers the command to the moment the client is told.
BeltTold(c) ==
  /\ Posted(c) /\ InBlock(c) => cmd.code = code[c]
  /\ Posted(c) /\ ack.seq = seq[c] => TrueOfBelt(c, ack.result)
  /\ pc[c] = "gotPoll" /\ sample[c].seq = seq[c] => TrueOfBelt(c, sample[c].result)
  /\ pc[c] = "idle" => TrueOfBelt(c, reply[c])

BeltInv == Sole => \A c \in Callers : BeltTold(c)

\* A scan with nothing pending leaves the belt's switch; one that answers START or
\* STOP with OK sets it.
LEMMA ScanSwitches ==
  ASSUME PlcTypeOK, PlcStep
  PROVE  /\ ~Pending => conveyor'.running = conveyor.running /\ UNCHANGED <<ack, handled>>
         /\ \/ UNCHANGED <<ack, handled>>
            \/ /\ Pending
               /\ ack'.seq = cmd.seq /\ handled' = handled \cup {cmd.id}
               /\ ack'.result = "OK" => /\ cmd.code = "START" => conveyor'.running
                                        /\ cmd.code = "STOP" => ~conveyor'.running
<1>1. CASE ScanBody
  <2>1. conveyor'.running = BeltRuns
    <3>1. DrivenConveyor.running = BeltRuns /\ DrivenConveyor \in Belts
      BY DrivenConveyorType DEF DrivenConveyor, PlcTypeOK
    <3>2. QED
      BY <1>1, <3>1 DEF ScanBody, ConveyorStep, Belts
  <2>2. CASE ~Pending
    <3>1. conveyor'.running = conveyor.running
      BY <1>1, <2>2, IdleScan DEF Obeys
    <3>2. UNCHANGED <<ack, handled>>
      BY <1>1, <2>2 DEF ScanBody, Acknowledge, Answers
    <3>3. QED
      BY <3>1, <3>2, <2>2
  <2>3. CASE Pending
    <3>1. ack'.seq = cmd.seq /\ ack'.result = Verdict /\ handled' = handled \cup {cmd.id}
      BY <1>1, <2>3 DEF ScanBody, Acknowledge, Answers
    <3>2. Verdict = "OK" /\ cmd.code = "START" => BeltRuns
      BY <2>3 DEF BeltRuns, StartsBelt, Obeys
    <3>3. Verdict = "OK" /\ cmd.code = "STOP" => ~BeltRuns
      BY <2>3 DEF BeltRuns, Obeys
    <3>4. QED
      BY <2>1, <2>3, <3>1, <3>2, <3>3
  <2>4. QED
    BY <2>2, <2>3
<1>2. CASE ScanCrash
  BY <1>2 DEF ScanCrash
<1>3. QED
  BY <1>1, <1>2 DEF PlcStep, Scan, Overrun

LEMMA BeltInit == HInit => BeltInv
<1> SUFFICES ASSUME HInit PROVE BeltInv
  OBVIOUS
<1>1. \A c \in Callers : pc[c] = "idle" /\ reply[c] = "None"
  BY DEF HInit
<1>2. QED
  BY <1>1 DEF BeltInv, BeltTold, Posted, TrueOfBelt

LEMMA BeltScans ==
  ASSUME HTypeOK, Sole, SoloInv, NEW c \in Callers, BeltTold(c), PlcScans
  PROVE  BeltTold(c)'
<1>1. FreshBefore(c) /\ OwnPosted(c) /\ OwnPoll(c)
  BY DEF SoloInv
<1>2. UNCHANGED <<cmd, pc, link, code, id, seq, sample, reply>>
  BY PlcStepBlocks DEF PlcScans, callVars, linkVars
<1>3. CASE ~Pending
  <2>1. conveyor'.running = conveyor.running /\ UNCHANGED <<ack, handled>>
    BY <1>3, ScanSwitches DEF PlcScans, HTypeOK
  <2>2. QED
    BY <1>2, <2>1 DEF BeltTold, TrueOfBelt, Posted, InBlock
<1>4. CASE Pending
  <2>1. Posted(c) \/ UNCHANGED <<ack, handled, conveyor>>
    BY <1>1, <1>4 DEF FreshBefore, CaughtUp, PlcScans, PlcStep, Scan, Overrun, ScanBody,
                      Scanning, ScanCrash
  <2>2. CASE UNCHANGED <<ack, handled, conveyor>>
    BY <1>2, <2>2 DEF BeltTold, TrueOfBelt, Posted, InBlock
  <2>3. CASE Posted(c)
    <3>1. InBlock(c) /\ ack.seq # seq[c]
      BY <1>1, <1>4, <2>3 DEF OwnPosted, InBlock, Rebooted, Pending
    <3>2. cmd.code = code[c]
      BY <2>3, <3>1 DEF BeltTold
    <3>3. ack'.seq = seq[c] => TrueOfBelt(c, ack.result)'
      BY <1>2, <3>1, <3>2, ScanSwitches DEF PlcScans, HTypeOK, TrueOfBelt, InBlock
    <3>4. ~(pc[c] = "gotPoll" /\ sample[c].seq = seq[c])
      BY <1>1, <1>4 DEF OwnPoll
    <3>5. pc[c] # "idle"
      BY <2>3 DEF Posted
    <3>6. QED
      BY <1>2, <3>2, <3>3, <3>4, <3>5 DEF BeltTold, Posted, InBlock
  <2>4. QED
    BY <2>1, <2>2, <2>3
<1>5. QED
  BY <1>3, <1>4

LEMMA BeltReboots ==
  ASSUME HTypeOK, Sole, SoloInv, NEW c \in Callers, BeltTold(c), PlcReboots
  PROVE  BeltTold(c)'
<1>1. /\ cmd'.seq = 0 /\ ack'.seq = 0 /\ handled' = {} /\ ~conveyor'.running
      /\ UNCHANGED <<pc, link, code, id, seq, sample, reply>>
  BY DEF PlcReboots, PlcRestart, BootCmd, BootAck, NewConveyor, callVars
<1>2. Posted(c) => seq[c] >= 1 /\ seq[c] \in Nat
  BY CallTypes DEF SoloInv, OwnPosted
<1>3. \A r : TrueOfBelt(c, r)'
  BY <1>1 DEF TrueOfBelt
<1>4. QED
  BY <1>1, <1>2, <1>3 DEF BeltTold, Posted, InBlock

LEMMA BeltCalls ==
  ASSUME HTypeOK, Sole, SoloInv, NEW c \in Callers, BeltTold(c), CallStep(c)
  PROVE  BeltTold(c)'
<1>1. FreshBefore(c) /\ OwnPosted(c) /\ OwnPoll(c)
  BY DEF SoloInv
<1>2. UNCHANGED <<ack, handled, conveyor>> /\ (ServeCmd(c) \/ cmd' = cmd)
  BY CallFrame DEF Frame
<1>3. CASE \E cc \in Codes : Invoke(c, cc)
  <2>1. pc'[c] = "readAck"
    BY <1>3 DEF Invoke, HTypeOK
  <2>2. QED
    BY <2>1 DEF BeltTold, Posted
<1>4. CASE UNCHANGED <<code, id>>
  <2>1. \A r : TrueOfBelt(c, r)' <=> TrueOfBelt(c, r)
    BY <1>2, <1>4 DEF TrueOfBelt
  <2>2. CASE ServeAck(c)
    BY <2>2 DEF ServeAck, ReadAck, BeltTold, Posted, HTypeOK
  <2>3. CASE ServePoll(c)
    <3>1. /\ pc[c] = "pollAck" /\ pc'[c] = "gotPoll" /\ sample'[c] = ack
          /\ UNCHANGED <<cmd, ack, seq, code, id>>
      BY <1>2, <1>4, <2>3 DEF ServePoll, ReadAck, HTypeOK, plcVars
    <3>2. ack.seq = seq[c] => TrueOfBelt(c, ack.result)'
      BY <2>1, <3>1 DEF BeltTold, Posted
    <3>3. QED
      BY <3>1, <3>2 DEF BeltTold, Posted, InBlock
  <2>4. CASE ServeCmd(c)
    <3>1. /\ pc[c] = "sendCmd" /\ pc'[c] = "sentCmd" /\ cmd'.code = code[c] /\ seq' = seq
          /\ UNCHANGED <<ack, code, id>>
      BY <1>2, <1>4, <2>4 DEF ServeCmd, WriteCommand, HTypeOK
    <3>2. ack.seq = seq[c] => TrueOfBelt(c, ack.result)'
      BY <1>1, <2>1, <3>1 DEF BeltTold, FreshBefore, Posted
    <3>3. QED
      BY <3>1, <3>2 DEF BeltTold, Posted, InBlock
  <2>5. CASE Acked(c)
    <3>1. /\ pc'[c] = "idle" /\ reply'[c] = sample[c].result
          /\ pc[c] = "gotPoll" /\ sample[c].seq = seq[c]
      BY <2>5 DEF Acked, Return, IsOurs, HTypeOK
    <3>2. TrueOfBelt(c, reply[c])'
      BY <1>2, <1>4, <3>1 DEF BeltTold, TrueOfBelt
    <3>3. QED
      BY <3>1, <3>2 DEF BeltTold, Posted
  <2>6. CASE Refuse(c) \/ GiveUp(c) \/ Timeout(c)
    <3>1. pc'[c] = "idle" /\ reply'[c] # "OK"
      BY <2>6 DEF Refuse, GiveUp, Timeout, Return, HTypeOK
    <3>2. QED
      BY <3>1 DEF BeltTold, Posted, TrueOfBelt
  <2>7. CASE Number(c)
    <3>1. pc'[c] = "sendCmd" /\ link' # c
      BY <2>7, HandshakeAssumption DEF Number, Release, HTypeOK
    <3>2. QED
      BY <3>1 DEF BeltTold, Posted
  <2>8. CASE CmdSent(c) \/ NotAcked(c) \/ Wake(c)
    <3>1. /\ pc[c] \in {"sentCmd", "gotPoll", "sleep"} /\ pc'[c] \in {"pollAck", "sleep"}
          /\ UNCHANGED <<cmd, ack, seq, code, id>>
      BY <2>8 DEF CmdSent, NotAcked, Wake, HTypeOK, plcVars
    <3>2. QED
      BY <2>1, <3>1 DEF BeltTold, Posted, InBlock
  <2>9. CASE Resend(c)
    <3>1. /\ link' = link /\ link = c
          /\ \/ pc[c] = "gotAck" /\ pc'[c] = "readAck"
             \/ pc[c] = "sentCmd" /\ pc'[c] = "sendCmd"
             \/ pc[c] = "gotPoll" /\ pc'[c] = "pollAck"
          /\ UNCHANGED <<cmd, ack, seq, code, id>>
      BY <2>9 DEF Resend, SentAgainFrom, Served, HTypeOK
    <3>2. QED
      BY <2>1, <3>1 DEF BeltTold, Posted, InBlock
  <2>10. CASE \E cc \in Codes : Invoke(c, cc)
    BY <2>10, <1>3
  <2>11. QED
    BY <2>2, <2>3, <2>4, <2>5, <2>6, <2>7, <2>8, <2>9, <2>10
    DEF CallStep, Serve, Continue, Lose
<1>5. QED
  BY <1>3, <1>4, CallFrame DEF Frame

LEMMA BeltStep ==
  ASSUME HTypeOK, SoleInv, BeltInv, [HNext]_vars
  PROVE  BeltInv'
<1> SUFFICES ASSUME Sole, NEW c \in Callers
             PROVE  BeltTold(c)'
  BY DEF BeltInv
<1>1. SoloInv /\ BeltTold(c)
  BY DEF SoleInv, BeltInv
<1>2. CASE GatewayReboots
  <2>1. /\ pc'[c] = "idle" /\ reply'[c] = (IF pc[c] = "idle" THEN reply[c] ELSE "Lost")
        /\ UNCHANGED <<code, id, handled, conveyor>>
    BY <1>2 DEF GatewayReboots
  <2>2. QED
    BY <1>1, <2>1 DEF BeltTold, TrueOfBelt, Posted
<1>3. ~RogueRead /\ \A cc \in Codes : ~RogueWrite(cc)
  BY <1>1, HandshakeAssumption DEF RogueRead, RogueWrite, Sole, SoloInv, IdsKnown, HTypeOK
<1>4. CASE UNCHANGED vars
  BY <1>1, <1>4
  DEF vars, plcVars, linkVars, callVars, BeltTold, TrueOfBelt, Posted, InBlock
<1>5. \A d \in Callers : d = c
  BY DEF Sole
<1>6. QED
  BY <1>1, <1>2, <1>3, <1>4, <1>5, BeltScans, BeltReboots, BeltCalls DEF HNext, Environment

(* What the sole caller was told about the belt stays true of it: through  *)
(* lost requests and responses, resent writes, timeouts and restarts, no   *)
(* earlier command comes back to undo what the last one did.               *)
THEOREM AnswersStand ==
  ASSUME Sole
  PROVE  HSpec => []AnswerStands
<1>1. SafeToResend
  BY DEF Sole, SafeToResend
<1>2. HTypeOK /\ SoleInv /\ BeltInv /\ [HNext]_vars => BeltInv'
  BY BeltStep
<1>3. BeltInv => AnswerStands
  BY DEF BeltInv, BeltTold, TrueOfBelt, AnswerStands
<1>4. HSpec => [](HTypeOK /\ PromiseInv /\ SoleInv)
  BY <1>1, ServiceInvariants
<1>5. QED
  BY <1>2, <1>3, <1>4, BeltInit, PTL DEF HSpec

----------------------------------------------------------------------------
(* The alarm, while the gateway hears of every command of its own.         *)

\* No more refusals than intrusions.
Covered == alarms <= intrusions

\* The scan never stops: nobody here writes a ramp time.
ScanLives == scanner = "running" /\ NumbersOnly

\* How often the PLC's number may still be found to differ from n without anybody
\* doing anything more: once as it is, and once for what waits in the block.
Strays(n) == (IF ack.seq # n THEN 1 ELSE 0) + (IF Pending THEN 1 ELSE 0)

\* So many alarms are still accounted for.
Owed(n) == alarms + n <= intrusions

\* A call that has not sent its command, or whose command went down with the PLC.
Unheard(c) == pc[c] \in {"idle", "readAck", "sendCmd"} \/ (pc[c] = "sentCmd" /\ broken)

\* A call whose command the PLC has, unless somebody has displaced it.
Heard(c) == pc[c] \in {"pollAck", "gotPoll", "sleep"} \/ (pc[c] = "sentCmd" /\ ~broken)

AlarmsCovered(c) ==
  /\ issued # NoSeq /\ Unheard(c) => Owed(Strays(issued))
  /\ issued # NoSeq /\ pc[c] = "gotAck" =>
       Owed((IF sample[c].seq # issued THEN 1 ELSE 0) + Strays(sample[c].seq))
  /\ Heard(c) /\ cmd.seq # seq[c] => Owed(1)
  /\ pc[c] \in {"pollAck", "gotPoll", "sleep"} => issued = seq[c]
  /\ pc[c] = "gotPoll" /\ sample[c].seq = seq[c] => Owed(Strays(seq[c]))

AlarmInv ==
  /\ ScanLives
  /\ Covered
  /\ \A c \in Callers : AlarmsCovered(c)

LEMMA AlarmTypes ==
  ASSUME HTypeOK
  PROVE  /\ alarms \in Nat /\ intrusions \in Nat
         /\ ack.seq \in Nat /\ cmd.seq \in Nat /\ issued \in Nat \cup {NoSeq}
         /\ \A c \in Callers : seq[c] \in Nat /\ sample[c].seq \in Nat
         /\ NoSeq = -1
  BY PlcAssumption DEF HTypeOK, PlcTypeOK, Seq16, NoSeq

LEMMA StrayRange ==
  ASSUME NEW n
  PROVE  Strays(n) \in 0 .. 2
  BY DEF Strays

LEMMA AlarmInit == HInit => AlarmInv
<1> SUFFICES ASSUME HInit PROVE AlarmInv
  OBVIOUS
<1>1. \A c \in Callers : pc[c] = "idle"
  BY DEF HInit
<1>2. issued = NoSeq /\ alarms = 0 /\ intrusions = 0 /\ scanner = "running" /\ NumbersOnly
  BY NumbersOnlyInit DEF HInit, PlcInit
<1>3. QED
  BY <1>1, <1>2 DEF AlarmInv, ScanLives, Covered, AlarmsCovered, Heard

\* A scan goes on, and answers what is pending.
LEMMA ScanAnswers ==
  ASSUME HTypeOK, ScanLives, "overrun" \notin Faults, PlcScans
  PROVE  /\ ScanLives' /\ ~Pending' /\ cmd' = cmd
         /\ ack'.seq = cmd.seq \/ (ack' = ack /\ ~Pending)
<1>1. ScanBody /\ UNCHANGED scanner
  BY DEF PlcScans, PlcStep, Scan, Overrun, Fault, ScanCrash, Encodable, ScanLives, NumbersOnly
<1>2. NumbersOnly'
  BY <1>1, ScanBodyNumbers DEF ScanLives, HTypeOK
<1>3. CASE Pending
  BY <1>1, <1>2, <1>3 DEF ScanBody, Acknowledge, Answers, Pending, ScanLives
<1>4. CASE ~Pending
  BY <1>1, <1>2, <1>4 DEF ScanBody, Acknowledge, Answers, Pending, ScanLives
<1>5. QED
  BY <1>3, <1>4

LEMMA AlarmScans ==
  ASSUME HTypeOK, AlarmInv, "overrun" \notin Faults, PlcScans
  PROVE  AlarmInv'
<1>1. /\ ScanLives' /\ ~Pending' /\ cmd' = cmd
      /\ ack'.seq = cmd.seq \/ (ack' = ack /\ ~Pending)
  BY ScanAnswers DEF AlarmInv
<1>2. UNCHANGED <<pc, issued, broken, seq, sample, alarms, intrusions>>
  BY DEF PlcScans, callVars, linkVars, history
<1>3. \A n : Strays(n)' <= Strays(n)
  BY <1>1, AlarmTypes DEF Strays, Pending
<1>4. ASSUME NEW c \in Callers
      PROVE  AlarmsCovered(c)'
  <2>1. AlarmsCovered(c)
    BY DEF AlarmInv
  <2>2. \A n : Strays(n) \in 0 .. 2 /\ Strays(n)' \in 0 .. 2
    BY DEF Strays
  <2>3. \A n : Owed(Strays(n)) => Owed(Strays(n))'
    BY <1>2, <1>3, <2>2, AlarmTypes DEF Owed
  <2>4. /\ Unheard(c)' <=> Unheard(c)
        /\ Heard(c)' <=> Heard(c)
    BY <1>2 DEF Unheard, Heard
  <2>5. issued' # NoSeq /\ Unheard(c)' => Owed(Strays(issued))'
    BY <1>2, <1>3, <2>1, <2>2, <2>4, AlarmTypes DEF AlarmsCovered, Owed
  <2>6. issued' # NoSeq /\ pc'[c] = "gotAck" =>
          Owed((IF sample[c].seq # issued THEN 1 ELSE 0) + Strays(sample[c].seq))'
    <3>1. /\ Strays(sample[c].seq)' <= Strays(sample[c].seq)
          /\ Strays(sample[c].seq) \in 0 .. 2 /\ Strays(sample[c].seq)' \in 0 .. 2
      BY <1>1, <1>2, AlarmTypes DEF Strays, Pending
    <3>2. QED
      BY <1>2, <2>1, <3>1, AlarmTypes DEF AlarmsCovered, Owed
  <2>7. Heard(c)' /\ cmd'.seq # seq'[c] => Owed(1)'
    BY <1>1, <1>2, <2>1, <2>4 DEF AlarmsCovered, Owed
  <2>8. pc'[c] \in {"pollAck", "gotPoll", "sleep"} => issued' = seq'[c]
    BY <1>2, <2>1 DEF AlarmsCovered
  <2>9. pc'[c] = "gotPoll" /\ sample'[c].seq = seq'[c] => Owed(Strays(seq[c]))'
    <3>1. /\ Strays(seq[c])' <= Strays(seq[c])
          /\ Strays(seq[c]) \in 0 .. 2 /\ Strays(seq[c])' \in 0 .. 2
      BY <1>1, <1>2, AlarmTypes DEF Strays, Pending
    <3>2. QED
      BY <1>2, <2>1, <3>1, AlarmTypes DEF AlarmsCovered, Owed
  <2>10. QED
    BY <2>5, <2>6, <2>7, <2>8, <2>9 DEF AlarmsCovered
<1>5. QED
  BY <1>1, <1>2, <1>4 DEF AlarmInv, Covered

\* A restart, or a command of the other master, is one more to account for.
LEMMA AlarmEnvironment ==
  ASSUME HTypeOK, AlarmInv, Environment
  PROVE  AlarmInv'
<1>1. CASE PlcReboots \/ \E cc \in Codes : RogueWrite(cc)
  <2>1. /\ UNCHANGED <<issued, pc, seq, sample, alarms>> /\ intrusions' = intrusions + 1
        /\ \/ ack'.seq = cmd'.seq
           \/ UNCHANGED <<ack, broken>>
    BY <1>1 DEF PlcReboots, PlcRestart, BootCmd, BootAck, RogueWrite, callVars, linkVars
  <2>2. ScanLives'
    <3>1. CASE PlcReboots
      <4>1. conveyor' = NewConveyor(InitialRamp) /\ params' = BootParams /\ scanner' = "running"
            /\ input' = BootInput
        BY <3>1 DEF PlcReboots, PlcRestart
      <4>2. QED
        BY <4>1, MachineAssumption, PlcAssumption
        DEF ScanLives, NumbersOnly, BootParams, NewConveyor
    <3>2. CASE \E cc \in Codes : RogueWrite(cc)
      <4>1. UNCHANGED <<conveyor, params, scanner, input>>
        BY <3>2 DEF RogueWrite
      <4>2. QED
        BY <4>1 DEF AlarmInv, ScanLives, NumbersOnly
    <3>3. QED
      BY <1>1, <3>1, <3>2
  <2>3. ASSUME NEW c \in Callers
        PROVE  AlarmsCovered(c)'
    <3>1. AlarmsCovered(c) /\ Covered
      BY DEF AlarmInv
    <3>2. CASE ack'.seq = cmd'.seq
      BY <2>1, <3>1, <3>2, AlarmTypes
      DEF AlarmsCovered, Covered, Unheard, Heard, Owed, Strays, Pending
    <3>3. CASE UNCHANGED <<ack, broken>>
      BY <2>1, <3>1, <3>3, AlarmTypes
      DEF AlarmsCovered, Covered, Unheard, Heard, Owed, Strays, Pending
    <3>4. QED
      BY <2>1, <3>2, <3>3
  <2>4. QED
    BY <2>1, <2>2, <2>3, AlarmTypes DEF AlarmInv, Covered
<1>2. CASE GatewayReboots
  <2>1. /\ issued' = NoSeq /\ \A c \in Callers : pc'[c] = "idle"
        /\ UNCHANGED <<params, conveyor, input, scanner, alarms, intrusions>>
    BY <1>2 DEF GatewayReboots
  <2>2. \A c \in Callers : AlarmsCovered(c)'
    BY <2>1 DEF AlarmsCovered, Heard
  <2>3. QED
    BY <2>1, <2>2 DEF AlarmInv, ScanLives, NumbersOnly, Covered
<1>3. CASE RogueRead
  <2>1. UNCHANGED <<issued, broken, pc, seq, sample, alarms, intrusions, ack, cmd,
                    params, conveyor, input, scanner>>
    BY <1>3 DEF RogueRead, plcVars, linkVars, callVars
  <2>2. QED
    BY <2>1 DEF AlarmInv, ScanLives, NumbersOnly, Covered, AlarmsCovered, Unheard,
                Heard, Owed, Strays, Pending
<1>4. QED
  BY <1>1, <1>2, <1>3 DEF Environment

\* The only call: what its steps do to its own account.
LEMMA AlarmCalls ==
  ASSUME HTypeOK, AlarmInv, "lostWrite" \notin Faults, NEW c \in Callers, CallStep(c)
  PROVE  AlarmsCovered(c)' /\ Covered'
<1> DEFINE Same == UNCHANGED <<ack, alarms, intrusions>>
<1>1. /\ AlarmsCovered(c) /\ Covered
      /\ CaughtUp => ack.seq = cmd.seq
  BY DEF AlarmInv, ScanLives, CaughtUp, Pending
<1>2. CASE \E cc \in Codes : Invoke(c, cc)
  <2>1. /\ pc[c] = "idle" /\ pc'[c] = "readAck"
        /\ Same /\ UNCHANGED <<cmd, issued>>
    BY <1>2 DEF Invoke, HTypeOK, plcVars, linkVars
  <2>2. QED
    BY <1>1, <2>1
    DEF AlarmsCovered, Covered, Unheard, Heard, Owed, Strays, Pending
<1>3. CASE ServeAck(c)
  <2>1. /\ pc[c] = "readAck" /\ pc'[c] = "gotAck" /\ sample'[c].seq = ack.seq
        /\ Same /\ UNCHANGED <<cmd, issued, seq>>
    BY <1>3 DEF ServeAck, ReadAck, Hold, HTypeOK, plcVars, history
  <2>2. QED
    BY <1>1, <2>1, AlarmTypes
    DEF AlarmsCovered, Covered, Unheard, Heard, Owed, Strays, Pending
<1>4. CASE ServePoll(c)
  <2>1. /\ pc[c] = "pollAck" /\ pc'[c] = "gotPoll" /\ sample'[c].seq = ack.seq
        /\ Same /\ UNCHANGED <<cmd, issued, seq>>
    BY <1>4 DEF ServePoll, ReadAck, Hold, HTypeOK, plcVars, history
  <2>2. QED
    BY <1>1, <2>1, AlarmTypes
    DEF AlarmsCovered, Covered, Unheard, Heard, Owed, Strays, Pending
<1>5. CASE ServeCmd(c)
  <2>1. /\ pc[c] = "sendCmd" /\ pc'[c] = "sentCmd" /\ cmd'.seq = seq[c] /\ ~broken'
        /\ Same /\ UNCHANGED seq
    BY <1>5 DEF ServeCmd, WriteCommand, Hold, HTypeOK, history
  <2>2. QED
    BY <1>1, <2>1 DEF AlarmsCovered, Covered, Unheard, Heard
<1>6. CASE Refuse(c)
  <2>1. /\ pc[c] = "gotAck" /\ pc'[c] = "idle" /\ issued' = sample[c].seq
        /\ issued # NoSeq /\ sample[c].seq # issued
        /\ alarms' = alarms + 1 /\ UNCHANGED <<ack, cmd, intrusions>>
    BY <1>6 DEF Refuse, Resync, InStep, Return, HTypeOK, plcVars
  <2>2. QED
    BY <1>1, <2>1, AlarmTypes
    DEF AlarmsCovered, Covered, Unheard, Heard, Owed, Strays, Pending
<1>7. CASE Number(c)
  <2>1. /\ pc[c] = "gotAck" /\ pc'[c] = "sendCmd" /\ issued' = issued
        /\ issued # NoSeq => sample[c].seq = issued
        /\ Same /\ UNCHANGED cmd
    BY <1>7 DEF Number, InStep, HTypeOK, plcVars, history
  <2>2. QED
    BY <1>1, <2>1, AlarmTypes
    DEF AlarmsCovered, Covered, Unheard, Heard, Owed, Strays, Pending
<1>8. CASE CmdSent(c)
  <2>1. /\ pc[c] = "sentCmd" /\ ~broken /\ pc'[c] = "pollAck" /\ issued' = seq[c]
        /\ Same /\ UNCHANGED <<cmd, seq>>
    BY <1>8 DEF CmdSent, Holds, HTypeOK, plcVars, history
  <2>2. QED
    BY <1>1, <2>1 DEF AlarmsCovered, Covered, Unheard, Heard, Owed
<1>9. CASE Acked(c)
  <2>1. /\ pc[c] = "gotPoll" /\ pc'[c] = "idle" /\ sample[c].seq = seq[c]
        /\ Same /\ UNCHANGED <<cmd, issued>>
    BY <1>9 DEF Acked, IsOurs, Return, HTypeOK, plcVars, history
  <2>2. QED
    BY <1>1, <2>1
    DEF AlarmsCovered, Covered, Unheard, Heard, Owed, Strays, Pending
<1>10. CASE NotAcked(c) \/ Wake(c)
  <2>1. /\ pc[c] \in {"gotPoll", "sleep"} /\ pc'[c] \in {"sleep", "pollAck"}
        /\ Same /\ UNCHANGED <<cmd, issued, seq>>
    BY <1>10 DEF NotAcked, Wake, HTypeOK, plcVars, linkVars, history
  <2>2. QED
    BY <1>1, <2>1 DEF AlarmsCovered, Covered, Unheard, Heard, Owed
<1>11. CASE Resend(c)
  <2>1. /\ \/ pc[c] = "gotAck" /\ pc'[c] = "readAck"
           \/ pc[c] = "sentCmd" /\ broken /\ pc'[c] = "sendCmd"
           \/ pc[c] = "gotPoll" /\ pc'[c] = "pollAck"
        /\ Same /\ UNCHANGED <<cmd, issued, seq>>
    BY <1>11 DEF Resend, SentAgainFrom, Served, Unanswered, LostResponse, Fault, HTypeOK,
                 history
  <2>2. QED
    BY <1>1, <2>1, AlarmTypes
    DEF AlarmsCovered, Covered, Unheard, Heard, Owed, Strays, Pending
<1>12. CASE GiveUp(c) \/ Timeout(c)
  <2>1. /\ CaughtUp /\ pc'[c] = "idle"
        /\ pc[c] \in Served \cup Unserved \cup {"sleep"}
        /\ pc[c] = "sentCmd" => broken
        /\ Same /\ UNCHANGED <<cmd, issued>>
    BY <1>12 DEF GiveUp, Timeout, Return, Served, Unserved, Unanswered, LostResponse, Fault,
                 HTypeOK, plcVars, linkVars, history
  <2>2. QED
    BY <1>1, <2>1, AlarmTypes
    DEF AlarmsCovered, Covered, Unheard, Heard, Owed, Strays, Pending, Served, Unserved
<1>13. QED
  BY <1>2, <1>3, <1>4, <1>5, <1>6, <1>7, <1>8, <1>9, <1>10, <1>11, <1>12
  DEF CallStep, Serve, Continue, Lose

LEMMA CallsLeaveScan ==
  ASSUME ScanLives, NEW c \in Callers, CallStep(c)
  PROVE  ScanLives'
<1>1. UNCHANGED <<params, conveyor, scanner>>
  BY DEF CallStep, Invoke, Serve, ServeAck, ServePoll, ReadAck, ServeCmd, Continue,
         Refuse, Number, CmdSent, Acked, NotAcked, Lose, Resend, GiveUp, Wake, Timeout,
         plcVars
<1>2. QED
  BY <1>1 DEF ScanLives, NumbersOnly

LEMMA AlarmStep ==
  ASSUME HTypeOK, AlarmInv, HearsOfIt, [HNext]_vars
  PROVE  AlarmInv'
<1>1. ASSUME NEW c \in Callers, CallStep(c)
      PROVE  AlarmInv'
  <2>1. AlarmsCovered(c)' /\ Covered'
    BY <1>1, AlarmCalls DEF HearsOfIt
  <2>3. ScanLives'
    BY <1>1, CallsLeaveScan DEF AlarmInv
  <2>4. \A d \in Callers : d = c
    BY DEF HearsOfIt, OneCaller
  <2>5. QED
    BY <2>1, <2>3, <2>4 DEF AlarmInv
<1>2. CASE UNCHANGED vars
  BY <1>2 DEF vars, plcVars, linkVars, callVars, history, AlarmInv, ScanLives, NumbersOnly,
              Covered, AlarmsCovered, Unheard, Heard, Owed, Strays, Pending
<1>3. QED
  BY <1>1, <1>2, AlarmScans, AlarmEnvironment DEF HNext, HearsOfIt

(* CommandContended is no false alarm where the gateway hears of every     *)
(* command of its own: whatever the other master does and whenever it does *)
(* it, through restarts of either side and lost requests and answers to    *)
(* reads, every refusal has a command of another master, or a restart of   *)
(* the PLC, of its own.                                                    *)
THEOREM AlarmsAreTrue == HSpec => []NoFalseAlarm
<1>1. CASE HearsOfIt
  <2>1. HTypeOK /\ AlarmInv /\ [HNext]_vars => AlarmInv'
    BY <1>1, AlarmStep
  <2>2. AlarmInv => NoFalseAlarm
    BY DEF AlarmInv, Covered, NoFalseAlarm
  <2>3. QED
    BY HTypeCorrect, AlarmInit, <2>1, <2>2, PTL DEF HSpec
<1>2. CASE ~HearsOfIt
  <2>1. NoFalseAlarm
    BY <1>2 DEF NoFalseAlarm
  <2>2. QED
    BY <2>1, PTL
<1>3. QED
  BY <1>1, <1>2

----------------------------------------------------------------------------
(* The stranger's command is noticed.  As long as no call of the gateway   *)
(* has overlapped with the other master or a restart, every stranger's     *)
(* number is ahead of the one the gateway issued last, by no more than the *)
(* stranger has written; and the gateway's own call finds the block at     *)
(* rest and leaves it so.                                                  *)

\* How far n has counted on from what the gateway issued last.
Ahead(n) == IF n >= issued THEN n - issued ELSE n + (SeqMax + 1) - issued

\* The numbers in the PLC, and in the hands of the other master, between calls.
Between ==
  /\ Ahead(ack.seq) \in 0 .. rogue.calls
  /\ rogue.pc = "read" => Ahead(rogue.seq) \in 1 .. rogue.calls
  /\ unnoticed => Ahead(cmd.seq) \in 1 .. rogue.calls
  /\ ~unnoticed => cmd.seq = issued /\ ack.seq = issued

\* Where the only call is, and what it finds in the PLC there.
Undisturbed(c) ==
  /\ rogue.pc = "read" => pc[c] = "idle"
  /\ pc[c] = "idle" /\ Pending => cmd.id = Foreign
  /\ pc[c] \in {"readAck", "gotAck", "sendCmd"} => ~Pending
  /\ pc[c] \in {"idle", "readAck", "gotAck"} /\ issued # NoSeq => Between
  /\ pc[c] = "gotAck" => sample[c].seq = ack.seq
  /\ pc[c] = "sendCmd" /\ issued # NoSeq => ack.seq = issued
  /\ pc[c] \notin {"idle", "readAck", "gotAck"} => ~unnoticed
  /\ pc[c] = "sentCmd" => cmd.seq = seq[c]
  /\ pc[c] \in {"pollAck", "gotPoll", "sleep"} => cmd.seq = seq[c] /\ issued = seq[c]
  /\ pc[c] = "gotPoll" /\ sample[c].seq = seq[c] => ack.seq = seq[c]

StrangerInv ==
  /\ ScanLives
  /\ unnoticed => issued # NoSeq
  /\ ~overlap => ~broken /\ \A c \in Callers : Undisturbed(c)

LEMMA StrangerTypes ==
  ASSUME HTypeOK
  PROVE  /\ SeqMax \in Nat /\ SeqMax >= 2 /\ MaxRogue \in Nat
         /\ ack.seq \in 0 .. SeqMax /\ cmd.seq \in 0 .. SeqMax /\ rogue.seq \in 0 .. SeqMax
         /\ issued \in 0 .. SeqMax \/ issued = NoSeq
         /\ NoSeq = -1
         /\ rogue.calls \in 0 .. MaxRogue
         /\ \A c \in Callers : seq[c] \in 0 .. SeqMax /\ sample[c].seq \in 0 .. SeqMax
  BY PlcAssumption, HandshakeAssumption DEF HTypeOK, PlcTypeOK, Seq16, NoSeq

\* The other master counts modulo the width of the register.
LEMMA CountsOn ==
  ASSUME NEW s \in 0 .. SeqMax
  PROVE  (s + 1) % (SeqMax + 1) = IF s = SeqMax THEN 0 ELSE s + 1
<1>1. SeqMax \in Nat /\ SeqMax >= 2 /\ s \in Nat
  BY PlcAssumption
<1>2. CASE s = SeqMax
  BY <1>1, <1>2
<1>3. CASE s # SeqMax
  BY <1>1, <1>3
<1>4. QED
  BY <1>2, <1>3

LEMMA StrangerInit == HInit => StrangerInv
<1> SUFFICES ASSUME HInit PROVE StrangerInv
  OBVIOUS
<1>1. \A c \in Callers : pc[c] = "idle"
  BY DEF HInit
<1>2. /\ issued = NoSeq /\ scanner = "running" /\ NumbersOnly
      /\ unnoticed = FALSE /\ broken = FALSE /\ ~Pending
  BY NumbersOnlyInit DEF HInit, PlcInit, BootCmd, BootAck, Pending
<1>3. QED
  BY <1>1, <1>2 DEF StrangerInv, ScanLives, Undisturbed

LEMMA StrangerScans ==
  ASSUME HTypeOK, StrangerInv, "overrun" \notin Faults, PlcScans
  PROVE  StrangerInv'
<1>1. /\ ScanLives' /\ ~Pending' /\ cmd' = cmd
      /\ ack'.seq = cmd.seq \/ (ack' = ack /\ ~Pending)
  BY ScanAnswers DEF StrangerInv
<1>2. UNCHANGED <<pc, issued, broken, seq, sample, rogue, overlap, unnoticed>>
  BY DEF PlcScans, callVars, linkVars, history
<1>3. ASSUME NEW c \in Callers, ~overlap
      PROVE  Undisturbed(c)'
  <2>1. Undisturbed(c)
    BY <1>3 DEF StrangerInv
  <2>2. Between => Between'
    BY <1>1, <1>2, StrangerTypes DEF Between, Ahead, Pending
  <2>3. pc[c] \in {"gotAck", "sendCmd"} => ack'.seq = ack.seq
    BY <1>1, <2>1 DEF Undisturbed, Pending
  <2>4. pc[c] = "gotPoll" /\ ack.seq = seq[c] => ack'.seq = seq[c]
    BY <1>1, <2>1 DEF Undisturbed
  <2>5. QED
    BY <1>1, <1>2, <2>1, <2>2, <2>3, <2>4 DEF Undisturbed
<1>4. QED
  BY <1>1, <1>2, <1>3 DEF StrangerInv

LEMMA StrangerEnvironment ==
  ASSUME HTypeOK, StrangerInv, MaxRogue <= SeqMax, Environment
  PROVE  StrangerInv'
<1>1. CASE PlcReboots
  <2>1. ScanLives'
    BY <1>1, MachineAssumption, PlcAssumption
    DEF PlcReboots, PlcRestart, ScanLives, NumbersOnly, BootParams, NewConveyor
  <2>2. overlap' /\ UNCHANGED <<issued, unnoticed>>
    BY <1>1 DEF PlcReboots
  <2>3. QED
    BY <2>1, <2>2 DEF StrangerInv
<1>2. CASE GatewayReboots
  <2>1. /\ issued' = NoSeq /\ ~unnoticed' /\ ~broken' /\ CaughtUp
        /\ \A c \in Callers : pc'[c] = "idle"
        /\ UNCHANGED <<params, cmd, ack, conveyor, scanner>>
    BY <1>2 DEF GatewayReboots, Release
  <2>2. ~Pending'
    BY <2>1 DEF StrangerInv, ScanLives, CaughtUp, Pending
  <2>3. \A c \in Callers : Undisturbed(c)'
    BY <2>1, <2>2 DEF Undisturbed
  <2>4. QED
    BY <2>1, <2>3 DEF StrangerInv, ScanLives, NumbersOnly
<1>3. CASE RogueRead
  <2>1. /\ rogue.pc = "idle" /\ rogue.calls + 1 <= MaxRogue
        /\ rogue'.calls = rogue.calls + 1
        /\ rogue'.seq = IF ack.seq = SeqMax THEN 0 ELSE ack.seq + 1
        /\ ~overlap' => ~overlap /\ Quiet
        /\ UNCHANGED <<issued, broken, pc, seq, sample, ack, cmd, params, conveyor, scanner,
                       unnoticed>>
    <3>1. rogue.calls < MaxRogue /\ rogue.calls \in Nat /\ MaxRogue \in Nat
      BY <1>3, StrangerTypes DEF RogueRead
    <3>2. (ack.seq + 1) % (SeqMax + 1) = IF ack.seq = SeqMax THEN 0 ELSE ack.seq + 1
      BY CountsOn, StrangerTypes
    <3>3. rogue'.seq = (ack.seq + 1) % (SeqMax + 1) /\ rogue'.calls = rogue.calls + 1
      BY <1>3 DEF RogueRead
    <3>4. /\ rogue.pc = "idle"
          /\ UNCHANGED <<issued, broken, pc, seq, sample, ack, cmd, params, conveyor, scanner,
                         unnoticed>>
      BY <1>3 DEF RogueRead, plcVars, linkVars, callVars
    <3>5. ~overlap' => ~overlap /\ Quiet
      BY <1>3 DEF RogueRead
    <3>6. QED
      BY <3>1, <3>2, <3>3, <3>4, <3>5
  <2>2. ASSUME NEW c \in Callers, ~overlap'
        PROVE  Undisturbed(c)'
    <3>1. Undisturbed(c) /\ pc[c] = "idle"
      BY <2>1, <2>2 DEF StrangerInv, Quiet
    <3>2. issued # NoSeq => Between'
      BY <2>1, <3>1, StrangerTypes DEF Undisturbed, Between, Ahead
    <3>3. QED
      BY <2>1, <3>1, <3>2 DEF Undisturbed, Pending
  <2>3. QED
    BY <2>1, <2>2 DEF StrangerInv, ScanLives, NumbersOnly
<1>4. ASSUME NEW cc \in Codes, RogueWrite(cc)
      PROVE  StrangerInv'
  <2>1. /\ rogue.pc = "read" /\ cmd'.seq = rogue.seq /\ cmd'.id = Foreign
        /\ rogue'.pc = "idle" /\ rogue'.calls = rogue.calls /\ rogue'.seq = rogue.seq
        /\ ~overlap' => ~overlap /\ Quiet
        /\ unnoticed' <=> unnoticed \/ issued # NoSeq
        /\ UNCHANGED <<issued, broken, pc, seq, sample, ack, params, conveyor, scanner>>
    BY <1>4 DEF RogueWrite, WriteCommand, linkVars, callVars, HTypeOK
  <2>2. ASSUME NEW c \in Callers, ~overlap'
        PROVE  Undisturbed(c)'
    <3>1. Undisturbed(c) /\ pc[c] = "idle"
      BY <2>1, <2>2 DEF StrangerInv, Quiet
    <3>2. issued # NoSeq => Between'
      BY <2>1, <3>1, StrangerTypes DEF Undisturbed, Between, Ahead
    <3>3. QED
      BY <2>1, <3>1, <3>2 DEF Undisturbed, Pending
  <2>3. QED
    BY <2>1, <2>2 DEF StrangerInv, ScanLives, NumbersOnly
<1>5. QED
  BY <1>1, <1>2, <1>3, <1>4 DEF Environment

\* The only call, while nobody has overlapped with it.
LEMMA StrangerCalls ==
  ASSUME HTypeOK, StrangerInv, "lostWrite" \notin Faults, NEW c \in Callers, CallStep(c),
         ~overlap'
  PROVE  Undisturbed(c)' /\ ~broken' /\ (unnoticed' => issued' # NoSeq)
<1> DEFINE Same == UNCHANGED <<ack, rogue>>
<1>1. ~overlap
  BY DEF CallStep, Invoke, Serve, ServeAck, ServePoll, ReadAck, ServeCmd, Continue,
         Refuse, Number, CmdSent, Acked, NotAcked, Lose, Resend, GiveUp, Wake, Timeout,
         history
<1>2. /\ Undisturbed(c) /\ ~broken
      /\ unnoticed => issued # NoSeq
      /\ CaughtUp => ack.seq = cmd.seq
  BY <1>1 DEF StrangerInv, ScanLives, CaughtUp, Pending
<1>3. CASE \E cc \in Codes : Invoke(c, cc)
  <2>1. /\ pc[c] = "idle" /\ pc'[c] = "readAck"
        /\ rogue.pc = "idle" /\ ~(Pending /\ cmd.id = Foreign)
        /\ Same /\ UNCHANGED <<cmd, issued, broken, unnoticed>>
    BY <1>3 DEF Invoke, HTypeOK, plcVars, linkVars
  <2>2. ~Pending
    BY <1>2, <2>1 DEF Undisturbed
  <2>3. Between => Between'
    BY <2>1 DEF Between, Ahead
  <2>4. QED
    BY <1>2, <2>1, <2>2, <2>3 DEF Undisturbed, Pending
<1>4. CASE ServeAck(c)
  <2>1. /\ pc[c] = "readAck" /\ pc'[c] = "gotAck" /\ sample'[c].seq = ack.seq
        /\ ~broken' /\ Same /\ UNCHANGED <<cmd, issued, seq, unnoticed>>
    BY <1>4 DEF ServeAck, ReadAck, Hold, HTypeOK, plcVars, history
  <2>2. Between => Between'
    BY <2>1 DEF Between, Ahead
  <2>3. QED
    BY <1>2, <2>1, <2>2 DEF Undisturbed, Pending
<1>5. CASE ServePoll(c)
  <2>1. /\ pc[c] = "pollAck" /\ pc'[c] = "gotPoll" /\ sample'[c].seq = ack.seq
        /\ ~broken' /\ Same /\ UNCHANGED <<cmd, issued, seq, unnoticed>>
    BY <1>5 DEF ServePoll, ReadAck, Hold, HTypeOK, plcVars, history
  <2>2. QED
    BY <1>2, <2>1 DEF Undisturbed
<1>6. CASE ServeCmd(c)
  <2>1. /\ pc[c] = "sendCmd" /\ pc'[c] = "sentCmd" /\ cmd'.seq = seq[c]
        /\ ~broken' /\ Same /\ UNCHANGED <<issued, seq, unnoticed>>
    BY <1>6 DEF ServeCmd, WriteCommand, Hold, HTypeOK, history
  <2>2. QED
    BY <1>2, <2>1 DEF Undisturbed
<1>7. CASE Refuse(c)
  <2>1. /\ pc[c] = "gotAck" /\ pc'[c] = "idle" /\ issued' = sample[c].seq
        /\ ~unnoticed' /\ ~broken' /\ Same /\ UNCHANGED cmd
    BY <1>7 DEF Refuse, Resync, Release, Return, HTypeOK, plcVars
  <2>2. ~Pending /\ sample[c].seq = ack.seq /\ rogue.pc # "read"
    BY <1>2, <2>1 DEF Undisturbed
  <2>3. Between' /\ ~Pending' /\ issued' # NoSeq
    BY <2>1, <2>2, StrangerTypes DEF Between, Ahead, Pending
  <2>4. QED
    BY <2>1, <2>2, <2>3 DEF Undisturbed
<1>8. CASE Number(c)
  <2>1. /\ pc[c] = "gotAck" /\ pc'[c] = "sendCmd" /\ InStep(c)
        /\ ~broken' /\ Same /\ UNCHANGED <<cmd, issued, unnoticed>>
    BY <1>8 DEF Number, Release, HTypeOK, plcVars, history
  <2>2. ~unnoticed
    <3>1. SUFFICES ASSUME unnoticed PROVE FALSE
      OBVIOUS
    <3>2. issued # NoSeq /\ ack.seq = issued /\ ack.seq = cmd.seq
      BY <1>2, <2>1, <3>1 DEF Undisturbed, InStep, Pending
    <3>3. Ahead(cmd.seq) >= 1
      BY <1>2, <2>1, <3>1, <3>2, StrangerTypes DEF Undisturbed, Between
    <3>4. QED
      BY <3>2, <3>3, StrangerTypes DEF Ahead
  <2>3. issued # NoSeq => ack.seq = issued
    BY <1>2, <2>1, <2>2 DEF Undisturbed, Between
  <2>4. QED
    BY <1>2, <2>1, <2>2, <2>3 DEF Undisturbed, Pending
<1>9. CASE CmdSent(c)
  <2>1. /\ pc[c] = "sentCmd" /\ pc'[c] = "pollAck" /\ issued' = seq[c]
        /\ ~broken' /\ Same /\ UNCHANGED <<cmd, seq, unnoticed>>
    BY <1>9 DEF CmdSent, Release, HTypeOK, plcVars, history
  <2>2. QED
    BY <1>2, <2>1 DEF Undisturbed
<1>10. CASE NotAcked(c) \/ Wake(c)
  <2>1. /\ pc[c] \in {"gotPoll", "sleep"} /\ pc'[c] \in {"sleep", "pollAck"}
        /\ ~broken' /\ Same /\ UNCHANGED <<cmd, issued, seq, unnoticed>>
    BY <1>2, <1>10 DEF NotAcked, Wake, Release, HTypeOK, plcVars, linkVars, history
  <2>2. QED
    BY <1>2, <2>1 DEF Undisturbed
<1>11. CASE Resend(c)
  <2>1. /\ \/ pc[c] = "gotAck" /\ pc'[c] = "readAck"
           \/ pc[c] = "gotPoll" /\ pc'[c] = "pollAck"
        /\ ~broken' /\ Same /\ UNCHANGED <<cmd, issued, seq, unnoticed>>
    BY <1>2, <1>11 DEF Resend, SentAgainFrom, Served, Unanswered, LostResponse, Fault,
                       HTypeOK, history
  <2>2. Between => Between'
    BY <2>1 DEF Between, Ahead
  <2>3. QED
    BY <1>2, <2>1, <2>2 DEF Undisturbed, Pending
<1>12. CASE Acked(c) \/ GiveUp(c) \/ Timeout(c)
  <2>1. /\ pc'[c] = "idle" /\ pc[c] \notin {"idle", "sentCmd"}
        /\ CaughtUp \/ (pc[c] = "gotPoll" /\ sample[c].seq = seq[c])
        /\ ~broken' /\ Same /\ UNCHANGED <<cmd, issued, unnoticed>>
    BY <1>2, <1>12
    DEF Acked, IsOurs, GiveUp, Timeout, Return, Release, Served, Unserved, Unanswered,
        LostResponse, Fault, HTypeOK, plcVars, linkVars, history
  <2>2. ~Pending
    BY <1>2, <2>1 DEF Undisturbed, Pending
  <2>3. issued # NoSeq => Between'
    <3>1. CASE pc[c] \in {"readAck", "gotAck"}
      BY <1>2, <2>1, <3>1 DEF Undisturbed, Between, Ahead
    <3>2. CASE pc[c] = "sendCmd"
      BY <1>2, <2>1, <2>2, <3>2, StrangerTypes DEF Undisturbed, Between, Ahead, Pending
    <3>3. CASE pc[c] \in {"pollAck", "gotPoll", "sleep"}
      BY <1>2, <2>1, <2>2, <3>3, StrangerTypes DEF Undisturbed, Between, Ahead, Pending
    <3>4. QED
      BY <2>1, <3>1, <3>2, <3>3 DEF HTypeOK, Served, Unserved
  <2>4. QED
    BY <1>2, <2>1, <2>2, <2>3 DEF Undisturbed, Pending
<1>13. QED
  BY <1>3, <1>4, <1>5, <1>6, <1>7, <1>8, <1>9, <1>10, <1>11, <1>12
  DEF CallStep, Serve, Continue, Lose

LEMMA StrangerStep ==
  ASSUME HTypeOK, StrangerInv, HearsOfIt, MaxRogue <= SeqMax, [HNext]_vars
  PROVE  StrangerInv'
<1>1. ASSUME NEW c \in Callers, CallStep(c)
      PROVE  StrangerInv'
  <2>1. ~overlap' => Undisturbed(c)' /\ ~broken' /\ (unnoticed' => issued' # NoSeq)
    BY <1>1, StrangerCalls DEF HearsOfIt
  <2>2. ScanLives'
    BY <1>1, CallsLeaveScan DEF StrangerInv
  <2>3. \A d \in Callers : d = c
    BY DEF HearsOfIt, OneCaller
  <2>4. unnoticed' => issued' # NoSeq
    <3>1. UNCHANGED <<unnoticed, issued>> \/ CmdSent(c) \/ Refuse(c)
      BY <1>1 DEF CallStep, Invoke, Serve, ServeAck, ServePoll, ReadAck, ServeCmd, Hold,
                  Continue, Number, Acked, NotAcked, Release, Lose, Resend, GiveUp, Wake,
                  Timeout, linkVars, history
    <3>2. CmdSent(c) => issued' = seq[c]
      BY DEF CmdSent
    <3>3. seq[c] # NoSeq
      BY StrangerTypes
    <3>4. Refuse(c) => ~unnoticed'
      BY DEF Refuse
    <3>5. QED
      BY <3>1, <3>2, <3>3, <3>4 DEF StrangerInv
  <2>5. QED
    BY <2>1, <2>2, <2>3, <2>4 DEF StrangerInv
<1>2. CASE UNCHANGED vars
  BY <1>2 DEF vars, plcVars, linkVars, callVars, history, StrangerInv, ScanLives,
              NumbersOnly, Undisturbed, Between, Ahead, Pending
<1>3. QED
  BY <1>1, <1>2, StrangerScans, StrangerEnvironment DEF HNext, HearsOfIt

(* A command of another master that fell between two calls is noticed:     *)
(* the gateway sends nothing more before it has refused a call for it, for *)
(* every width of the sequence number the other master does not count all  *)
(* the way round.                                                          *)
THEOREM StrangersAreNoticed ==
  ASSUME HearsOfIt, MaxRogue <= SeqMax
  PROVE  HSpec => []StrangerIsNoticed
<1>1. HTypeOK /\ StrangerInv /\ [HNext]_vars => StrangerInv'
  BY StrangerStep
<1>2. StrangerInv => StrangerIsNoticed
  BY DEF StrangerInv, StrangerIsNoticed, Undisturbed
<1>3. QED
  BY HTypeCorrect, StrangerInit, <1>1, <1>2, PTL DEF HSpec
============================================================================

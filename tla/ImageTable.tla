----------------------------- MODULE ImageTable -----------------------------
(***************************************************************************)
(* The PLC's image tables as its masters meet them: a contract file is     *)
(* loaded (contract/loader.py), the tables are laid out from it            *)
(* (plc/scan.py, _init_registers), the scan publishes into them, and       *)
(* PlcContext (plc/modbus_server.py) serves reads and writes of any range  *)
(* with any function code.  The gateway and the second master write and    *)
(* read signals by name (poller.py, server.py, rogue/master.py); another   *)
(* Modbus master may ask for anything.                                     *)
(*                                                                         *)
(* A request is one action: async_getValues and async_setValues await      *)
(* nothing.  What its waiting and its loss do is modelled in Handshake.    *)
(***************************************************************************)
EXTENDS Contract

CONSTANTS
  Contracts,    \* what config/tags.yaml may hold
  InitialRamp,  \* Conveyor.ramp_time when the PLC starts
  Published,    \* names of the signals the scan publishes
  Values,       \* what is written to or published for each signal, by its name
  Commands,     \* what is written to the command block
  Foreign,      \* writes and reads of another master: [fc, addr, words]
  MaxWrites     \* bound: writes and publications in a behaviour

VARIABLES
  contract,     \* the file
  process,      \* the PLC: loading it, serving, or gone by a ContractError
  memory,       \* Plc.memory: for each table, its addresses and their words
  held,         \* history: what each range was last given, in its own terms:
                \* one value, or none since a raw write of something else
  astray,       \* history: the signals of which a write by name was taken, and
                \* went to the holding registers, not to the signal's table
  answer,       \* what the last request was answered
  writes

imageVars == <<contract, process, memory, held, astray, answer, writes>>

ASSUME ImageAssumption ==
  /\ \A c \in Contracts :
       /\ Parsed(c)
       /\ \E i \in DOMAIN c.signals : c.signals[i].name = "ramp"
       /\ \A i \in DOMAIN c.signals :
            /\ c.signals[i].name = "ramp" => Encodable(c.signals[i], InitialRamp)
            /\ Values[c.signals[i].name] \subseteq Int
       /\ Commands \subseteq [1 .. c.command.size -> Word]
  /\ InitialRamp \in Int
  /\ Foreign \subseteq [fc : Nat, addr : Nat, words : Seq(Word)]
  /\ MaxWrites \in Nat

Unknown  == {}             \* no value; {v} is the value v
Answers(status) == [status |-> status, value |-> Unknown]

Signals   == DOMAIN contract.signals
CmdBlock  == Len(contract.signals) + 1     \* its place in Spans(contract)
Ranges    == DOMAIN Spans(contract)
SpanOf(i)  == Spans(contract)[i]

ImageInit ==
  /\ contract \in Contracts
  /\ process = "loading"
  /\ memory = <<>>
  /\ held = <<>>
  /\ astray = {}
  /\ answer = Answers("none")
  /\ writes = 0

----------------------------------------------------------------------------
(* Loading, and the tables it leads to. *)

Mapped(table) ==
  UNION {Addresses(SpanOf(i)) : i \in {j \in Ranges : SpanOf(j).table = table}}

\* Plc._init_registers: every address of the contract, at zero.
ZeroTables ==
  [t \in {SpanOf(i).table : i \in Ranges} |-> [a \in Mapped(t) |-> 0]]

Stored(tables, table, addr, words) ==
  [tables EXCEPT ![table] =
     [a \in DOMAIN @ |-> IF a \in addr .. addr + Len(words) - 1
                         THEN words[a - addr + 1] ELSE @[a]]]

Registers(tables, i) ==
  [a \in 1 .. SpanOf(i).stop - SpanOf(i).start |->
     tables[SpanOf(i).table][SpanOf(i).start + a - 1]]

RampSignal == CHOOSE i \in Signals : contract.signals[i].name = "ramp"

Load ==
  /\ process = "loading"
  /\ IF Valid(contract)
     THEN LET ramp == contract.signals[RampSignal]
          IN  /\ process' = "serving"
              /\ memory' = Stored(ZeroTables, ramp.table, ramp.addr,
                                  Encode(ramp, InitialRamp, contract))
              /\ held' = [i \in Ranges |-> IF i = RampSignal THEN {InitialRamp}
                                            ELSE IF i \in Signals THEN {0}
                                            ELSE Unknown]
     ELSE process' = "refused" /\ UNCHANGED <<memory, held>>
  /\ UNCHANGED <<contract, astray, answer, writes>>

----------------------------------------------------------------------------
(* PlcContext. *)

TableOf(fc) ==
  CASE fc \in {1, 5, 15}          -> "coil"
    [] fc = 2                     -> "discrete"
    [] fc \in {3, 6, 16, 22, 23}  -> "holding"
    [] fc = 4                     -> "input"
    [] OTHER                      -> "none"

Verdict(fc, addr, count) ==
  IF TableOf(fc) = "none" THEN "ILLEGAL_FUNCTION"
  ELSE IF /\ TableOf(fc) \in DOMAIN memory
          /\ addr .. addr + count - 1 \subseteq DOMAIN memory[TableOf(fc)]
       THEN "OK" ELSE "ILLEGAL_ADDRESS"

\* async_setValues
AfterWrite(fc, addr, words) ==
  IF Verdict(fc, addr, Len(words)) = "OK"
  THEN Stored(memory, TableOf(fc), addr, words) ELSE memory

\* What is known once the registers of `addr ..' were written as such.
Disturbed(fc, addr, words) ==
  [i \in Ranges |->
     IF /\ SpanOf(i).table = TableOf(fc)
        /\ Addresses(SpanOf(i)) \cap addr .. addr + Len(words) - 1 # {}
        /\ Verdict(fc, addr, Len(words)) = "OK"
     THEN Unknown ELSE held[i]]

ReadFunctions == {1, 2, 3, 4}

\* Registers written as such, by whoever counts addresses and not signals.
RawWrite(r) ==
  /\ writes < MaxWrites
  /\ writes' = writes + 1
  /\ memory' = AfterWrite(r.fc, r.addr, r.words)
  /\ held'   = Disturbed(r.fc, r.addr, r.words)

\* Every function but FC23: one call of PlcContext, and its answer.
ForeignRequest(r) ==
  /\ process = "serving"
  /\ r.fc # 23
  /\ answer' = Answers(Verdict(r.fc, r.addr, Len(r.words)))
  /\ IF r.fc \in ReadFunctions THEN UNCHANGED <<memory, held, writes>> ELSE RawWrite(r)
  /\ UNCHANGED <<contract, process, astray>>

(* FC23 writes one range and reads another, by a call for each.  A write   *)
(* that is refused ends it; one that is taken stays, whatever the read is  *)
(* answered.                                                               *)
ForeignReadWrite(r, q) ==
  /\ process = "serving"
  /\ r.fc = 23 /\ q.fc = 3
  /\ RawWrite(r)
  /\ answer' = Answers(IF Verdict(23, r.addr, Len(r.words)) = "OK"
                       THEN Verdict(23, q.addr, Len(q.words))
                       ELSE Verdict(23, r.addr, Len(r.words)))
  /\ UNCHANGED <<contract, process, astray>>

----------------------------------------------------------------------------
(* Masters that know the contract. *)

(* Gateway._set_signal and _push, or RogueMaster.write_signal: FC16 at the  *)
(* signal's address, whichever table the signal is in.  What the master is  *)
(* told is Good if those holding registers exist, whosesoever they are.  A  *)
(* value that does not fit raises in encode(), and nothing is sent.         *)
WriteSignal(i, v) ==
  LET s      == contract.signals[i]
      words  == Encode(s, v, contract)
      status == Verdict(16, s.addr, Len(words))
  IN  /\ process = "serving"
      /\ writes < MaxWrites
      /\ writes' = writes + 1
      /\ IF ~Encodable(s, v)
         THEN answer' = Answers("unpackable") /\ UNCHANGED <<memory, held, astray>>
         ELSE /\ answer' = Answers(status)
              /\ memory' = AfterWrite(16, s.addr, words)
              /\ held'   = IF status = "OK" THEN [held EXCEPT ![i] = {v}] ELSE held
              /\ astray' = IF status = "OK" /\ s.table # "holding"
                           THEN astray \cup {i} ELSE astray
      /\ UNCHANGED <<contract, process>>

\* write_block(command_block), as one request
WriteCommand(words) ==
  LET base == contract.command.base
  IN  /\ process = "serving"
      /\ writes < MaxWrites
      /\ writes' = writes + 1
      /\ answer' = Answers(Verdict(16, base, Len(words)))
      /\ memory' = AfterWrite(16, base, words)
      /\ held'   = [held EXCEPT ![CmdBlock] = {words}]
      /\ UNCHANGED <<contract, process, astray>>

\* A defect the runs must catch: everything is read with FC3.
BugReadFunction(s) == 3

\* ModbusLink._reader
ReadFunction(s) == IF s.table = "input" THEN 4 ELSE 3

\* ModbusLink.read_signal
Reading(i) ==
  LET s == contract.signals[i]
      status == Verdict(ReadFunction(s), s.addr, TypeWidth[s.type])
  IN  [status |-> status,
       value  |-> IF status = "OK"
                  THEN {Decode(s, [a \in 1 .. TypeWidth[s.type] |->
                                     memory[TableOf(ReadFunction(s))][s.addr + a - 1]],
                               contract)}
                  ELSE Unknown]

ReadSignal(i) ==
  /\ process = "serving"
  /\ answer' = Reading(i)
  /\ UNCHANGED <<contract, process, memory, held, astray, writes>>

\* Plc._publish, in write_outputs(): straight into the signal's own table.
Publish(i, v) ==
  LET s == contract.signals[i]
  IN  /\ process = "serving"
      /\ s.name \in Published
      /\ Encodable(s, v)
      /\ writes < MaxWrites
      /\ writes' = writes + 1
      /\ memory' = Stored(memory, s.table, s.addr, Encode(s, v, contract))
      /\ held'   = [held EXCEPT ![i] = {v}]
      /\ UNCHANGED <<contract, process, astray, answer>>

Request ==
  \/ \E r \in Foreign : ForeignRequest(r)
  \/ \E r, q \in Foreign : ForeignReadWrite(r, q)
  \/ \E i \in Signals : \E v \in Values[contract.signals[i].name] : WriteSignal(i, v)
  \/ \E words \in Commands : WriteCommand(words)
  \/ \E i \in Signals : ReadSignal(i)

ScanPublishes ==
  \E i \in Signals : \E v \in Values[contract.signals[i].name] : Publish(i, v)

ImageNext == Load \/ Request \/ ScanPublishes

ImageSpec == ImageInit /\ [][ImageNext]_imageVars

----------------------------------------------------------------------------
(* Properties. *)

\* What the registers of a range hold, in the terms `held' is kept in.
Content(tables, i) ==
  IF i \in Signals THEN Decode(contract.signals[i], Registers(tables, i), contract)
  ELSE Registers(tables, i)

Agrees(i, found, given) ==
  IF i \in Signals THEN Represents(contract.signals[i], found, given) ELSE found = given

\* Every address of the contract holds a word, and there are no others.
ImageTypeOK ==
  /\ contract \in Contracts
  /\ process \in {"loading", "serving", "refused"}
  /\ writes \in 0 .. MaxWrites
  /\ process = "serving" =>
       /\ DOMAIN memory = {SpanOf(i).table : i \in Ranges}
       /\ \A t \in DOMAIN memory : memory[t] \in [Mapped(t) -> Word]
       /\ DOMAIN held = Ranges /\ astray \subseteq Signals

(* loader.py:92: whatever the order of the file, a contract is accepted    *)
(* exactly when no two of its ranges share an address of one table (and    *)
(* its names, types, orders and kinds are in order).                       *)
LoadedIsSound == process # "loading" => (process = "serving" <=> WellFormed(contract))

(* A write by name goes to the holding registers at the signal's address   *)
(* (rogue/master.py:37-39, server.py:454).  One of a signal of another     *)
(* table is not found there by whoever reads the signal, and it strikes    *)
(* whatever range of the holding table lies at those addresses.            *)
Struck(i, strays) ==
  \/ i \in strays
  \/ /\ SpanOf(i).table = "holding"
     /\ \E j \in strays : Addresses(SpanOf(j)) \cap Addresses(SpanOf(i)) # {}

(* Unless such a write has struck it, a range of an accepted contract is   *)
(* what was last written to it by name, to within half a register unit: no *)
(* other write, publication or command meant for another signal or block   *)
(* reaches its registers, no raw write that was refused leaves a part of   *)
(* itself there, and what one process encodes the other decodes, 32 bits   *)
(* and their orders included.                                              *)
EachHoldsItsOwn ==
  process = "serving" =>
    \A i \in Ranges : \A v \in held[i] :
      ~Struck(i, astray) => Agrees(i, Content(memory, i), v)

(* The poll's reading of a signal of an accepted contract is never an      *)
(* error or a made-up zero, and, again unless a write by name gone astray  *)
(* has struck it, it is that signal's value and never another's registers. *)
(* It is so in the tables the poll has a reader for.                       *)
PollReadsIt ==
  [][ \A i \in Signals :
        ReadSignal(i) /\ contract.signals[i].table \in {"holding", "input"} =>
          /\ answer'.status = "OK"
          /\ ~Struck(i, astray) =>
               \A v \in held[i], w \in answer'.value : Agrees(i, w, v) ]_imageVars
=============================================================================

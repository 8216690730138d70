---------------------------- MODULE ImageProofs ----------------------------
(***************************************************************************)
(* The PLC's image tables for every contract file, every value and every   *)
(* request of any master: a signal is what was last written to it, unless  *)
(* a write by name that went astray has struck it.                         *)
(***************************************************************************)
EXTENDS ImageTable, ContractProofs, SequenceTheorems

----------------------------------------------------------------------------
(* The ranges of a contract that was accepted. *)

Accepted == contract \in Contracts /\ Valid(contract)

LEMMA ParsedContract ==
  ASSUME Accepted
  PROVE  /\ Parsed(contract) /\ WellFormed(contract)
         /\ SomeRanges(Spans(contract), Len(contract.signals) + 2)
<1>1. Parsed(contract)
  BY ImageAssumption DEF Accepted
<1>2. WellFormed(contract)
  BY <1>1, LoaderIsExact DEF Accepted
<1> QED BY <1>1, <1>2, SpansAreRanges DEF WellFormed

LEMMA SpanFacts ==
  ASSUME Accepted
  PROVE  /\ Signals \subseteq Ranges /\ CmdBlock \in Ranges \ Signals
         /\ \A i \in Ranges : /\ SpanOf(i).start \in Nat /\ SpanOf(i).stop \in Nat
                              /\ SpanOf(i).start < SpanOf(i).stop
         /\ \A i \in Signals : SpanOf(i) = SignalSpan(contract.signals[i])
         /\ SpanOf(CmdBlock) = BlockSpan(contract.command)
<1> DEFINE n == Len(contract.signals)
<1>1. n \in Nat /\ Signals = 1 .. n /\ Ranges = 1 .. n + 2
  BY ParsedContract, FieldsOfParsed DEF Signals, Ranges, SomeRanges
<1>2. \A i \in Ranges : /\ SpanOf(i).start \in Nat /\ SpanOf(i).stop \in Nat
                        /\ SpanOf(i).start < SpanOf(i).stop
  BY <1>1, ParsedContract DEF SomeRanges, SpanOf
<1>3. \A i \in Signals : SpanOf(i) = SignalSpan(contract.signals[i])
  BY <1>1 DEF SpanOf, Spans
<1>4. SpanOf(CmdBlock) = BlockSpan(contract.command)
  BY <1>1 DEF SpanOf, Spans, CmdBlock
<1> QED BY <1>1, <1>2, <1>3, <1>4 DEF CmdBlock

LEMMA SpansApart ==
  ASSUME Accepted, NEW i \in Ranges, NEW j \in Ranges, i # j,
         SpanOf(i).table = SpanOf(j).table
  PROVE  Addresses(SpanOf(i)) \cap Addresses(SpanOf(j)) = {}
  BY ParsedContract DEF WellFormed, Apart, Ranges, SpanOf

LEMMA SignalFacts ==
  ASSUME Accepted, NEW i \in Signals
  PROVE  /\ contract.signals[i].type \in Types
         /\ contract.signals[i].scale \in Nat \ {0}
         /\ contract.signals[i].type = "float32" => contract.signals[i].scale = 1
         /\ TypeWidth[contract.signals[i].type] \in {1, 2}
         /\ SpanOf(i).table = contract.signals[i].table
         /\ SpanOf(i).start = contract.signals[i].addr
         /\ SpanOf(i).stop = SpanOf(i).start + TypeWidth[contract.signals[i].type]
<1>1. contract.signals[i].type \in Types
  BY ParsedContract DEF WellFormed, Signals
<1>2. SpanOf(i) = SignalSpan(contract.signals[i])
  BY SpanFacts
<1> QED BY <1>1, <1>2, ParsedContract, FieldsOfParsed, TypesAre DEF Signals, SignalSpan

LEMMA MappedAddresses ==
  ASSUME NEW t, NEW a
  PROVE  a \in Mapped(t)
           <=> \E i \in Ranges : SpanOf(i).table = t /\ a \in Addresses(SpanOf(i))
  BY DEF Mapped

LEMMA SpanIsMapped ==
  ASSUME Accepted, NEW i \in Ranges, NEW a \in SpanOf(i).start .. SpanOf(i).stop - 1
  PROVE  a \in Mapped(SpanOf(i).table)
  BY MappedAddresses DEF Addresses

----------------------------------------------------------------------------
(* Storing words in tables, and reading a range back. *)

TablesOK(tables) ==
  /\ DOMAIN tables = {SpanOf(i).table : i \in Ranges}
  /\ \A t \in DOMAIN tables : tables[t] \in [Mapped(t) -> Word]

LEMMA WordsOfLength ==
  ASSUME NEW n \in Nat, NEW words \in [1 .. n -> Word]
  PROVE  words \in Seq(Word) /\ Len(words) = n
  BY SeqDef, LenProperties

LEMMA StoredIsOK ==
  ASSUME NEW tables, TablesOK(tables), NEW t \in DOMAIN tables,
         NEW addr \in Nat, NEW words \in Seq(Word)
  PROVE  TablesOK(Stored(tables, t, addr, words))
<1> DEFINE new == Stored(tables, t, addr, words)
<1>1. DOMAIN new = DOMAIN tables /\ \A u \in DOMAIN tables \ {t} : new[u] = tables[u]
  BY DEF Stored
<1>2. new[t] = [a \in DOMAIN tables[t] |->
                  IF a \in addr .. addr + Len(words) - 1
                  THEN words[a - addr + 1] ELSE tables[t][a]]
  BY DEF Stored
<1>3. DOMAIN tables[t] = Mapped(t) /\ \A a \in Mapped(t) : tables[t][a] \in Word
  BY DEF TablesOK
<1>4. \A a \in addr .. addr + Len(words) - 1 : words[a - addr + 1] \in Word
  <2> TAKE a \in addr .. addr + Len(words) - 1
  <2>1. Len(words) \in Nat /\ a - addr + 1 \in 1 .. Len(words)
    OBVIOUS
  <2> QED BY <2>1
<1>5. new[t] \in [Mapped(t) -> Word]
  BY <1>2, <1>3, <1>4
<1> QED BY <1>1, <1>5 DEF TablesOK

LEMMA RegistersElsewhere ==
  ASSUME Accepted, NEW tables, TablesOK(tables), NEW t \in DOMAIN tables,
         NEW addr \in Nat, NEW words \in Seq(Word), NEW i \in Ranges,
         SpanOf(i).table = t =>
           Addresses(SpanOf(i)) \cap addr .. addr + Len(words) - 1 = {}
  PROVE  Registers(Stored(tables, t, addr, words), i) = Registers(tables, i)
<1> DEFINE new == Stored(tables, t, addr, words)
           u == SpanOf(i).table
<1>1. u \in DOMAIN tables
  BY DEF TablesOK
<1>2. ASSUME NEW a \in SpanOf(i).start .. SpanOf(i).stop - 1
      PROVE  new[u][a] = tables[u][a]
  <2>1. a \in DOMAIN tables[u]
    BY <1>1, SpanIsMapped DEF TablesOK
  <2>2. u = t => a \notin addr .. addr + Len(words) - 1
    BY DEF Addresses
  <2> QED BY <1>1, <2>1, <2>2 DEF Stored
<1>3. ASSUME NEW a \in 1 .. SpanOf(i).stop - SpanOf(i).start
      PROVE  SpanOf(i).start + a - 1 \in SpanOf(i).start .. SpanOf(i).stop - 1
  BY SpanFacts
<1> QED BY <1>2, <1>3 DEF Registers

LEMMA RegistersHere ==
  ASSUME Accepted, NEW tables, TablesOK(tables), NEW i \in Ranges,
         NEW words \in [1 .. SpanOf(i).stop - SpanOf(i).start -> Word]
  PROVE  Registers(Stored(tables, SpanOf(i).table, SpanOf(i).start, words), i) = words
<1> DEFINE t == SpanOf(i).table
           start == SpanOf(i).start
           width == SpanOf(i).stop - SpanOf(i).start
           new == Stored(tables, t, start, words)
<1>1. t \in DOMAIN tables /\ start \in Nat /\ width \in Nat
  BY SpanFacts DEF TablesOK
<1>2. Len(words) = width
  BY <1>1, WordsOfLength
<1>3. ASSUME NEW a \in 1 .. width
      PROVE  new[t][start + a - 1] = words[a]
  <2>1. start + a - 1 \in start .. SpanOf(i).stop - 1
    BY <1>1, SpanFacts
  <2>2. start + a - 1 \in DOMAIN tables[t]
    BY <1>1, <2>1, SpanIsMapped DEF TablesOK
  <2>3. start + a - 1 \in start .. start + Len(words) - 1 /\ (start + a - 1) - start + 1 = a
    BY <1>1, <1>2, <1>3
  <2> QED BY <1>1, <2>2, <2>3 DEF Stored
<1> QED BY <1>3 DEF Registers

----------------------------------------------------------------------------
(* What the ranges say, and what a write does to it. *)

Keeps(tables, given, strays) ==
  \A i \in Ranges : \A v \in given[i] :
    ~Struck(i, strays) => Agrees(i, Content(tables, i), v)

\* What is stored in one range reaches no other.
LEMMA OthersStay ==
  ASSUME Accepted, NEW tables, TablesOK(tables), NEW i \in Ranges,
         NEW words \in [1 .. SpanOf(i).stop - SpanOf(i).start -> Word]
  PROVE  /\ TablesOK(Stored(tables, SpanOf(i).table, SpanOf(i).start, words))
         /\ \A j \in Ranges \ {i} :
              Registers(Stored(tables, SpanOf(i).table, SpanOf(i).start, words), j)
                = Registers(tables, j)
<1> DEFINE t == SpanOf(i).table
           start == SpanOf(i).start
           width == SpanOf(i).stop - SpanOf(i).start
<1>1. t \in DOMAIN tables /\ start \in Nat /\ width \in Nat
  BY SpanFacts DEF TablesOK
<1>2. words \in Seq(Word) /\ Len(words) = width
  BY <1>1, WordsOfLength
<1>3. TablesOK(Stored(tables, t, start, words))
  BY <1>1, <1>2, StoredIsOK
<1>4. Addresses(SpanOf(i)) = start .. start + Len(words) - 1
  BY <1>1, <1>2, SpanFacts DEF Addresses
<1>5. ASSUME NEW j \in Ranges \ {i}
      PROVE  Registers(Stored(tables, t, start, words), j) = Registers(tables, j)
  <2>1. SpanOf(j).table = t =>
          Addresses(SpanOf(j)) \cap start .. start + Len(words) - 1 = {}
    BY <1>4, SpansApart
  <2> HIDE DEF t, start
  <2> QED BY <1>1, <1>2, <2>1, RegistersElsewhere
<1> QED BY <1>3, <1>5

LEMMA SignalTakesValue ==
  ASSUME Accepted, NEW tables, TablesOK(tables), NEW i \in Signals, NEW v \in Int,
         Encodable(contract.signals[i], v)
  PROVE  LET s == contract.signals[i]
             words == Encode(s, v, contract)
             new == Stored(tables, s.table, s.addr, words)
         IN  /\ words \in Seq(Word) /\ Len(words) = SpanOf(i).stop - SpanOf(i).start
             /\ TablesOK(new)
             /\ Agrees(i, Content(new, i), v)
             /\ \A j \in Ranges \ {i} : Content(new, j) = Content(tables, j)
<1> DEFINE s == contract.signals[i]
           words == Encode(s, v, contract)
           new == Stored(tables, s.table, s.addr, words)
<1>1. i \in Ranges /\ SpanOf(i).table = s.table /\ SpanOf(i).start = s.addr
      /\ SpanOf(i).start \in Nat
      /\ TypeWidth[s.type] \in {1, 2}
      /\ SpanOf(i).stop = SpanOf(i).start + TypeWidth[s.type]
  BY SpanFacts, SignalFacts
<1>2. /\ words \in [1 .. TypeWidth[s.type] -> Word]
      /\ Represents(s, Decode(s, words, contract), v)
  BY SignalFacts, EncodeRepresents
<1>3. words \in [1 .. SpanOf(i).stop - SpanOf(i).start -> Word]
  BY <1>1, <1>2
<1>4. words \in Seq(Word) /\ Len(words) = SpanOf(i).stop - SpanOf(i).start
  BY <1>1, <1>2, WordsOfLength
<1> HIDE DEF words
<1>5. /\ TablesOK(new)
      /\ \A j \in Ranges \ {i} : Registers(new, j) = Registers(tables, j)
  BY <1>1, <1>3, OthersStay
<1>6. Registers(new, i) = words
  BY <1>1, <1>3, RegistersHere
<1>7. Agrees(i, Content(new, i), v)
  BY <1>2, <1>6 DEF Agrees, Content
<1>8. \A j \in Ranges \ {i} : Content(new, j) = Content(tables, j)
  BY <1>5 DEF Content
<1> QED BY <1>4, <1>5, <1>7, <1>8 DEF words

\* A raw write, taken or refused, leaves tables tables ...
LEMMA WrittenIsOK ==
  ASSUME TablesOK(memory), NEW fc, NEW addr \in Nat, NEW words \in Seq(Word)
  PROVE  TablesOK(AfterWrite(fc, addr, words))
<1>1. CASE Verdict(fc, addr, Len(words)) = "OK"
  BY <1>1, StoredIsOK DEF AfterWrite, Verdict
<1>2. CASE Verdict(fc, addr, Len(words)) # "OK"
  BY <1>2 DEF AfterWrite
<1> QED BY <1>1, <1>2

\* ... and the ranges it does not reach as they were.
LEMMA WrittenElsewhere ==
  ASSUME Accepted, TablesOK(memory), NEW fc, NEW addr \in Nat, NEW words \in Seq(Word),
         NEW i \in Ranges,
         Verdict(fc, addr, Len(words)) = "OK" /\ SpanOf(i).table = TableOf(fc) =>
           Addresses(SpanOf(i)) \cap addr .. addr + Len(words) - 1 = {}
  PROVE  Content(AfterWrite(fc, addr, words), i) = Content(memory, i)
<1> DEFINE t == TableOf(fc)
<1>1. CASE Verdict(fc, addr, Len(words)) = "OK"
  <2>1. AfterWrite(fc, addr, words) = Stored(memory, t, addr, words)
    BY <1>1 DEF AfterWrite
  <2>2. t \in DOMAIN memory
    BY <1>1 DEF Verdict
  <2>3. SpanOf(i).table = t => Addresses(SpanOf(i)) \cap addr .. addr + Len(words) - 1 = {}
    BY <1>1
  <2> HIDE DEF t
  <2>4. Registers(Stored(memory, t, addr, words), i) = Registers(memory, i)
    BY <2>2, <2>3, RegistersElsewhere
  <2> QED BY <2>1, <2>4 DEF Content
<1>2. CASE Verdict(fc, addr, Len(words)) # "OK"
  BY <1>2 DEF AfterWrite
<1> QED BY <1>1, <1>2

\* Any request, of any master: what is still said of each range is so.
LEMMA RequestKeeps ==
  ASSUME Accepted, TablesOK(memory), DOMAIN held = Ranges, Keeps(memory, held, astray),
         NEW fc, NEW addr \in Nat, NEW words \in Seq(Word)
  PROVE  /\ TablesOK(AfterWrite(fc, addr, words))
         /\ DOMAIN Disturbed(fc, addr, words) = Ranges
         /\ Keeps(AfterWrite(fc, addr, words), Disturbed(fc, addr, words), astray)
<1> DEFINE given == Disturbed(fc, addr, words)
<1>1. DOMAIN given = Ranges /\ \A i \in Ranges : given[i] \subseteq held[i]
  BY DEF Disturbed, Unknown
<1>2. ASSUME NEW i \in Ranges, NEW v \in given[i], ~Struck(i, astray)
      PROVE  Agrees(i, Content(AfterWrite(fc, addr, words), i), v)
  <2>1. Verdict(fc, addr, Len(words)) = "OK" /\ SpanOf(i).table = TableOf(fc) =>
          Addresses(SpanOf(i)) \cap addr .. addr + Len(words) - 1 = {}
    BY <1>2 DEF Disturbed, Unknown
  <2>2. Content(AfterWrite(fc, addr, words), i) = Content(memory, i)
    BY <2>1, WrittenElsewhere
  <2>3. Agrees(i, Content(memory, i), v)
    BY <1>1, <1>2 DEF Keeps
  <2> QED BY <2>2, <2>3
<1>3. Keeps(AfterWrite(fc, addr, words), given, astray)
  BY <1>2 DEF Keeps
<1> QED BY <1>1, <1>3, WrittenIsOK

\* A write within one range of the contract is carried out.
LEMMA OwnRangeIsServed ==
  ASSUME Accepted, TablesOK(memory), NEW i \in Ranges, NEW fc,
         TableOf(fc) = SpanOf(i).table, TableOf(fc) # "none"
  PROVE  Verdict(fc, SpanOf(i).start, SpanOf(i).stop - SpanOf(i).start) = "OK"
<1> DEFINE start == SpanOf(i).start
           width == SpanOf(i).stop - SpanOf(i).start
<1>1. start \in Nat /\ start + width - 1 = SpanOf(i).stop - 1
  BY SpanFacts
<1>2. TableOf(fc) \in DOMAIN memory /\ DOMAIN memory[TableOf(fc)] = Mapped(SpanOf(i).table)
  BY DEF TablesOK
<1>3. start .. start + width - 1 \subseteq Mapped(SpanOf(i).table)
  BY <1>1, SpanIsMapped
<1> QED BY <1>2, <1>3 DEF Verdict

----------------------------------------------------------------------------
(* The invariant.  EachHoldsItsOwn is not inductive without the tables'    *)
(* type (a word stored nowhere would not be found again) and without the   *)
(* contract's having been accepted (or its ranges might overlap).          *)

IInv ==
  /\ contract \in Contracts
  /\ process \in {"loading", "serving", "refused"}
  /\ writes \in 0 .. MaxWrites
  /\ process = "refused" => ~Valid(contract)
  /\ process = "loading" => astray = {}
  /\ process = "serving" => /\ Valid(contract)
                            /\ TablesOK(memory)
                            /\ DOMAIN held = Ranges
                            /\ astray \subseteq Signals
                            /\ Keeps(memory, held, astray)

\* The contract never changes, and so neither does what it says of a state.
LEMMA ContractStays ==
  ASSUME contract' = contract
  PROVE  /\ TablesOK(memory)' <=> TablesOK(memory')
         /\ Ranges' = Ranges /\ Signals' = Signals
         /\ Keeps(memory, held, astray)' <=> Keeps(memory', held', astray')
<1>1. Ranges' = Ranges /\ Signals' = Signals
  BY DEF Ranges, Signals
<1>2. TablesOK(memory)' <=> TablesOK(memory')
  BY <1>1 DEF TablesOK, Mapped, SpanOf
<1>3. Keeps(memory, held, astray)' <=> Keeps(memory', held', astray')
  BY <1>1 DEF Keeps, Struck, Agrees, Content, Registers, SpanOf
<1> QED BY <1>1, <1>2, <1>3

\* What is left to show of a step of a process that serves.
LEMMA ServingStep ==
  ASSUME IInv, process = "serving", contract' = contract, process' = process,
         writes' \in 0 .. MaxWrites, TablesOK(memory'), DOMAIN held' = Ranges,
         astray' \subseteq Signals, Keeps(memory', held', astray')
  PROVE  IInv'
<1>1. contract' \in Contracts /\ process' = "serving" /\ Valid(contract')
  BY DEF IInv
<1>2. /\ TablesOK(memory)' /\ DOMAIN held' = Ranges' /\ astray' \subseteq Signals'
      /\ Keeps(memory, held, astray)'
  BY ContractStays
<1> QED BY <1>1, <1>2 DEF IInv

LEMMA RampIsASignal ==
  ASSUME Accepted
  PROVE  RampSignal \in Signals /\ Encodable(contract.signals[RampSignal], InitialRamp)
<1>1. \E i \in Signals : contract.signals[i].name = "ramp"
  BY ImageAssumption DEF Accepted, Signals
<1>2. RampSignal \in Signals /\ contract.signals[RampSignal].name = "ramp"
  BY <1>1 DEF RampSignal
<1> QED BY <1>2, ImageAssumption DEF Accepted, Signals

LEMMA ZerosAreKept ==
  ASSUME Accepted
  PROVE  /\ TablesOK(ZeroTables)
         /\ \A i \in Signals : Agrees(i, Content(ZeroTables, i), 0)
<1>1. 0 \in Word
  BY SquareIsNat DEF Word
<1>2. TablesOK(ZeroTables)
  BY <1>1 DEF TablesOK, ZeroTables
<1>3. ASSUME NEW i \in Signals PROVE Agrees(i, Content(ZeroTables, i), 0)
  <2> DEFINE type == contract.signals[i].type
             zeros == [a \in 1 .. TypeWidth[type] |-> 0]
  <2>1. /\ i \in Ranges /\ SpanOf(i).start \in Nat /\ TypeWidth[type] \in {1, 2}
        /\ SpanOf(i).stop = SpanOf(i).start + TypeWidth[type]
    BY SpanFacts, SignalFacts
  <2>2. ASSUME NEW a \in 1 .. TypeWidth[type]
        PROVE  ZeroTables[SpanOf(i).table][SpanOf(i).start + a - 1] = 0
    <3>1. SpanOf(i).start + a - 1 \in SpanOf(i).start .. SpanOf(i).stop - 1
      BY <2>1
    <3>2. SpanOf(i).start + a - 1 \in Mapped(SpanOf(i).table)
      BY <2>1, <3>1, SpanIsMapped
    <3> QED BY <2>1, <3>2 DEF ZeroTables
  <2>3. SpanOf(i).stop - SpanOf(i).start = TypeWidth[type]
    BY <2>1
  <2>4. Registers(ZeroTables, i) = zeros
    BY <2>2, <2>3 DEF Registers
  <2>5. Represents(contract.signals[i], Decode(contract.signals[i], zeros, contract), 0)
    <3> HIDE DEF zeros
    <3> QED BY SignalFacts, ZeroRepresentsZero DEF zeros
  <2> QED BY <2>4, <2>5 DEF Agrees, Content
<1> QED BY <1>2, <1>3

LEMMA ImageInvInit == ImageInit => IInv
  BY ImageAssumption DEF ImageInit, IInv

LEMMA LoadKeepsInv ==
  ASSUME IInv, Load
  PROVE  IInv'
<1>1. /\ contract' = contract /\ contract \in Contracts /\ writes' \in 0 .. MaxWrites
      /\ astray' = {}
  BY DEF IInv, Load
<1>2. CASE Valid(contract)
  <2> DEFINE ramp == contract.signals[RampSignal]
             words == Encode(ramp, InitialRamp, contract)
             new == Stored(ZeroTables, ramp.table, ramp.addr, words)
  <2>1. Accepted
    BY <1>1, <1>2 DEF Accepted
  <2>2. /\ process' = "serving" /\ memory' = new
        /\ held' = [i \in Ranges |-> IF i = RampSignal THEN {InitialRamp}
                                      ELSE IF i \in Signals THEN {0} ELSE Unknown]
    BY <1>2 DEF Load
  <2>3. InitialRamp \in Int
    BY ImageAssumption
  <2>4. /\ TablesOK(new) /\ Agrees(RampSignal, Content(new, RampSignal), InitialRamp)
        /\ \A j \in Ranges \ {RampSignal} : Content(new, j) = Content(ZeroTables, j)
    BY <2>1, <2>3, RampIsASignal, ZerosAreKept, SignalTakesValue
  <2>5. DOMAIN held' = Ranges
    BY <2>2
  <2>6. Keeps(new, held', astray')
    <3> SUFFICES ASSUME NEW i \in Ranges, NEW v \in held'[i]
                 PROVE  Agrees(i, Content(new, i), v)
      BY DEF Keeps
    <3>1. CASE i = RampSignal
      <4>1. v = InitialRamp
        BY <2>2, <3>1
      <4> QED BY <2>4, <3>1, <4>1
    <3>2. CASE i # RampSignal
      <4>1. i \in Signals /\ v = 0
        BY <2>2, <3>2 DEF Unknown
      <4>2. Content(new, i) = Content(ZeroTables, i)
        BY <2>4, <3>2
      <4> QED BY <2>1, <4>1, <4>2, ZerosAreKept
    <3> QED BY <3>1, <3>2
  <2> HIDE DEF new
  <2>7. TablesOK(memory') /\ Keeps(memory', held', astray')
    BY <2>2, <2>4, <2>6
  <2>8. astray' \subseteq Signals'
    BY <1>1
  <2> QED BY <1>1, <1>2, <2>2, <2>5, <2>7, <2>8, ContractStays DEF IInv
<1>3. CASE ~Valid(contract)
  BY <1>1, <1>3 DEF IInv, Load
<1> QED BY <1>2, <1>3

LEMMA RawWriteKeepsInv ==
  ASSUME IInv, process = "serving", process' = process, contract' = contract,
         astray' = astray, NEW r \in Foreign, RawWrite(r)
  PROVE  IInv'
<1>1. /\ TablesOK(memory) /\ DOMAIN held = Ranges /\ astray \subseteq Signals
      /\ Keeps(memory, held, astray) /\ Accepted
  BY DEF IInv, Accepted
<1>2. r.addr \in Nat /\ r.words \in Seq(Word)
  BY ImageAssumption
<1>3. MaxWrites \in Nat /\ writes' \in 0 .. MaxWrites
  BY ImageAssumption DEF IInv, RawWrite
<1>4. /\ memory' = AfterWrite(r.fc, r.addr, r.words)
      /\ held' = Disturbed(r.fc, r.addr, r.words)
  BY DEF RawWrite
<1>5. TablesOK(memory') /\ DOMAIN held' = Ranges /\ Keeps(memory', held', astray)
  BY <1>1, <1>2, <1>4, RequestKeeps
<1> QED BY <1>1, <1>3, <1>5, ServingStep

\* A step that writes nothing.
LEMMA IdleKeepsInv ==
  ASSUME IInv, process = "serving",
         UNCHANGED <<contract, process, memory, held, astray, writes>>
  PROVE  IInv'
  BY ServingStep DEF IInv

LEMMA ForeignKeepsInv ==
  ASSUME IInv, NEW r \in Foreign, ForeignRequest(r)
  PROVE  IInv'
<1>1. /\ process = "serving" /\ process' = process /\ contract' = contract
      /\ astray' = astray
  BY DEF ForeignRequest
<1>2. CASE r.fc \in ReadFunctions
  <2>1. memory' = memory /\ held' = held /\ writes' = writes
    BY <1>2 DEF ForeignRequest
  <2> QED BY <1>1, <2>1, IdleKeepsInv
<1>3. CASE r.fc \notin ReadFunctions
  <2>1. RawWrite(r)
    BY <1>3 DEF ForeignRequest
  <2> QED BY <1>1, <2>1, RawWriteKeepsInv
<1> QED BY <1>2, <1>3

LEMMA ReadWriteKeepsInv ==
  ASSUME IInv, NEW r \in Foreign, NEW q \in Foreign, ForeignReadWrite(r, q)
  PROVE  IInv'
<1>1. /\ process = "serving" /\ process' = process /\ contract' = contract
      /\ astray' = astray /\ RawWrite(r)
  BY DEF ForeignReadWrite
<1> QED BY <1>1, RawWriteKeepsInv

\* A signal that is stored by name is known from then on; the rest stays known.
LEMMA GivenIsKept ==
  ASSUME Accepted, TablesOK(memory), DOMAIN held = Ranges, Keeps(memory, held, astray),
         NEW i \in Signals, NEW v \in Int, Encodable(contract.signals[i], v)
  PROVE  LET s == contract.signals[i]
             new == Stored(memory, s.table, s.addr, Encode(s, v, contract))
             given == [held EXCEPT ![i] = {v}]
         IN  TablesOK(new) /\ DOMAIN given = Ranges /\ Keeps(new, given, astray)
<1> DEFINE s == contract.signals[i]
           new == Stored(memory, s.table, s.addr, Encode(s, v, contract))
           given == [held EXCEPT ![i] = {v}]
<1>1. /\ TablesOK(new) /\ Agrees(i, Content(new, i), v)
      /\ \A j \in Ranges \ {i} : Content(new, j) = Content(memory, j)
  BY SignalTakesValue
<1> HIDE DEF new
<1>2. Keeps(new, given, astray)
  <2> SUFFICES ASSUME NEW j \in Ranges, NEW w \in given[j], ~Struck(j, astray)
               PROVE  Agrees(j, Content(new, j), w)
    BY DEF Keeps
  <2>1. CASE j = i
    BY <1>1, <2>1
  <2>2. CASE j # i
    <3>1. w \in held[j]
      BY <2>2
    <3>2. Agrees(j, Content(memory, j), w)
      BY <3>1 DEF Keeps
    <3> QED BY <1>1, <2>2, <3>2
  <2> QED BY <2>1, <2>2
<1> QED BY <1>1, <1>2 DEF new

LEMMA ValuesAreWhole ==
  ASSUME Accepted, NEW i \in Signals, NEW v \in Values[contract.signals[i].name]
  PROVE  v \in Int
  BY ImageAssumption DEF Accepted, Signals

LEMMA WriteKeepsInv ==
  ASSUME IInv, NEW i \in Signals, NEW v \in Values[contract.signals[i].name],
         WriteSignal(i, v)
  PROVE  IInv'
<1> DEFINE s == contract.signals[i]
           words == Encode(s, v, contract)
<1>1. /\ process = "serving" /\ process' = process /\ contract' = contract
      /\ TablesOK(memory) /\ DOMAIN held = Ranges /\ astray \subseteq Signals
      /\ Keeps(memory, held, astray) /\ Accepted
  BY DEF IInv, WriteSignal, Accepted
<1>2. MaxWrites \in Nat /\ writes' \in 0 .. MaxWrites
  BY ImageAssumption DEF IInv, WriteSignal
<1>3. v \in Int
  BY <1>1, ValuesAreWhole
<1>4. CASE ~Encodable(s, v)
  <2>1. memory' = memory /\ held' = held /\ astray' = astray
    BY <1>4 DEF WriteSignal
  <2> QED BY <1>1, <1>2, <2>1, ServingStep
<1>5. CASE Encodable(s, v)
  <2> DEFINE status == Verdict(16, s.addr, Len(words))
  <2>1. /\ memory' = AfterWrite(16, s.addr, words)
        /\ held' = IF status = "OK" THEN [held EXCEPT ![i] = {v}] ELSE held
        /\ astray' = IF status = "OK" /\ s.table # "holding" THEN astray \cup {i} ELSE astray
    BY <1>5 DEF WriteSignal
  <2>2. words \in Seq(Word) /\ Len(words) = SpanOf(i).stop - SpanOf(i).start
    BY <1>1, <1>3, <1>5, SignalTakesValue
  <2>3. /\ i \in Ranges /\ SpanOf(i).table = s.table /\ SpanOf(i).start = s.addr
        /\ s.addr \in Nat /\ SpanOf(i).stop \in Nat
    BY <1>1, SpanFacts, SignalFacts
  <2>4. TableOf(16) = "holding"
    BY DEF TableOf
  <2>5. CASE s.table = "holding"
    <3>1. status = "OK"
      <4> HIDE DEF words
      <4> QED BY <1>1, <2>2, <2>3, <2>4, <2>5, OwnRangeIsServed
    <3>2. memory' = Stored(memory, s.table, s.addr, words)
      BY <2>1, <2>4, <2>5, <3>1 DEF AfterWrite
    <3>3. held' = [held EXCEPT ![i] = {v}] /\ astray' = astray
      BY <2>1, <2>5, <3>1
    <3>4. TablesOK(memory') /\ DOMAIN held' = Ranges /\ Keeps(memory', held', astray)
      BY <1>1, <1>3, <1>5, <3>2, <3>3, GivenIsKept
    <3> QED BY <1>1, <1>2, <3>3, <3>4, ServingStep
  <2>6. CASE s.table # "holding" /\ status # "OK"
    <3>1. memory' = memory /\ held' = held /\ astray' = astray
      BY <2>1, <2>6 DEF AfterWrite
    <3> QED BY <1>1, <1>2, <3>1, ServingStep
  <2>7. CASE s.table # "holding" /\ status = "OK"
    <3> HIDE DEF words
    <3>1. held' = [held EXCEPT ![i] = {v}] /\ astray' = astray \cup {i}
      BY <2>1, <2>7
    <3>2. TablesOK(memory')
      BY <1>1, <2>1, <2>2, <2>3, WrittenIsOK
    <3>3. ASSUME NEW j \in Ranges, NEW w \in held'[j], ~Struck(j, astray')
          PROVE  Agrees(j, Content(memory', j), w)
      <4>1. j # i /\ ~Struck(j, astray)
        BY <3>1, <3>3 DEF Struck
      <4>2. SpanOf(j).table = "holding" => Addresses(SpanOf(i)) \cap Addresses(SpanOf(j)) = {}
        BY <3>1, <3>3 DEF Struck
      <4>3. Addresses(SpanOf(i)) = s.addr .. s.addr + Len(words) - 1
        BY <2>2, <2>3 DEF Addresses
      <4>4. SpanOf(j).table = TableOf(16) =>
              Addresses(SpanOf(j)) \cap s.addr .. s.addr + Len(words) - 1 = {}
        BY <2>4, <4>2, <4>3
      <4>5. Content(AfterWrite(16, s.addr, words), j) = Content(memory, j)
        BY <1>1, <2>2, <2>3, <4>4, WrittenElsewhere
      <4>6. w \in held[j]
        BY <1>1, <3>1, <3>3, <4>1
      <4>7. Agrees(j, Content(memory, j), w)
        BY <1>1, <4>1, <4>6 DEF Keeps
      <4> QED BY <2>1, <4>5, <4>7
    <3>4. Keeps(memory', held', astray') /\ DOMAIN held' = Ranges
      BY <1>1, <3>1, <3>3 DEF Keeps
    <3>5. astray' \subseteq Signals
      BY <1>1, <3>1
    <3> QED BY <1>1, <1>2, <3>2, <3>4, <3>5, ServingStep
  <2> QED BY <2>5, <2>6, <2>7
<1> QED BY <1>4, <1>5

LEMMA CommandKeepsInv ==
  ASSUME IInv, NEW words \in Commands, WriteCommand(words)
  PROVE  IInv'
<1> DEFINE base == contract.command.base
           new == Stored(memory, "holding", base, words)
<1>1. /\ process = "serving" /\ process' = process /\ contract' = contract
      /\ TablesOK(memory) /\ DOMAIN held = Ranges /\ astray \subseteq Signals
      /\ Keeps(memory, held, astray) /\ Accepted
  BY DEF IInv, WriteCommand, Accepted
<1>2. MaxWrites \in Nat /\ writes' \in 0 .. MaxWrites
  BY ImageAssumption DEF IInv, WriteCommand
<1>3. /\ CmdBlock \in Ranges /\ CmdBlock \notin Signals
      /\ SpanOf(CmdBlock) = BlockSpan(contract.command)
      /\ contract.command.base \in Nat /\ contract.command.size \in Nat \ {0}
  BY <1>1, SpanFacts, ParsedContract, FieldsOfParsed
<1>4. /\ SpanOf(CmdBlock).table = "holding" /\ SpanOf(CmdBlock).start = base
      /\ SpanOf(CmdBlock).stop - SpanOf(CmdBlock).start = contract.command.size
  BY <1>3 DEF BlockSpan
<1>5. words \in [1 .. contract.command.size -> Word]
  BY <1>1, ImageAssumption DEF Accepted
<1>6. Len(words) = contract.command.size
  BY <1>3, <1>5, WordsOfLength
<1>7. TableOf(16) = "holding"
  BY DEF TableOf
<1>8. Verdict(16, base, Len(words)) = "OK"
  BY <1>1, <1>3, <1>4, <1>6, <1>7, OwnRangeIsServed
<1>9. memory' = new
  BY <1>7, <1>8 DEF WriteCommand, AfterWrite
<1>10. held' = [held EXCEPT ![CmdBlock] = {words}] /\ astray' = astray
  BY DEF WriteCommand
<1>11. /\ TablesOK(new)
       /\ \A j \in Ranges \ {CmdBlock} : Registers(new, j) = Registers(memory, j)
  BY <1>1, <1>3, <1>4, <1>5, OthersStay
<1>12. Registers(new, CmdBlock) = words
  BY <1>1, <1>3, <1>4, <1>5, RegistersHere
<1> HIDE DEF new
<1>13. DOMAIN held' = Ranges
  BY <1>1, <1>10
<1>14. Keeps(new, held', astray)
  <2> SUFFICES ASSUME NEW j \in Ranges, NEW w \in held'[j], ~Struck(j, astray)
               PROVE  Agrees(j, Content(new, j), w)
    BY DEF Keeps
  <2>1. CASE j = CmdBlock
    <3>1. w = words
      BY <1>1, <1>3, <1>10, <2>1
    <3> QED BY <1>3, <1>12, <2>1, <3>1 DEF Agrees, Content
  <2>2. CASE j # CmdBlock
    <3>1. w \in held[j]
      BY <1>1, <1>10, <2>2
    <3>2. Agrees(j, Content(memory, j), w)
      BY <1>1, <3>1 DEF Keeps
    <3> QED BY <1>11, <2>2, <3>2 DEF Content
  <2> QED BY <2>1, <2>2
<1> QED BY <1>1, <1>2, <1>9, <1>10, <1>11, <1>13, <1>14, ServingStep

LEMMA PublishKeepsInv ==
  ASSUME IInv, NEW i \in Signals, NEW v \in Values[contract.signals[i].name],
         Publish(i, v)
  PROVE  IInv'
<1>1. /\ process = "serving" /\ process' = process /\ contract' = contract
      /\ TablesOK(memory) /\ DOMAIN held = Ranges /\ astray \subseteq Signals
      /\ Keeps(memory, held, astray) /\ Accepted
  BY DEF IInv, Publish, Accepted
<1>2. MaxWrites \in Nat /\ writes' \in 0 .. MaxWrites
  BY ImageAssumption DEF IInv, Publish
<1>3. v \in Int /\ Encodable(contract.signals[i], v)
  BY <1>1, ValuesAreWhole DEF Publish
<1>4. /\ TablesOK(memory') /\ DOMAIN held' = Ranges /\ astray' = astray
      /\ Keeps(memory', held', astray)
  BY <1>1, <1>3, GivenIsKept DEF Publish
<1> QED BY <1>1, <1>2, <1>4, ServingStep

LEMMA ReadKeepsInv ==
  ASSUME IInv, NEW i \in Signals, ReadSignal(i)
  PROVE  IInv'
  BY IdleKeepsInv DEF ReadSignal

LEMMA ImageInvStep == IInv /\ [ImageNext]_imageVars => IInv'
<1> SUFFICES ASSUME IInv, [ImageNext]_imageVars PROVE IInv'
  OBVIOUS
<1>1. CASE Load
  BY <1>1, LoadKeepsInv
<1>2. CASE Request
  BY <1>2, ForeignKeepsInv, ReadWriteKeepsInv, WriteKeepsInv, CommandKeepsInv, ReadKeepsInv DEF Request
<1>3. CASE ScanPublishes
  BY <1>3, PublishKeepsInv DEF ScanPublishes
<1>4. CASE UNCHANGED imageVars
  <2>1. /\ contract' = contract /\ process' = process /\ memory' = memory
        /\ held' = held /\ astray' = astray /\ writes' = writes
    BY <1>4 DEF imageVars
  <2>2. CASE process = "serving"
    BY <2>1, <2>2, IdleKeepsInv
  <2>3. CASE process # "serving"
    BY <2>1, <2>3 DEF IInv
  <2> QED BY <2>2, <2>3
<1> QED BY <1>1, <1>2, <1>3, <1>4 DEF ImageNext

LEMMA ImageInvariant == ImageSpec => []IInv
  BY ImageInvInit, ImageInvStep, PTL DEF ImageSpec

----------------------------------------------------------------------------
(* The theorems. *)

\* Every address of the contract holds a word (scan.py, _init_registers).
THEOREM ImageTypeCorrect == ImageSpec => []ImageTypeOK
<1>1. IInv => ImageTypeOK
  BY DEF IInv, TablesOK, ImageTypeOK
<1> QED BY <1>1, ImageInvariant, PTL

\* The loader accepts exactly the files in order, however long (loader.py:92).
THEOREM LoaderIsSound == ImageSpec => []LoadedIsSound
<1>1. IInv => LoadedIsSound
  <2> SUFFICES ASSUME IInv PROVE LoadedIsSound
    OBVIOUS
  <2>1. Parsed(contract)
    BY ImageAssumption DEF IInv
  <2>2. Valid(contract) <=> WellFormed(contract)
    BY <2>1, LoaderIsExact
  <2> QED BY <2>2 DEF IInv, LoadedIsSound
<1> QED BY <1>1, ImageInvariant, PTL

(* A range of an accepted contract is what was last written to it by name, *)
(* for any values, orders and requests of any master, unless it has been   *)
(* struck: a write by name to a signal outside the holding table takes the *)
(* ranges at its addresses with it, and no others (codec.py,               *)
(* modbus_server.py:59-75, rogue/master.py:37-39).                         *)
THEOREM SignalsAreTheirOwn == ImageSpec => []EachHoldsItsOwn
<1>1. IInv => EachHoldsItsOwn
  BY DEF IInv, Keeps, EachHoldsItsOwn
<1> QED BY <1>1, ImageInvariant, PTL

(* A poll of a signal of an accepted contract is never refused, and it is  *)
(* the signal's value unless the signal has been struck (poller.py:58,     *)
(* _reader).                                                               *)
THEOREM PollsAreReadings == ImageSpec => PollReadsIt
<1> DEFINE Reads(i) ==
      ReadSignal(i) /\ contract.signals[i].table \in {"holding", "input"} =>
        /\ answer'.status = "OK"
        /\ ~Struck(i, astray) => \A v \in held[i], w \in answer'.value : Agrees(i, w, v)
<1>1. ASSUME IInv, NEW i \in Signals PROVE Reads(i)
  <2> SUFFICES ASSUME ReadSignal(i), contract.signals[i].table \in {"holding", "input"}
               PROVE  /\ answer'.status = "OK"
                      /\ ~Struck(i, astray) =>
                           \A v \in held[i], w \in answer'.value : Agrees(i, w, v)
    OBVIOUS
  <2> DEFINE s == contract.signals[i]
             fc == ReadFunction(s)
             words == [a \in 1 .. TypeWidth[s.type] |->
                         memory[TableOf(fc)][s.addr + a - 1]]
  <2>1. Accepted /\ TablesOK(memory) /\ Keeps(memory, held, astray)
    BY <1>1 DEF IInv, ReadSignal, Accepted
  <2>2. TableOf(fc) = s.table /\ TableOf(fc) # "none"
    BY DEF ReadFunction, TableOf
  <2>3. /\ i \in Ranges /\ SpanOf(i).table = s.table /\ SpanOf(i).start = s.addr
        /\ SpanOf(i).start \in Nat /\ TypeWidth[s.type] \in {1, 2}
        /\ SpanOf(i).stop = SpanOf(i).start + TypeWidth[s.type]
    BY <2>1, SpanFacts, SignalFacts
  <2>4. SpanOf(i).stop - SpanOf(i).start = TypeWidth[s.type]
    BY <2>3
  <2> HIDE DEF fc
  <2>5. Verdict(fc, s.addr, TypeWidth[s.type]) = "OK"
    BY <2>1, <2>2, <2>3, <2>4, OwnRangeIsServed
  <2>6. words = Registers(memory, i)
    BY <2>2, <2>3, <2>4 DEF Registers
  <2>7. answer' = [status |-> "OK", value |-> {Decode(s, words, contract)}]
    BY <2>5 DEF ReadSignal, Reading, fc
  <2>8. Content(memory, i) = Decode(s, words, contract)
    BY <2>6 DEF Content
  <2> HIDE DEF words
  <2>9. ~Struck(i, astray) => \A v \in held[i] : Agrees(i, Content(memory, i), v)
    BY <2>1, <2>3 DEF Keeps
  <2> QED BY <2>7, <2>8, <2>9
<1>2. IInv /\ [ImageNext]_imageVars => [\A i \in Signals : Reads(i)]_imageVars
  BY <1>1
<1> QED BY <1>2, ImageInvariant, PTL DEF ImageSpec, PollReadsIt
=============================================================================

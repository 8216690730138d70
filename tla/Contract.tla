------------------------------ MODULE Contract ------------------------------
(***************************************************************************)
(* The contract every process of the plant loads (src/src/contract): which *)
(* registers a signal occupies, what the loader refuses, and how a value   *)
(* becomes registers and a value again.  There is no state here.           *)
(*                                                                         *)
(* Units.  A byte counts to Base, which is 256 in the code.  A value is a  *)
(* whole number of the signal's finest distinguished amount, and `scale'   *)
(* of them make one register unit.  The 32 bits of a float are one number: *)
(* which float they stand for matters to nothing here.                     *)
(***************************************************************************)
EXTENDS Integers, Sequences, FiniteSets

CONSTANT Base

ASSUME BaseAssumption == Base \in Nat \ {0, 1}

Word == 0 .. Base * Base - 1
Long == 0 .. Base * Base * Base * Base - 1

----------------------------------------------------------------------------
(* model.py: what a mapping occupies. *)

TypeWidth ==
  [bool |-> 1, uint16 |-> 1, int16 |-> 1, uint32 |-> 2, int32 |-> 2, float32 |-> 2]

Types == DOMAIN TypeWidth

WordOrders == {"high_first", "low_first"}
ByteOrders == {"big", "little"}

\* A range of addresses in a table: [start, stop).
SignalSpan(s) ==
  [table |-> s.table, start |-> s.addr, stop |-> s.addr + TypeWidth[s.type]]

\* A command or ack block: consecutive holding registers, `size' of them.
BlockSpan(b) == [table |-> "holding", start |-> b.base, stop |-> b.base + b.size]

Addresses(span) == span.start .. span.stop - 1

\* What the parser makes of a file, before any check.  A name, a table or a
\* type may be any string.  (A float32 with a scale is left out: it would need
\* a finer amount than the units above.)
Parsed(c) ==
  /\ c.signals \in Seq([name : STRING, table : STRING, addr : Nat, type : STRING,
                        scale : Nat \ {0}, variable : BOOLEAN, states : BOOLEAN])
  /\ \A i \in DOMAIN c.signals : c.signals[i].type = "float32" => c.signals[i].scale = 1
  /\ c.command \in [base : Nat, size : Nat \ {0}]
  /\ c.ack \in [base : Nat, size : Nat \ {0}]

----------------------------------------------------------------------------
(* loader.py: what it refuses. *)

\* Every range of the contract, the signals' first and in their order.
Spans(contract) ==
  LET n == Len(contract.signals)
  IN  [i \in 1 .. n + 2 |->
         IF i <= n THEN SignalSpan(contract.signals[i])
         ELSE BlockSpan(IF i = n + 1 THEN contract.command ELSE contract.ack)]

\* A defect the runs must catch: the ranges are compared in the order of the file.
BugSortsBefore(spans, i, j) == i < j

\* Where list.sort() puts them: by start, and equal ones stay as they came.
SortsBefore(spans, i, j) ==
  \/ spans[i].start < spans[j].start
  \/ spans[i].start = spans[j].start /\ i < j

\* spans[i] and spans[j] are a pair of zip(spans, spans[1:]) for their table.
Neighbours(spans, i, j) ==
  /\ spans[i].table = spans[j].table
  /\ SortsBefore(spans, i, j)
  /\ \A k \in DOMAIN spans :
       ~ ( /\ spans[k].table = spans[i].table
           /\ SortsBefore(spans, i, k) /\ SortsBefore(spans, k, j) )

NoOverlaps(spans) ==
  \A i, j \in DOMAIN spans : Neighbours(spans, i, j) => spans[i].stop <= spans[j].start

NoDuplicateNames(signals) ==
  \A i, j \in DOMAIN signals : signals[i].name = signals[j].name => i = j

\* A plain variable or a state machine, never both and never neither.
OneKindEach(signals) ==
  \A i \in DOMAIN signals : signals[i].variable # signals[i].states

\* load_contract() returns; otherwise it raises ContractError.
Valid(contract) ==
  /\ contract.word_order \in WordOrders /\ contract.byte_order \in ByteOrders
  /\ NoDuplicateNames(contract.signals)
  /\ \A i \in DOMAIN contract.signals : contract.signals[i].type \in Types
  /\ NoOverlaps(Spans(contract))
  /\ OneKindEach(contract.signals)

\* What the check is for: no two ranges of a table share an address.
Apart(spans) ==
  \A i, j \in DOMAIN spans :
    i # j /\ spans[i].table = spans[j].table
      => Addresses(spans[i]) \cap Addresses(spans[j]) = {}

\* A file in order, said without the loader's way of finding out.
WellFormed(c) ==
  /\ c.word_order \in WordOrders /\ c.byte_order \in ByteOrders
  /\ Cardinality({c.signals[i].name : i \in DOMAIN c.signals}) = Len(c.signals)
  /\ \A i \in DOMAIN c.signals :
       c.signals[i].type \in Types /\ c.signals[i].variable # c.signals[i].states
  /\ Apart(Spans(c))

----------------------------------------------------------------------------
(* codec.py: values and registers. *)

Limit(type) == IF TypeWidth[type] = 1 THEN Base * Base ELSE Base * Base * Base * Base

Signed(type) == type \in {"int16", "int32"}

\* What struct.pack takes without an error; bool takes anything.
Fits(type, n) ==
  CASE type = "bool" -> TRUE
    [] Signed(type)  -> -Limit(type) <= 2 * n /\ 2 * n < Limit(type)
    [] OTHER         -> 0 <= n /\ n < Limit(type)

\* A defect the runs must catch: a negative number is stored as it is.
BugPack(type, n) == n

\* Two's complement, and back.
Pack(type, n) == IF Signed(type) /\ n < 0 THEN n + Limit(type) ELSE n

Unpack(type, raw) ==
  IF Signed(type) /\ 2 * raw >= Limit(type) THEN raw - Limit(type) ELSE raw

SwapBytes(word) == (word % Base) * Base + word \div Base

Swapped(words, meta) ==
  IF meta.byte_order = "little" THEN <<SwapBytes(words[1]), SwapBytes(words[2])>>
  ELSE words

Reversed(words, meta) ==
  IF meta.word_order = "low_first" THEN <<words[2], words[1]>> ELSE words

\* value_to_words(), of a value that fits
ToWords(type, n, meta) ==
  LET raw == Pack(type, n)
  IN  IF type = "bool" THEN <<IF n = 0 THEN 0 ELSE 1>>
      ELSE IF TypeWidth[type] = 1 THEN <<raw>>
      ELSE Reversed(Swapped(<<raw \div (Base * Base), raw % (Base * Base)>>, meta), meta)

\* A defect the runs must catch: the bytes of each word are left as they came.
BugFromWords(type, words, meta) ==
  IF type = "bool" THEN IF words[1] = 0 THEN 0 ELSE 1
  ELSE IF TypeWidth[type] = 1 THEN Unpack(type, words[1])
  ELSE LET w == Reversed(words, meta)
       IN  Unpack(type, w[1] * (Base * Base) + w[2])

\* words_to_value()
FromWords(type, words, meta) ==
  IF type = "bool" THEN IF words[1] = 0 THEN 0 ELSE 1
  ELSE IF TypeWidth[type] = 1 THEN Unpack(type, words[1])
  ELSE LET w == Swapped(Reversed(words, meta), meta)
       IN  Unpack(type, w[1] * (Base * Base) + w[2])

\* Python's round(): to the nearest, and to the even one of two equally near.
Round(v, scale) ==
  LET q == v \div scale
      r == 2 * (v % scale)
  IN  IF r > scale \/ (r = scale /\ q % 2 = 1) THEN q + 1 ELSE q

\* A bool and a float32 are not rounded.  (Every float32 has a scale of 1.)
Scaled(s, v) == IF s.type \in {"bool", "float32"} THEN v ELSE Round(v, s.scale)

Encodable(s, v) == Fits(s.type, Scaled(s, v))
Encode(s, v, meta) == ToWords(s.type, Scaled(s, v), meta)

Decode(s, words, meta) ==
  IF s.type = "bool" THEN FromWords(s.type, words, meta)
  ELSE FromWords(s.type, words, meta) * s.scale

\* The registers' value is the nearest they can hold to the one given.
Represents(s, found, given) ==
  CASE s.type = "bool"    -> found = (IF given = 0 THEN 0 ELSE 1)
    [] s.type = "float32" -> found = given
    [] OTHER -> 2 * (found - given) <= s.scale /\ 2 * (given - found) <= s.scale

=============================================================================

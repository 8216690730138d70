--------------------------- MODULE ContractProofs ---------------------------
(***************************************************************************)
(* The contract for every file and every number of signals: the loader's   *)
(* check of neighbours finds every overlap, and what is encoded is decoded *)
(* again.                                                                  *)
(***************************************************************************)
EXTENDS Contract, FiniteSetTheorems, TLAPS

\* The least-number principle, for a set.
LEMMA LeastNatural ==
  ASSUME NEW T, T \subseteq Nat, T # {}
  PROVE  \E m \in T : \A k \in T : m <= k
<1> DEFINE R == OpToRel(<, Nat)
<1>1. IsWellFoundedOn(R, Nat)
  BY NatLessThanWellFounded
<1>2. PICK m \in T : \A k \in T : <<k, m>> \notin R
  <2> HIDE DEF R
  <2> QED BY <1>1, WFMin, Zenon
<1>3. \A k \in T : k \in Nat /\ m \in Nat /\ ~(k < m)
  BY <1>2 DEF OpToRel
<1>4. \A k \in T : m <= k
  <2> HIDE DEF R
  <2> QED BY <1>3
<1> QED BY <1>4

\* Ranges in the order of a list, each of them with an address in it.
SomeRanges(spans, n) ==
  /\ DOMAIN spans = 1 .. n
  /\ \A i \in 1 .. n : spans[i].start \in Nat /\ spans[i].stop \in Nat
                       /\ spans[i].start < spans[i].stop

\* Whatever comes behind a range, something comes right behind it.
LEMMA NextNeighbour ==
  ASSUME NEW n \in Nat, NEW spans, SomeRanges(spans, n),
         NEW i \in 1 .. n, NEW j \in 1 .. n,
         spans[i].table = spans[j].table, SortsBefore(spans, i, j)
  PROVE  \E k \in 1 .. n : /\ Neighbours(spans, i, k)
                           /\ spans[k].start <= spans[j].start
<1> DEFINE Behind == {k \in 1 .. n : spans[k].table = spans[i].table
                                     /\ SortsBefore(spans, i, k)}
           Starts == {spans[k].start : k \in Behind}
<1>1. j \in Behind
  OBVIOUS
<1>2. Starts \subseteq Nat /\ Starts # {}
  BY <1>1 DEF SomeRanges
<1>3. PICK first \in Starts : \A s \in Starts : first <= s
  BY <1>2, LeastNatural
<1> DEFINE Ties == {k \in Behind : spans[k].start = first}
<1>4. Ties \subseteq Nat /\ Ties # {}
  BY <1>3
<1>5. PICK k \in Ties : \A m \in Ties : k <= m
  BY <1>4, LeastNatural
<1>6. ASSUME NEW m \in 1 .. n, spans[m].table = spans[i].table,
             SortsBefore(spans, i, m), SortsBefore(spans, m, k)
      PROVE  FALSE
  <2>1. m \in Behind /\ spans[m].start \in Starts
    BY <1>6
  <2>2. first <= spans[m].start /\ spans[k].start = first
    BY <2>1, <1>3
  <2>3. spans[m].start = first /\ m < k
    BY <2>2, <1>2, <2>1, <1>6 DEF SortsBefore, SomeRanges
  <2> QED BY <2>1, <2>3, <1>5, <1>4
<1>7. Neighbours(spans, i, k)
  BY <1>6 DEF Neighbours, SomeRanges
<1>8. spans[k].start <= spans[j].start
  BY <1>1, <1>3
<1> QED BY <1>7, <1>8

(* loader.py:107-110 compares each range with the next one of its table    *)
(* only, in the order of their starts.  Whatever the order of the file and *)
(* however many ranges there are, that finds every overlap and nothing     *)
(* else.                                                                   *)
THEOREM NeighboursSuffice ==
  ASSUME NEW n \in Nat, NEW spans, SomeRanges(spans, n)
  PROVE  NoOverlaps(spans) <=> Apart(spans)
<1>1. ASSUME NoOverlaps(spans), NEW i \in 1 .. n, NEW j \in 1 .. n,
             spans[i].table = spans[j].table, SortsBefore(spans, i, j)
      PROVE  spans[i].stop <= spans[j].start
  <2>1. PICK k \in 1 .. n : /\ Neighbours(spans, i, k)
                            /\ spans[k].start <= spans[j].start
    BY <1>1, NextNeighbour
  <2>2. spans[i].stop <= spans[k].start
    BY <1>1, <2>1 DEF NoOverlaps, SomeRanges
  <2> QED BY <2>1, <2>2 DEF SomeRanges
<1>2. ASSUME NoOverlaps(spans) PROVE Apart(spans)
  <2> SUFFICES ASSUME NEW i \in 1 .. n, NEW j \in 1 .. n, i # j,
                      spans[i].table = spans[j].table
               PROVE  Addresses(spans[i]) \cap Addresses(spans[j]) = {}
    BY DEF Apart, SomeRanges
  <2>1. SortsBefore(spans, i, j) \/ SortsBefore(spans, j, i)
    BY DEF SortsBefore, SomeRanges
  <2>2. spans[i].stop <= spans[j].start \/ spans[j].stop <= spans[i].start
    BY <2>1, <1>1, <1>2
  <2> QED BY <2>2 DEF Addresses, SomeRanges
<1>3. ASSUME Apart(spans) PROVE NoOverlaps(spans)
  <2> SUFFICES ASSUME NEW i \in 1 .. n, NEW j \in 1 .. n, Neighbours(spans, i, j)
               PROVE  spans[i].stop <= spans[j].start
    BY DEF NoOverlaps, SomeRanges
  <2>1. i # j /\ spans[i].table = spans[j].table /\ spans[i].start <= spans[j].start
    BY DEF Neighbours, SortsBefore, SomeRanges
  <2>2. Addresses(spans[i]) \cap Addresses(spans[j]) = {}
    BY <2>1, <1>3 DEF Apart, SomeRanges
  <2>3. spans[j].start \notin Addresses(spans[i])
    BY <2>2 DEF Addresses, SomeRanges
  <2> QED BY <2>1, <2>3 DEF Addresses, SomeRanges
<1> QED BY <1>2, <1>3

----------------------------------------------------------------------------
(* Division, for symbols. *)

\* A number is its quotient and its remainder.
LEMMA DivModIs ==
  ASSUME NEW b \in Nat \ {0}, NEW x \in Int
  PROVE  /\ x \div b \in Int /\ x % b \in 0 .. b - 1
         /\ x = b * (x \div b) + (x % b)
  OBVIOUS

\* And it has only one of each.
LEMMA DivModUnique ==
  ASSUME NEW b \in Nat \ {0}, NEW q \in Int, NEW r \in 0 .. b - 1
  PROVE  (b * q + r) \div b = q /\ (b * q + r) % b = r
<1> DEFINE x == b * q + r
           p == x \div b
           s == x % b
<1>1. x \in Int
  OBVIOUS
<1>2. p \in Int /\ s \in 0 .. b - 1 /\ x = b * p + s
  BY <1>1, DivModIs
<1>3. b * p + s = b * q + r
  BY <1>2
<1> HIDE DEF x, p, s
<1>4. b * (p - q) = r - s /\ r - s < b /\ s - r < b
  BY <1>2, <1>3
<1>5. ASSUME p - q >= 1 PROVE FALSE
  <2>1. b * (p - q) >= b
    BY <1>5, <1>2
  <2> QED BY <2>1, <1>4, <1>2
<1>6. ASSUME q - p >= 1 PROVE FALSE
  <2>1. b * (q - p) >= b
    BY <1>6, <1>2
  <2>2. b * (q - p) = s - r
    BY <1>4, <1>2
  <2> QED BY <2>1, <2>2, <1>4, <1>2
<1>7. p = q
  BY <1>5, <1>6, <1>2
<1>8. s = r
  BY <1>3, <1>7, <1>2
<1> QED BY <1>7, <1>8 DEF p, s, x
----------------------------------------------------------------------------
(* Bytes and words. *)

LEMMA SquareIsNat == Base * Base \in Nat \ {0}
  BY BaseAssumption

LEMMA SwapBytesBack ==
  ASSUME NEW w \in Word
  PROVE  SwapBytes(w) \in Word /\ SwapBytes(SwapBytes(w)) = w
<1> DEFINE hi == w \div Base
           lo == w % Base
<1>1. Base \in Nat \ {0} /\ w \in Nat /\ w < Base * Base
  BY BaseAssumption, SquareIsNat DEF Word
<1>2. hi \in Int /\ lo \in 0 .. Base - 1 /\ w = Base * hi + lo
  BY <1>1, DivModIs
<1>3. SwapBytes(w) = Base * lo + hi
  BY <1>1, <1>2 DEF SwapBytes
<1> HIDE DEF hi, lo
<1>4. hi < Base
  <2> SUFFICES ASSUME hi >= Base PROVE FALSE
    BY <1>1, <1>2
  <2>1. Base * hi >= Base * Base
    BY <1>1, <1>2
  <2> QED BY <2>1, <1>1, <1>2, SquareIsNat
<1>5. hi >= 0
  <2> SUFFICES ASSUME hi <= -1 PROVE FALSE
    BY <1>2
  <2>1. Base * hi <= -Base
    BY <1>1, <1>2
  <2> QED BY <2>1, <1>1, <1>2
<1>6. Base * lo + hi \in Word
  <2>1. Base * lo <= Base * (Base - 1) /\ Base * lo >= 0 /\ Base * lo \in Int
    BY <1>1, <1>2
  <2>2. Base * (Base - 1) = Base * Base - Base
    BY <1>1
  <2> QED BY <2>1, <2>2, <1>1, <1>2, <1>4, <1>5, SquareIsNat DEF Word
<1>7. (Base * lo + hi) \div Base = lo /\ (Base * lo + hi) % Base = hi
  BY <1>1, <1>2, <1>4, <1>5, DivModUnique
<1>8. SwapBytes(Base * lo + hi) = hi * Base + lo
  BY <1>7 DEF SwapBytes
<1> QED BY <1>1, <1>2, <1>3, <1>6, <1>8

LEMMA HighAndLow ==
  ASSUME NEW raw \in Long
  PROVE  /\ raw \div (Base * Base) \in Word /\ raw % (Base * Base) \in Word
         /\ (raw \div (Base * Base)) * (Base * Base) + (raw % (Base * Base)) = raw
<1> DEFINE b == Base * Base
           hi == raw \div b
           lo == raw % b
<1>1. b \in Nat \ {0} /\ Base * Base * Base * Base = b * b
  BY BaseAssumption, SquareIsNat
<1>2. raw \in Nat /\ raw < b * b
  BY <1>1 DEF Long
<1> HIDE DEF b
<1>3. hi \in Int /\ lo \in 0 .. b - 1 /\ raw = b * hi + lo
  BY <1>1, <1>2, DivModIs
<1> HIDE DEF hi, lo
<1>4. hi < b
  <2> SUFFICES ASSUME hi >= b PROVE FALSE
    BY <1>1, <1>3
  <2>1. b * hi >= b * b /\ b * b \in Int
    BY <1>1, <1>3
  <2> QED BY <2>1, <1>1, <1>2, <1>3
<1>5. hi >= 0
  <2> SUFFICES ASSUME hi <= -1 PROVE FALSE
    BY <1>3
  <2>1. b * hi <= -b
    BY <1>1, <1>3
  <2> QED BY <2>1, <1>1, <1>2, <1>3
<1>6. hi * b + lo = raw /\ hi \in 0 .. b - 1
  BY <1>1, <1>3, <1>4, <1>5
<1> QED BY <1>3, <1>6 DEF hi, lo, b, Word

----------------------------------------------------------------------------
(* Values and registers. *)

LEMMA TypesAre ==
  /\ Types = {"bool", "uint16", "int16", "uint32", "int32", "float32"}
  /\ \A t \in Types : TypeWidth[t] \in {1, 2}
  /\ TypeWidth["bool"] = 1
  /\ \A t \in Types : TypeWidth[t] = 1 => Limit(t) = Base * Base
  /\ \A t \in Types : TypeWidth[t] = 2 => Limit(t) = Base * Base * Base * Base
  BY DEF Types, TypeWidth, Limit

LEMMA PackBack ==
  ASSUME NEW type \in Types \ {"bool"}, NEW n \in Int, Fits(type, n)
  PROVE  /\ Pack(type, n) \in 0 .. Limit(type) - 1
         /\ Unpack(type, Pack(type, n)) = n
<1> DEFINE limit == Limit(type)
<1>1. limit \in Nat
  BY BaseAssumption, SquareIsNat, TypesAre
<1>2. Signed(type) => -limit <= 2 * n /\ 2 * n < limit
  BY DEF Fits, Signed
<1>3. ~Signed(type) => 0 <= n /\ n < limit
  BY DEF Fits, Signed
<1> HIDE DEF limit
<1>4. CASE Signed(type) /\ n < 0
  <2>1. Pack(type, n) = n + limit
    BY <1>4 DEF Pack, limit
  <2>2. n + limit \in 0 .. limit - 1 /\ 2 * (n + limit) >= limit /\ (n + limit) - limit = n
    BY <1>1, <1>2, <1>4
  <2> QED BY <2>1, <2>2, <1>4 DEF Unpack, limit
<1>5. CASE Signed(type) /\ ~(n < 0)
  <2>1. Pack(type, n) = n /\ n \in 0 .. limit - 1 /\ ~(2 * n >= limit)
    BY <1>1, <1>2, <1>5 DEF Pack
  <2> QED BY <2>1, <1>5 DEF Unpack, limit
<1>6. CASE ~Signed(type)
  <2>1. Pack(type, n) = n /\ n \in 0 .. limit - 1
    BY <1>1, <1>3, <1>6 DEF Pack
  <2> QED BY <2>1, <1>6 DEF Unpack, limit
<1> QED BY <1>4, <1>5, <1>6

LEMMA OrdersBack ==
  ASSUME NEW a \in Word, NEW b \in Word, NEW meta
  PROVE  /\ Reversed(Swapped(<<a, b>>, meta), meta) \in Word \X Word
         /\ Swapped(Reversed(Reversed(Swapped(<<a, b>>, meta), meta), meta), meta) = <<a, b>>
<1>1. PICK c \in Word, d \in Word :
        Swapped(<<a, b>>, meta) = <<c, d>> /\ Swapped(<<c, d>>, meta) = <<a, b>>
  BY SwapBytesBack DEF Swapped
<1>2. Reversed(Reversed(<<c, d>>, meta), meta) = <<c, d>>
  BY DEF Reversed
<1>3. Reversed(<<c, d>>, meta) \in Word \X Word
  BY DEF Reversed
<1> QED BY <1>1, <1>2, <1>3

(* codec.py: words_to_value() undoes value_to_words() for every value that *)
(* struct.pack takes, in every word and byte order, whatever a byte counts *)
(* to.                                                                     *)
THEOREM CodecRoundTrip ==
  ASSUME NEW type \in Types \ {"bool"}, NEW n \in Int, Fits(type, n), NEW meta
  PROVE  /\ ToWords(type, n, meta) \in [1 .. TypeWidth[type] -> Word]
         /\ FromWords(type, ToWords(type, n, meta), meta) = n
<1> DEFINE raw == Pack(type, n)
           b == Base * Base
           words == ToWords(type, n, meta)
<1>1. raw \in 0 .. Limit(type) - 1 /\ Unpack(type, raw) = n
  BY PackBack
<1>2. CASE TypeWidth[type] = 1
  <2>1. raw \in Word
    BY <1>1, <1>2, TypesAre DEF Word
  <2>2. words = <<raw>>
    BY <1>2 DEF ToWords
  <2>3. FromWords(type, <<raw>>, meta) = n
    BY <1>1, <1>2 DEF FromWords
  <2> QED BY <1>2, <2>1, <2>2, <2>3
<1>3. CASE TypeWidth[type] # 1
  <2>1. TypeWidth[type] = 2 /\ raw \in Long
    BY <1>1, <1>3, TypesAre DEF Long
  <2>2. /\ raw \div b \in Word /\ raw % b \in Word
        /\ (raw \div b) * b + (raw % b) = raw
    BY <2>1, HighAndLow
  <2>3. words = Reversed(Swapped(<<raw \div b, raw % b>>, meta), meta)
    BY <1>3 DEF ToWords
  <2> HIDE DEF raw, b
  <2>4. /\ words \in Word \X Word
        /\ Swapped(Reversed(words, meta), meta) = <<raw \div b, raw % b>>
    BY <2>2, <2>3, OrdersBack
  <2>5. FromWords(type, words, meta) = Unpack(type, (raw \div b) * b + (raw % b))
    <3> HIDE DEF words
    <3> QED BY <1>3, <2>4 DEF FromWords, b
  <2>6. words \in [1 .. 2 -> Word]
    BY <2>4
  <2> QED BY <1>1, <2>1, <2>2, <2>5, <2>6
<1> QED BY <1>2, <1>3

LEMMA RoundIsNearest ==
  ASSUME NEW v \in Int, NEW scale \in Nat \ {0}
  PROVE  /\ Round(v, scale) \in Int
         /\ 2 * (Round(v, scale) * scale - v) <= scale
         /\ 2 * (v - Round(v, scale) * scale) <= scale
<1> DEFINE q == v \div scale
           r == v % scale
<1>1. q \in Int /\ r \in 0 .. scale - 1 /\ v = scale * q + r
  BY DivModIs
<1>2. Round(v, scale) \in {q, q + 1}
      /\ (Round(v, scale) = q => 2 * r <= scale)
      /\ (Round(v, scale) = q + 1 => 2 * r >= scale)
  BY <1>1 DEF Round
<1> HIDE DEF q, r
<1>3. q * scale = v - r /\ (q + 1) * scale = v - r + scale
  BY <1>1
<1> QED BY <1>1, <1>2, <1>3

LEMMA FieldsOfParsed ==
  ASSUME NEW c, Parsed(c)
  PROVE  /\ Len(c.signals) \in Nat /\ DOMAIN c.signals = 1 .. Len(c.signals)
         /\ \A i \in DOMAIN c.signals :
              /\ c.signals[i].addr \in Nat /\ c.signals[i].scale \in Nat \ {0}
              /\ c.signals[i].type = "float32" => c.signals[i].scale = 1
              /\ c.signals[i].variable \in BOOLEAN /\ c.signals[i].states \in BOOLEAN
         /\ c.command.base \in Nat /\ c.command.size \in Nat \ {0}
         /\ c.ack.base \in Nat /\ c.ack.size \in Nat \ {0}
<1> DEFINE Fields == [name : STRING, table : STRING, addr : Nat, type : STRING,
                      scale : Nat \ {0}, variable : BOOLEAN, states : BOOLEAN]
<1>1. c.signals \in Seq(Fields)
  BY DEF Parsed
<1> HIDE DEF Fields
<1>2. /\ Len(c.signals) \in Nat /\ DOMAIN c.signals = 1 .. Len(c.signals)
      /\ \A i \in DOMAIN c.signals : c.signals[i] \in Fields
  BY <1>1
<1>3. \A s \in Fields : /\ s.addr \in Nat /\ s.scale \in Nat \ {0}
                        /\ s.variable \in BOOLEAN /\ s.states \in BOOLEAN
  BY DEF Fields
<1>4. \A i \in DOMAIN c.signals : c.signals[i].type = "float32" => c.signals[i].scale = 1
  BY DEF Parsed
<1>5. /\ c.command.base \in Nat /\ c.command.size \in Nat \ {0}
      /\ c.ack.base \in Nat /\ c.ack.size \in Nat \ {0}
  BY DEF Parsed
<1> QED BY <1>2, <1>3, <1>4, <1>5

LEMMA SpansAreRanges ==
  ASSUME NEW c, Parsed(c), \A i \in DOMAIN c.signals : c.signals[i].type \in Types
  PROVE  SomeRanges(Spans(c), Len(c.signals) + 2)
<1> DEFINE n == Len(c.signals)
<1>1. n \in Nat /\ DOMAIN c.signals = 1 .. n
  BY FieldsOfParsed
<1>2. DOMAIN Spans(c) = 1 .. n + 2
  BY DEF Spans
<1>3. ASSUME NEW i \in 1 .. n + 2
      PROVE  /\ Spans(c)[i].start \in Nat /\ Spans(c)[i].stop \in Nat
             /\ Spans(c)[i].start < Spans(c)[i].stop
  <2>1. CASE i <= n
    <3>1. i \in DOMAIN c.signals /\ Spans(c)[i] = SignalSpan(c.signals[i])
      BY <1>1, <2>1, <1>3 DEF Spans
    <3>2. TypeWidth[c.signals[i].type] \in {1, 2}
      BY <3>1, TypesAre
    <3> QED BY <3>1, <3>2, FieldsOfParsed DEF SignalSpan
  <2>2. CASE i = n + 1
    <3>1. Spans(c)[i] = BlockSpan(c.command)
      BY <1>1, <2>2 DEF Spans
    <3> QED BY <3>1, FieldsOfParsed DEF BlockSpan
  <2>3. CASE i = n + 2
    <3>1. Spans(c)[i] = BlockSpan(c.ack)
      BY <1>1, <2>3 DEF Spans
    <3> QED BY <3>1, FieldsOfParsed DEF BlockSpan
  <2> QED BY <1>1, <2>1, <2>2, <2>3
<1> QED BY <1>2, <1>3 DEF SomeRanges

LEMMA NamesCounted ==
  ASSUME NEW signals, NEW n \in Nat, DOMAIN signals = 1 .. n
  PROVE  NoDuplicateNames(signals)
           <=> Cardinality({signals[i].name : i \in DOMAIN signals}) = n
<1> DEFINE names == {signals[i].name : i \in DOMAIN signals}
           f == [i \in 1 .. n |-> signals[i].name]
<1>1. IsFiniteSet(1 .. n) /\ Cardinality(1 .. n) = n
  BY FS_Interval
<1>2. f \in Surjection(1 .. n, names)
  BY DEF Surjection
<1>3. f \in Injection(1 .. n, names) <=> NoDuplicateNames(signals)
  BY <1>2 DEF Injection, IsInjective, NoDuplicateNames
<1>4. Cardinality(names) = Cardinality(1 .. n) <=> f \in Injection(1 .. n, names)
  <2> HIDE DEF names, f
  <2> QED BY <1>1, <1>2, FS_Surjection
<1> QED BY <1>1, <1>3, <1>4

(* The loader refuses exactly the files that are not in order.             *)
THEOREM LoaderIsExact ==
  ASSUME NEW c, Parsed(c)
  PROVE  Valid(c) <=> WellFormed(c)
<1> DEFINE Typed == \A i \in DOMAIN c.signals : c.signals[i].type \in Types
<1>1. NoDuplicateNames(c.signals)
        <=> Cardinality({c.signals[i].name : i \in DOMAIN c.signals}) = Len(c.signals)
  BY FieldsOfParsed, NamesCounted
<1>2. Typed => (NoOverlaps(Spans(c)) <=> Apart(Spans(c)))
  BY SpansAreRanges, NeighboursSuffice, FieldsOfParsed
<1>3. OneKindEach(c.signals)
        <=> \A i \in DOMAIN c.signals : c.signals[i].variable # c.signals[i].states
  BY DEF OneKindEach
<1> QED BY <1>1, <1>2, <1>3 DEF Valid, WellFormed

(* encode() and decode() of a signal: the nearest its registers can hold,  *)
(* to within half a unit.                                                  *)
THEOREM EncodeRepresents ==
  ASSUME NEW s, s.type \in Types, s.scale \in Nat \ {0},
         s.type = "float32" => s.scale = 1,
         NEW v \in Int, Encodable(s, v), NEW meta
  PROVE  /\ Encode(s, v, meta) \in [1 .. TypeWidth[s.type] -> Word]
         /\ Represents(s, Decode(s, Encode(s, v, meta), meta), v)
<1>1. CASE s.type = "bool"
  <2>1. Encode(s, v, meta) = <<IF v = 0 THEN 0 ELSE 1>>
    BY <1>1 DEF Encode, Scaled, ToWords
  <2>2. 0 \in Word /\ 1 \in Word
    BY BaseAssumption, SquareIsNat DEF Word
  <2>3. Decode(s, Encode(s, v, meta), meta) = (IF v = 0 THEN 0 ELSE 1)
    BY <1>1, <2>1 DEF Decode, FromWords
  <2> QED BY <1>1, <2>1, <2>2, <2>3, TypesAre DEF Represents
<1>2. CASE s.type # "bool"
  <2> DEFINE n == Scaled(s, v)
  <2>1. n \in Int
    BY RoundIsNearest DEF Scaled
  <2>2. /\ Encode(s, v, meta) \in [1 .. TypeWidth[s.type] -> Word]
        /\ FromWords(s.type, Encode(s, v, meta), meta) = n
    BY <1>2, <2>1, CodecRoundTrip DEF Encode, Encodable
  <2>3. Decode(s, Encode(s, v, meta), meta) = n * s.scale
    BY <1>2, <2>2 DEF Decode
  <2>4. CASE s.type = "float32"
    BY <1>2, <2>2, <2>3, <2>4 DEF Represents, Scaled
  <2>5. CASE s.type # "float32"
    <3>1. n = Round(v, s.scale)
      BY <1>2, <2>5 DEF Scaled
    <3>2. 2 * (n * s.scale - v) <= s.scale /\ 2 * (v - n * s.scale) <= s.scale
      BY <3>1, RoundIsNearest
    <3> QED BY <1>2, <2>2, <2>3, <2>5, <3>2 DEF Represents
  <2> QED BY <2>4, <2>5
<1> QED BY <1>1, <1>2

\* What a signal is before anybody has written to it.
LEMMA ZeroRepresentsZero ==
  ASSUME NEW s, s.type \in Types, s.scale \in Nat \ {0}, NEW meta,
         NEW zeros, zeros = [a \in 1 .. TypeWidth[s.type] |-> 0]
  PROVE  Represents(s, Decode(s, zeros, meta), 0)
<1>1. 0 \in Word /\ Base * Base \in Nat \ {0} /\ Limit(s.type) \in Nat \ {0}
  BY BaseAssumption, SquareIsNat, TypesAre DEF Word
<1>2. Unpack(s.type, 0) = 0
  BY <1>1 DEF Unpack
<1>3. CASE s.type = "bool"
  <2>1. zeros[1] = 0
    BY <1>3, TypesAre
  <2> QED BY <1>3, <2>1 DEF Decode, FromWords, Represents
<1>4. CASE s.type # "bool" /\ TypeWidth[s.type] = 1
  <2>1. zeros[1] = 0
    BY <1>4
  <2>2. FromWords(s.type, zeros, meta) = 0
    BY <1>2, <1>4, <2>1 DEF FromWords
  <2> QED BY <1>4, <2>2 DEF Decode, Represents
<1>5. CASE s.type # "bool" /\ TypeWidth[s.type] # 1
  <2>1. zeros = <<0, 0>>
    BY <1>5, TypesAre
  <2>2. SwapBytes(0) = 0
    BY BaseAssumption DEF SwapBytes
  <2>3. Swapped(Reversed(<<0, 0>>, meta), meta) = <<0, 0>>
    BY <2>2 DEF Swapped, Reversed
  <2> DEFINE w == Swapped(Reversed(zeros, meta), meta)
  <2>4. FromWords(s.type, zeros, meta) = Unpack(s.type, w[1] * (Base * Base) + w[2])
    BY <1>5 DEF FromWords
  <2>5. w = <<0, 0>>
    BY <2>1, <2>3
  <2>6. FromWords(s.type, zeros, meta) = 0
    <3> HIDE DEF w
    <3>1. w[1] = 0 /\ w[2] = 0
      BY <2>5
    <3>2. w[1] * (Base * Base) + w[2] = 0
      BY <1>1, <3>1
    <3> QED BY <1>2, <2>4, <3>2
  <2> QED BY <1>5, <2>6 DEF Decode, Represents
<1> QED BY <1>3, <1>4, <1>5
=============================================================================

--------------------------- MODULE GatewayProofs ---------------------------
(***************************************************************************)
(* The gateway for any contract, registers, outages and bounds.  Its types *)
(* and its state machine: for any Write requests.  What its marks are for: *)
(* for requests of one value of the signal's type.                         *)
(***************************************************************************)
EXTENDS Gateway, SequenceTheorems, FiniteSetTheorems, TLAPS

\* What a request may hold: a value of the signal's registers, of another type,
\* or one they cannot hold.
Items == [signal : Writable, value : AllWords \cup {Mistyped, TooLarge}]

----------------------------------------------------------------------------
(* A Write request, item by item.  FoldLeft takes the last item of what is *)
(* left off the set of indices, so it is a function on sets of indices.    *)

\* WriteItem, with the confirmed registers it looks at as a parameter.
WriteOne(known, w, item) ==
  IF w.raised \/ item.value = Mistyped THEN w
  ELSE LET after == SetSignal(w, known, item.signal, Good(item.value))
       IN  IF after.raised THEN after
           ELSE [after EXCEPT !.took[item.signal] = item.value]

FoldOf(it, known, w, request, n) ==
  it = [s \in SUBSET (1 .. n) |->
          IF s = {} THEN w
          ELSE WriteOne(known, it[s \ {Max(s)}], request[Max(s)])]

LEMMA LastIsMax ==
  ASSUME NEW n \in Nat, NEW s \in SUBSET (1 .. n + 1), n + 1 \in s
  PROVE  Max(s) = n + 1
<1>1. /\ n + 1 \in s
      /\ \A y \in s : n + 1 >= y
  OBVIOUS
<1>2. \A x \in s : (\A y \in s : x >= y) => x = n + 1
  OBVIOUS
<1>3. QED
  BY <1>1, <1>2 DEF Max

\* One more item is one more step.
LEMMA FoldExtends ==
  ASSUME NEW request, NEW known, NEW w, NEW n \in Nat,
         NEW it, FoldOf(it, known, w, request, n)
  PROVE  \E more : /\ FoldOf(more, known, w, request, n + 1)
                   /\ more[1 .. n + 1] = WriteOne(known, it[1 .. n], request[n + 1])
<1> DEFINE more == [s \in SUBSET (1 .. n + 1) |->
                      IF n + 1 \in s
                      THEN WriteOne(known, it[s \ {n + 1}], request[n + 1])
                      ELSE it[s]]
<1>1. \A s \in SUBSET (1 .. n) : n + 1 \notin s /\ s \in SUBSET (1 .. n + 1)
  OBVIOUS
<1>2. \A s \in SUBSET (1 .. n + 1) : s \ {n + 1} \in SUBSET (1 .. n)
  OBVIOUS
<1>3. \A s \in SUBSET (1 .. n) : more[s] = it[s]
  BY <1>1
<1>4. ASSUME NEW s \in SUBSET (1 .. n + 1)
      PROVE  more[s] = IF s = {} THEN w
                       ELSE WriteOne(known, more[s \ {Max(s)}], request[Max(s)])
  <2>1. CASE n + 1 \in s
    <3>1. Max(s) = n + 1 /\ s # {}
      BY <2>1, LastIsMax
    <3>2. more[s \ {n + 1}] = it[s \ {n + 1}]
      BY <1>2, <1>3
    <3>3. more[s] = WriteOne(known, it[s \ {n + 1}], request[n + 1])
      BY <2>1
    <3>4. QED
      BY <3>1, <3>2, <3>3
  <2>2. CASE n + 1 \notin s
    <3>1. s \in SUBSET (1 .. n) /\ s \ {Max(s)} \in SUBSET (1 .. n)
      BY <2>2, <1>2
    <3>2. more[s] = it[s] /\ more[s \ {Max(s)}] = it[s \ {Max(s)}]
      BY <1>3, <3>1
    <3>3. it[s] = IF s = {} THEN w
                  ELSE WriteOne(known, it[s \ {Max(s)}], request[Max(s)])
      BY <3>1 DEF FoldOf
    <3>4. QED
      BY <3>2, <3>3
  <2>3. QED
    BY <2>1, <2>2
<1>5. FoldOf(more, known, w, request, n + 1)
  BY <1>4 DEF FoldOf
<1>6. /\ 1 .. n + 1 \in SUBSET (1 .. n + 1) /\ n + 1 \in 1 .. n + 1
      /\ (1 .. n + 1) \ {n + 1} = 1 .. n
  OBVIOUS
<1>7. more[1 .. n + 1] = WriteOne(known, it[1 .. n], request[n + 1])
  BY <1>6
<1> HIDE DEF more
<1>8. QED
  BY <1>5, <1>7

\* Once there is such a function, FoldLeft is the value of one.
LEMMA FoldIsIts ==
  ASSUME NEW request, NEW w, NEW n \in Nat, DOMAIN request = 1 .. n,
         \E g : FoldOf(g, lastWords, w, request, n)
  PROVE  \E it : /\ FoldOf(it, lastWords, w, request, n)
                 /\ FoldLeft(WriteItem, w, request) = it[1 .. n]
<1> DEFINE iter == CHOOSE it : FoldOf(it, lastWords, w, request, n)
<1>1. FoldOf(iter, lastWords, w, request, n)
  OBVIOUS
<1>2. FoldLeft(WriteItem, w, request) = iter[1 .. n]
  BY DEF FoldLeft, MapThenFoldSet, FoldOf, WriteItem, WriteOne
<1>3. QED
  BY <1>1, <1>2

\* The value of such a function, taken apart.
LEMMA FoldStarts ==
  ASSUME NEW request, NEW known, NEW w, NEW n \in Nat,
         NEW it, FoldOf(it, known, w, request, n)
  PROVE  it[{}] = w
  BY DEF FoldOf

LEMMA FoldSteps ==
  ASSUME NEW request, NEW known, NEW w, NEW n \in Nat,
         NEW it, FoldOf(it, known, w, request, n), NEW m \in 1 .. n
  PROVE  it[1 .. m] = WriteOne(known, it[1 .. m - 1], request[m])
<1>1. 1 .. m \in SUBSET (1 .. n) /\ 1 .. m # {}
  OBVIOUS
<1>2. (1 .. m) \ {m} = 1 .. m - 1
  OBVIOUS
<1>3. m - 1 \in Nat /\ m = (m - 1) + 1
  OBVIOUS
<1>4. Max(1 .. m) = m
  <2>1. /\ 1 .. m \in SUBSET (1 .. (m - 1) + 1)
        /\ (m - 1) + 1 \in 1 .. m
    BY <1>3
  <2>2. QED
    BY <2>1, <1>3, LastIsMax
<1>5. QED
  BY <1>1, <1>2, <1>4 DEF FoldOf

\* What holds of 0 and goes on from every number below n holds of n.
LEMMA UpTo ==
  ASSUME NEW T, NEW n \in Nat, 0 \in T,
         \A m \in 0 .. n - 1 : m \in T => m + 1 \in T
  PROVE  n \in T
<1> DEFINE R    == OpToRel(<, Nat)
           Gaps == {m \in 0 .. n : m \notin T}
<1>1. SUFFICES ASSUME n \notin T
               PROVE  FALSE
  OBVIOUS
<1>2. n \in Gaps /\ Gaps \subseteq Nat
  BY <1>1
<1>3. IsWellFoundedOn(R, Nat)
  BY NatLessThanWellFounded
<1>4. PICK least \in Gaps : \A m \in Gaps : <<m, least>> \notin R
  <2> HIDE DEF R, Gaps
  <2> QED BY <1>2, <1>3, WFMin, Zenon
<1>5. least - 1 \in 0 .. n - 1 /\ least # 0
  OBVIOUS
<1>6. <<least - 1, least>> \in R
  BY <1>5 DEF OpToRel
<1>7. least - 1 \in T
  <2>1. least - 1 \notin Gaps
    <3> HIDE DEF R, Gaps
    <3> QED BY <1>4, <1>6
  <2>2. QED
    BY <1>5, <2>1
<1>8. (least - 1) + 1 \in T /\ (least - 1) + 1 = least
  BY <1>5, <1>7
<1>9. QED
  BY <1>8

\* However many items a request has, they are written one after the other.
LEMMA FoldIsOrdered ==
  ASSUME NEW request, NEW w, NEW n \in Nat, DOMAIN request = 1 .. n
  PROVE  \E it : /\ FoldOf(it, lastWords, w, request, n)
                 /\ FoldLeft(WriteItem, w, request) = it[1 .. n]
<1> DEFINE Has == {m \in 0 .. n : \E g : FoldOf(g, lastWords, w, request, m)}
<1>1. 0 \in Has
  <2>1. FoldOf([s \in SUBSET (1 .. 0) |-> w], lastWords, w, request, 0)
    BY DEF FoldOf
  <2>2. QED
    BY <2>1
<1>2. ASSUME NEW m \in 0 .. n - 1, m \in Has
      PROVE  m + 1 \in Has
  <2>1. PICK g : FoldOf(g, lastWords, w, request, m)
    BY <1>2
  <2>2. \E more : FoldOf(more, lastWords, w, request, m + 1)
    BY <2>1, FoldExtends
  <2>3. QED
    BY <2>2
<1>3. n \in Has
  <2> HIDE DEF Has
  <2> QED BY <1>1, <1>2, UpTo
<1>4. QED
  BY <1>3, FoldIsIts

\* The last item of a request is written last.
LEMMA LastItem ==
  ASSUME NEW request, NEW w, NEW n \in Nat, DOMAIN request = 1 .. n, n \in 1 .. n
  PROVE  \E it : /\ it[{}] = w
                 /\ FoldLeft(WriteItem, w, request)
                      = WriteOne(lastWords, it[1 .. n - 1], request[n])
<1>1. PICK it : /\ FoldOf(it, lastWords, w, request, n)
                /\ FoldLeft(WriteItem, w, request) = it[1 .. n]
  BY FoldIsOrdered, Zenon
<1>2. FoldOf(it, lastWords, w, request, n)
  BY <1>1, Zenon
<1>3. it[{}] = w
  BY <1>2, FoldStarts, Zenon
<1>4. it[1 .. n] = WriteOne(lastWords, it[1 .. n - 1], request[n])
  BY <1>2, FoldSteps
<1>5. QED
  BY <1>1, <1>3, <1>4, Zenon

\* A request of one value is that value written.
LEMMA OneItem ==
  ASSUME NEW request, NEW w, DOMAIN request = 1 .. 1
  PROVE  FoldLeft(WriteItem, w, request) = WriteOne(lastWords, w, request[1])
<1> DEFINE n == 1
<1>1. n \in Nat /\ n \in 1 .. n /\ DOMAIN request = 1 .. n
  OBVIOUS
<1>2. 1 .. n - 1 = {} /\ n = 1
  OBVIOUS
<1> HIDE DEF n
<1>3. PICK it : /\ it[{}] = w
                /\ FoldLeft(WriteItem, w, request)
                     = WriteOne(lastWords, it[1 .. n - 1], request[n])
  BY <1>1, LastItem, Zenon
<1>4. QED
  BY <1>2, <1>3, Zenon

----------------------------------------------------------------------------
(* What any request leaves as it was: the types, and the state's node.     *)

Values  == AllWords \cup {Unknown, Zero, TooLarge}
Pending == [signal : Writable, value : AllWords]

WorkType ==
  [marks  : SUBSET Writable,
   node   : [Signals -> [value : Values, status : {"Good", "Bad"}]],
   pushes : Seq(Pending),
   took   : [Signals -> AllWords \cup {Unknown, TooLarge}],
   raised : BOOLEAN]

Kept(w) == w \in WorkType /\ w.node[StateSignal] = node[StateSignal]

LEMMA Constants ==
  /\ Writable \subseteq Signals /\ StateSignal \in Signals
  /\ StateSignal \notin Writable
  /\ Mistyped \notin Values /\ Unknown \notin AllWords /\ Failed \notin AllWords
  /\ TooLarge \notin AllWords /\ Zero \notin AllWords
  /\ Declared \subseteq AllWords /\ Boot \in [Signals -> AllWords]
  /\ \A s \in Signals : Words[s] \subseteq AllWords
  /\ \A i \in 1 .. Len(Order) : Order[i] \in Signals
  /\ Len(Order) \in Nat /\ Len(Order) > 0
<1>1. \A s \in Signals : Words[s] \subseteq AllWords
  BY DEF AllWords
<1>2. Boot \in [Signals -> AllWords]
  BY GatewayAssumption
<1>3. \A i \in 1 .. Len(Order) : Order[i] \in Signals
  BY GatewayAssumption
<1>4. Mistyped \notin Values
  BY GatewayAssumption DEF Values, Mistyped, Unknown, Zero, TooLarge
<1>5. QED
  BY <1>1, <1>2, <1>3, <1>4, GatewayAssumption
  DEF Plain, Unknown, Failed, TooLarge, Zero

LEMMA SetSignalKeeps ==
  ASSUME NEW w \in WorkType, NEW known, NEW s \in Writable, NEW dv,
         dv \in [value : Values, status : {"Good", "Bad"}],
         s \in w.marks /\ ~Refused(known, s, dv) => dv.value \in AllWords
  PROVE  /\ SetSignal(w, known, s, dv) \in WorkType
         /\ SetSignal(w, known, s, dv).took = w.took
         /\ SetSignal(w, known, s, dv).node[StateSignal] = w.node[StateSignal]
<1>1. CASE s \notin w.marks
  BY <1>1, Constants DEF SetSignal, WorkType
<1>2. CASE s \in w.marks /\ Refused(known, s, dv)
  BY <1>2, Constants DEF SetSignal, WorkType, Raise
<1>3. CASE s \in w.marks /\ ~Refused(known, s, dv)
  <2>1. [signal |-> s, value |-> dv.value] \in Pending
    BY <1>3 DEF Pending
  <2>2. Append(w.pushes, [signal |-> s, value |-> dv.value]) \in Seq(Pending)
    BY <2>1 DEF WorkType
  <2>3. QED
    BY <1>3, <2>2, Constants DEF SetSignal, WorkType, Unmark, Queue
<1>4. QED
  BY <1>1, <1>2, <1>3

LEMMA WriteOneKeeps ==
  ASSUME NEW w, Kept(w), NEW item \in Items
  PROVE  Kept(WriteOne(lastWords, w, item))
<1>1. CASE w.raised \/ item.value = Mistyped
  BY <1>1 DEF WriteOne
<1>2. CASE ~(w.raised \/ item.value = Mistyped)
  <2> DEFINE dv    == Good(item.value)
             after == SetSignal(w, lastWords, item.signal, dv)
  <2>1. /\ item.signal \in Writable /\ item.value \in AllWords \cup {TooLarge}
        /\ dv \in [value : Values, status : {"Good", "Bad"}]
        /\ ~Refused(lastWords, item.signal, dv) => dv.value \in AllWords
    BY <1>2 DEF Items, Good, Values, Refused
  <2>2. /\ after \in WorkType
        /\ after.node[StateSignal] = w.node[StateSignal]
    <3> HIDE DEF dv
    <3> QED BY <2>1, SetSignalKeeps DEF Kept
  <2>3. [after EXCEPT !.took[item.signal] = item.value] \in WorkType
    <3> HIDE DEF after
    <3> QED BY <2>1, <2>2 DEF WorkType
  <2>4. WriteOne(lastWords, w, item) = IF after.raised THEN after
                             ELSE [after EXCEPT !.took[item.signal] = item.value]
    BY <1>2 DEF WriteOne
  <2> HIDE DEF after
  <2>5. QED
    BY <2>2, <2>3, <2>4 DEF Kept, WorkType
<1>3. QED
  BY <1>1, <1>2

LEMMA RequestKeeps ==
  ASSUME NEW request \in Seq(Items), NEW w, Kept(w)
  PROVE  Kept(FoldLeft(WriteItem, w, request))
<1> DEFINE n == Len(request)
<1>1. /\ n \in Nat /\ DOMAIN request = 1 .. n
      /\ \A m \in 1 .. n : request[m] \in Items
  OBVIOUS
<1> HIDE DEF n
<1>2. PICK it : /\ FoldOf(it, lastWords, w, request, n)
                /\ FoldLeft(WriteItem, w, request) = it[1 .. n]
  BY <1>1, FoldIsOrdered
<1> DEFINE Fine == {m \in 0 .. n : Kept(it[1 .. m])}
<1>3. FoldOf(it, lastWords, w, request, n)
  BY <1>2, Zenon
<1>4. 0 \in Fine
  <2>1. it[{}] = w /\ 1 .. 0 = {}
    BY <1>1, <1>3, FoldStarts
  <2>2. QED
    BY <1>1, <2>1
<1>5. ASSUME NEW m \in 0 .. n - 1, m \in Fine
      PROVE  m + 1 \in Fine
  <2>1. m + 1 \in 1 .. n /\ (m + 1) - 1 = m
    BY <1>1
  <2>2. it[1 .. m + 1] = WriteOne(lastWords, it[1 .. (m + 1) - 1], request[m + 1])
    BY <1>1, <1>3, <2>1, FoldSteps
  <2>3. it[1 .. m + 1] = WriteOne(lastWords, it[1 .. m], request[m + 1])
    BY <2>1, <2>2
  <2>4. Kept(it[1 .. m + 1])
    BY <1>1, <1>5, <2>1, <2>3, WriteOneKeeps
  <2>5. QED
    BY <2>1, <2>4, <1>1
<1>6. n \in Fine
  <2> HIDE DEF Fine
  <2> QED BY <1>1, <1>4, <1>5, UpTo
<1>7. QED
  BY <1>2, <1>6

----------------------------------------------------------------------------
(* The types, step by step. *)

LEMMA WorkIsTyped ==
  ASSUME GatewayTypeOK, NEW marked \in SUBSET Writable
  PROVE  Kept(Work(marked))
  BY DEF GatewayTypeOK, Kept, WorkType, Work, Values, Pending

LEMMA ClientWriteKeeps ==
  ASSUME GatewayTypeOK, NEW request \in Requests, ClientWrite(request)
  PROVE  /\ GatewayTypeOK'
         /\ node'[StateSignal] = node[StateSignal]
<1>1. request \in Seq(Items)
  BY GatewayAssumption DEF Items
<1>2. Marked(request) \in SUBSET Writable
  <2>1. \A i \in DOMAIN request : request[i].signal \in Writable
    <3>1. \A i \in DOMAIN request : request[i] \in Items
      BY <1>1
    <3>2. QED
      BY <3>1 DEF Items
  <2>2. marks \subseteq Writable
    BY DEF GatewayTypeOK
  <2>3. QED
    BY <2>1, <2>2 DEF Marked
<1>3. Kept(Work(Marked(request)))
  BY <1>2, WorkIsTyped
<1> DEFINE w == FoldLeft(WriteItem, Work(Marked(request)), request)
<1>4. Kept(w)
  BY <1>1, <1>3, RequestKeeps
<1>5. marks' = w.marks /\ node' = w.node /\ pushes' = w.pushes /\ accepted' = w.took
  BY Zenon DEF ClientWrite
<1>6. /\ writes < MaxWrites /\ writes' = writes + 1
      /\ UNCHANGED <<stage, reg, up, poll, readings, lastWords, stateCode,
                     transition, changes>>
  BY Zenon DEF ClientWrite
<1> HIDE DEF w
<1>7. writes' \in 0 .. MaxWrites
  BY <1>6, GatewayAssumption DEF GatewayTypeOK
<1>8. /\ marks' \subseteq Writable
      /\ node' \in [Signals -> [value : Values, status : {"Good", "Bad"}]]
      /\ pushes' \in Seq(Pending)
      /\ accepted' \in [Signals -> AllWords \cup {Unknown, TooLarge}]
      /\ node'[StateSignal] = node[StateSignal]
  BY <1>4, <1>5 DEF Kept, WorkType
<1>9. QED
  BY <1>6, <1>7, <1>8 DEF GatewayTypeOK, Values, Pending

LEMMA AdvanceType ==
  ASSUME GatewayTypeOK, Advance
  PROVE  poll' \in [doing : {"read", "publish"}, at : 1 .. Len(Order)]
  BY Constants DEF GatewayTypeOK, Advance

LEMMA CurrentIsSignal ==
  ASSUME GatewayTypeOK
  PROVE  /\ poll.at \in 1 .. Len(Order) /\ poll.doing \in {"read", "publish"}
         /\ Current \in Signals
  BY Constants DEF GatewayTypeOK, Current

LEMMA AfterPublishType ==
  ASSUME GatewayTypeOK, NEW raised
  PROVE  AfterPublish(raised) \in {"connecting", "priming", "running", "stopped", "dead"}
  BY DEF AfterPublish, GatewayTypeOK

LEMMA ReadKeeps ==
  ASSUME GatewayTypeOK, ReadSignal
  PROVE  GatewayTypeOK'
<1>1. poll' \in [doing : {"read", "publish"}, at : 1 .. Len(Order)]
  BY AdvanceType DEF ReadSignal
<1>2. readings' \in [Signals -> AllWords \cup {Unknown, Failed}]
  BY CurrentIsSignal DEF ReadSignal, GatewayTypeOK
<1>3. QED
  BY <1>1, <1>2 DEF ReadSignal, GatewayTypeOK

LEMMA ConfirmedType ==
  ASSUME GatewayTypeOK, NEW s \in Signals
  PROVE  /\ Confirmed(s) \in AllWords \cup {Unknown}
         /\ readings[s] \in AllWords \cup {Unknown, Failed}
         /\ readings[s] # Failed => Confirmed(s) = readings[s]
  BY DEF Confirmed, GatewayTypeOK

Shown(s) == IF readings[s] = Failed THEN Bad ELSE Good(readings[s])

\* A reading taken for a client's write is refused or a register's words.
LEMMA PublishedKeeps ==
  ASSUME GatewayTypeOK, NEW s \in Plain
  PROVE  Kept(Published(s, Shown(s)))
<1> DEFINE known == [lastWords EXCEPT ![s] = Confirmed(s)]
           dv    == Shown(s)
<1>1. s \in Signals /\ s # StateSignal
  BY DEF Plain
<1>2. dv \in [value : Values, status : {"Good", "Bad"}]
  BY <1>1, ConfirmedType DEF Shown, Good, Bad, Values
<1>3. Kept(Work(marks))
  BY WorkIsTyped DEF GatewayTypeOK
<1>4. CASE s \in Writable
  <2>1. known[s] = Confirmed(s)
    BY <1>1 DEF GatewayTypeOK
  <2>2. ~Refused(known, s, dv) => dv.value \in AllWords
    BY <2>1, <1>1, ConfirmedType
    DEF Refused, Shown, Good, Bad, Confirmed, Unknown, Failed
  <2>3. Published(s, dv) = SetSignal(Work(marks), known, s, dv)
    BY <1>4 DEF Published
  <2> HIDE DEF known, dv
  <2>4. /\ SetSignal(Work(marks), known, s, dv) \in WorkType
        /\ SetSignal(Work(marks), known, s, dv).node[StateSignal]
             = Work(marks).node[StateSignal]
    BY <1>2, <1>3, <1>4, <2>2, SetSignalKeeps DEF Kept
  <2>5. Kept(Published(s, dv))
    BY <1>3, <2>3, <2>4 DEF Kept
  <2>6. QED
    BY <2>5 DEF dv
<1>5. CASE s \notin Writable
  <2>1. Published(s, dv) = [Work(marks) EXCEPT !.node[s] = dv]
    BY <1>5 DEF Published
  <2> HIDE DEF dv
  <2> DEFINE w == Work(marks)
  <2>2. /\ w \in WorkType /\ w.node[StateSignal] = node[StateSignal]
        /\ Published(s, dv) = [w EXCEPT !.node[s] = dv]
    BY <1>3, <2>1 DEF Kept
  <2> HIDE DEF w
  <2>3. [w EXCEPT !.node[s] = dv] \in WorkType
    BY <1>1, <1>2, <2>2 DEF WorkType
  <2>4. [w EXCEPT !.node[s] = dv].node[StateSignal] = node[StateSignal]
    BY <1>1, <2>2, Constants DEF WorkType
  <2>5. Kept(Published(s, dv))
    BY <2>2, <2>3, <2>4 DEF Kept
  <2>6. QED
    BY <2>5 DEF dv
<1>6. QED
  BY <1>4, <1>5

LEMMA PublishKeeps ==
  ASSUME GatewayTypeOK, PublishSignal
  PROVE  /\ GatewayTypeOK'
         /\ node'[StateSignal] = node[StateSignal]
<1>1. Current \in Plain /\ Current \in Signals
  BY CurrentIsSignal DEF PublishSignal, Plain
<1> DEFINE w == Published(Current, Shown(Current))
<1>2. Kept(w)
  BY <1>1, PublishedKeeps
<1>3. /\ node' = w.node /\ marks' = w.marks /\ pushes' = w.pushes
      /\ stage' = AfterPublish(w.raised)
  BY Zenon DEF PublishSignal, Shown
<1> HIDE DEF w
<1>4. poll' \in [doing : {"read", "publish"}, at : 1 .. Len(Order)]
  BY AdvanceType DEF PublishSignal
<1>5. stage' \in {"connecting", "priming", "running", "stopped", "dead"}
  BY <1>3, AfterPublishType
<1>6. lastWords' \in [Signals -> AllWords \cup {Unknown}]
  <2>1. lastWords' = [lastWords EXCEPT ![Current] = Confirmed(Current)]
    BY DEF PublishSignal
  <2>2. QED
    BY <2>1, <1>1, ConfirmedType DEF GatewayTypeOK
<1>7. /\ marks' \subseteq Writable
      /\ node' \in [Signals -> [value : Values, status : {"Good", "Bad"}]]
      /\ pushes' \in Seq(Pending)
      /\ node'[StateSignal] = node[StateSignal]
  BY <1>2, <1>3 DEF Kept, WorkType
<1>8. UNCHANGED <<reg, up, readings, stateCode, transition, accepted, writes, changes>>
  BY DEF PublishSignal
<1>9. QED
  BY <1>4, <1>5, <1>6, <1>7, <1>8 DEF GatewayTypeOK, Values, Pending

LEMMA PublishStateKeeps ==
  ASSUME GatewayTypeOK, PublishState
  PROVE  GatewayTypeOK'
<1>1. poll' \in [doing : {"read", "publish"}, at : 1 .. Len(Order)]
  BY AdvanceType DEF PublishState
<1>2. stage' \in {"connecting", "priming", "running", "stopped", "dead"}
  BY AfterPublishType DEF PublishState
<1>3. lastWords' \in [Signals -> AllWords \cup {Unknown}]
  BY Constants, ConfirmedType DEF PublishState, GatewayTypeOK
<1>4. /\ node' \in [Signals -> [value : Values, status : {"Good", "Bad"}]]
      /\ stateCode' \in Declared \cup {Unknown}
      /\ transition' \in [to : Declared \cup {Unknown}, stamps : Nat]
  <2> DEFINE code == readings[StateSignal]
  <2>1. CASE HasState(code)
    <3>1. code \in Declared /\ code \in Values
      BY <2>1, Constants DEF HasState, Values
    <3>2. node' = [node EXCEPT ![StateSignal] = Good(code)] /\ stateCode' = code
      BY <2>1 DEF PublishState
    <3>3. \/ transition' = [to |-> code, stamps |-> transition.stamps + 1]
          \/ transition' = transition
      BY <2>1 DEF PublishState
    <3> HIDE DEF code
    <3>4. transition' \in [to : Declared \cup {Unknown}, stamps : Nat]
      BY <3>1, <3>3 DEF GatewayTypeOK
    <3>5. node' \in [Signals -> [value : Values, status : {"Good", "Bad"}]]
      BY <3>1, <3>2, Constants DEF GatewayTypeOK, Good, Values
    <3>6. QED
      BY <3>1, <3>2, <3>4, <3>5
  <2>2. CASE ~HasState(code)
    <3>1. /\ node' = [node EXCEPT ![StateSignal] = Bad]
          /\ stateCode' = Unknown /\ transition' = transition
      BY <2>2 DEF PublishState
    <3>2. QED
      BY <3>1 DEF GatewayTypeOK, Bad, Values
  <2>3. QED
    BY <2>1, <2>2
<1>5. UNCHANGED <<reg, up, readings, marks, pushes, accepted, writes, changes>>
  BY DEF PublishState
<1>6. QED
  BY <1>1, <1>2, <1>3, <1>4, <1>5 DEF GatewayTypeOK, Values

LEMMA PushKeeps ==
  ASSUME GatewayTypeOK, Push
  PROVE  GatewayTypeOK'
<1>1. /\ pushes \in Seq(Pending) /\ pushes # <<>>
      /\ pushes' = Tail(pushes)
  BY DEF GatewayTypeOK, Push, Pending
<1>2. pushes' \in Seq(Pending) /\ Head(pushes) \in Pending
  BY <1>1, HeadTailProperties
<1>3. Head(pushes).signal \in Signals /\ Head(pushes).value \in AllWords
  BY <1>2, Constants DEF Pending
<1>4. /\ reg' = reg \/ reg' = [reg EXCEPT ![Head(pushes).signal] = Head(pushes).value]
      /\ \/ accepted' = accepted
         \/ accepted' = [accepted EXCEPT ![Head(pushes).signal] = Unknown]
  BY DEF Push
<1>5. reg' \in [Signals -> AllWords]
  BY <1>3, <1>4 DEF GatewayTypeOK
<1>6. accepted' \in [Signals -> AllWords \cup {Unknown, TooLarge}]
  BY <1>3, <1>4 DEF GatewayTypeOK
<1>7. UNCHANGED <<stage, up, poll, readings, lastWords, node, marks, stateCode,
                  transition, writes, changes>>
  BY DEF Push
<1>8. QED
  BY <1>2, <1>5, <1>6, <1>7 DEF GatewayTypeOK, Pending

Elsewhere ==
  \/ Connect \/ Stop \/ PlcGoes \/ PlcComes
  \/ \E s \in Signals : RegisterChanges(s)

LEMMA ElsewhereKeeps ==
  ASSUME GatewayTypeOK, Elsewhere
  PROVE  GatewayTypeOK'
<1>1. CASE Connect
  BY <1>1 DEF Connect, GatewayTypeOK
<1>2. CASE Stop
  BY <1>2 DEF Stop, GatewayTypeOK
<1>3. CASE PlcGoes
  <2>1. changes \in 0 .. MaxChanges /\ changes < MaxChanges /\ changes' = changes + 1
    BY <1>3 DEF PlcGoes, Happens, GatewayTypeOK
  <2>2. changes' \in 0 .. MaxChanges
    BY <2>1, GatewayAssumption
  <2>3. up' \in BOOLEAN
    BY <1>3, Zenon DEF PlcGoes
  <2>4. UNCHANGED <<stage, reg, poll, readings, lastWords, node, marks, pushes,
                    stateCode, transition, accepted, writes>>
    BY <1>3 DEF PlcGoes
  <2>5. QED
    BY <2>2, <2>3, <2>4 DEF GatewayTypeOK
<1>4. CASE PlcComes
  BY <1>4, Constants DEF PlcComes, GatewayTypeOK
<1>5. ASSUME NEW s \in Signals, RegisterChanges(s)
      PROVE  GatewayTypeOK'
  BY <1>5, Constants, GatewayAssumption DEF RegisterChanges, Happens, GatewayTypeOK
<1>6. QED
  BY <1>1, <1>2, <1>3, <1>4, <1>5 DEF Elsewhere

----------------------------------------------------------------------------
(* Types and the state machine, for any requests. *)

\* The state shown is the last code published, and the last transition led to that.
StateInv ==
  /\ node[StateSignal].value \in Declared => stateCode = node[StateSignal].value
  /\ stateCode # Unknown => transition.to = stateCode

LEMMA GatewayInitTyped ==
  ASSUME GatewayInit
  PROVE  GatewayTypeOK /\ StateInv
<1>1. GatewayTypeOK
  BY Constants, GatewayAssumption DEF GatewayInit, GatewayTypeOK, Good, Pending
<1>2. Zero \notin Declared
  BY Constants
<1>3. StateInv
  BY <1>2, Constants DEF GatewayInit, StateInv, Good
<1>4. QED
  BY <1>1, <1>3

\* A step that leaves the state's node and what belongs to it alone.
LEMMA StateStands ==
  ASSUME StateInv, node'[StateSignal] = node[StateSignal],
         UNCHANGED <<stateCode, transition>>
  PROVE  StateInv'
  BY DEF StateInv

LEMMA StateIsPublished ==
  ASSUME GatewayTypeOK, StateInv, PublishState
  PROVE  StateInv'
<1> DEFINE code == readings[StateSignal]
<1>1. node \in [Signals -> [value : Values, status : {"Good", "Bad"}]]
  BY DEF GatewayTypeOK, Values
<1>2. CASE HasState(code)
  <2>1. code \in Declared /\ code # Unknown
    BY <1>2, Constants DEF HasState
  <2>2. node' = [node EXCEPT ![StateSignal] = Good(code)] /\ stateCode' = code
    BY <1>2 DEF PublishState
  <2>3. transition' = IF IsChange(code)
                      THEN [to |-> code, stamps |-> transition.stamps + 1]
                      ELSE transition
    BY <1>2 DEF PublishState
  <2> HIDE DEF code
  <2>4. node'[StateSignal].value = code
    BY <1>1, <2>2, Constants DEF Good
  <2>5. transition'.to = code
    BY <2>1, <2>3 DEF IsChange, StateInv
  <2>6. QED
    BY <2>2, <2>4, <2>5 DEF StateInv
<1>3. CASE ~HasState(code)
  <2>1. node' = [node EXCEPT ![StateSignal] = Bad] /\ stateCode' = Unknown
    BY <1>3 DEF PublishState
  <2>2. node'[StateSignal].value = Unknown
    BY <1>1, <2>1, Constants DEF Bad
  <2>3. QED
    BY <2>1, <2>2, Constants DEF StateInv
<1>4. QED
  BY <1>2, <1>3

LEMMA GatewayStep ==
  ASSUME GatewayTypeOK, StateInv, [GatewayNext]_gatewayVars
  PROVE  GatewayTypeOK' /\ StateInv'
<1>1. CASE UNCHANGED gatewayVars
  BY <1>1 DEF gatewayVars, GatewayTypeOK, StateInv
<1>2. ASSUME NEW request \in Requests, ClientWrite(request)
      PROVE  GatewayTypeOK' /\ StateInv'
  BY <1>2, ClientWriteKeeps, StateStands DEF ClientWrite
<1>3. CASE ReadSignal
  BY <1>3, ReadKeeps, StateStands DEF ReadSignal
<1>4. CASE PublishSignal
  BY <1>4, PublishKeeps, StateStands DEF PublishSignal
<1>5. CASE PublishState
  BY <1>5, PublishStateKeeps, StateIsPublished
<1>6. CASE Push
  BY <1>6, PushKeeps, StateStands DEF Push
<1>7. CASE Elsewhere
  <2>1. UNCHANGED <<node, stateCode, transition>>
    BY <1>7 DEF Elsewhere, Connect, Stop, PlcGoes, PlcComes, RegisterChanges
  <2>2. QED
    BY <1>7, <2>1, ElsewhereKeeps, StateStands
<1>8. QED
  BY <1>1, <1>2, <1>3, <1>4, <1>5, <1>6, <1>7 DEF GatewayNext, PollStep, Elsewhere

(* Nodes, readings, marks and pushes stay of their kinds whatever any      *)
(* client writes and whenever the PLC goes (server.py, poller.py): a value *)
(* encode() cannot pack is never queued for the PLC, and no node that is   *)
(* not writable is ever marked.                                            *)
THEOREM GatewayTypeCorrect == GatewaySpec => []GatewayTypeOK
<1>1. GatewaySpec => [](GatewayTypeOK /\ StateInv)
  BY GatewayInitTyped, GatewayStep, PTL DEF GatewaySpec
<1>2. QED
  BY <1>1, PTL

(* Gateway._publish_state: through outages, undeclared codes and any       *)
(* client's requests, CurrentState shows the state that LastTransition     *)
(* leads to.                                                               *)
THEOREM TransitionsExplainStates == GatewaySpec => []TransitionExplainsState
<1>1. GatewaySpec => []StateInv
  BY GatewayInitTyped, GatewayStep, PTL DEF GatewaySpec
<1>2. StateInv => TransitionExplainsState
  BY Constants DEF StateInv, TransitionExplainsState
<1>3. QED
  BY <1>1, <1>2, PTL

----------------------------------------------------------------------------
(* Requests of one value of the signal's type, as DeviceController's       *)
(* write_setpoint sends them: a mark never outlives its request.           *)

OneValueEach ==
  \A request \in Requests : DOMAIN request = 1 .. 1 /\ request[1].value # Mistyped

Unmarked == marks = {}

\* A client's write is refused and leaves no trace, or it is taken: the node
\* shows it, Good, a push is queued and it is the last one accepted.
Taken(s, v) ==
  /\ lastWords[s] # Unknown /\ v \in AllWords
  /\ node' = [node EXCEPT ![s] = Good(v)]
  /\ pushes' = Append(pushes, [signal |-> s, value |-> v])
  /\ accepted' = [accepted EXCEPT ![s] = v]

LEMMA OneWrite ==
  ASSUME OneValueEach, GatewayTypeOK, Unmarked,
         NEW request \in Requests, ClientWrite(request)
  PROVE  /\ Unmarked'
         /\ request[1].signal \in Writable
         /\ \/ UNCHANGED <<node, pushes, accepted>>
            \/ Taken(request[1].signal, request[1].value)
<1> DEFINE s == request[1].signal
           v == request[1].value
           w == Work(Marked(request))
           known == lastWords
<1>1. DOMAIN request = 1 .. 1 /\ v # Mistyped /\ request \in Seq(Items)
  BY GatewayAssumption DEF OneValueEach, Items
<1>2. request[1] \in Items
  BY <1>1
<1>3. s \in Writable /\ v \in AllWords \cup {TooLarge}
  BY <1>1, <1>2 DEF Items
<1>4. Marked(request) = {s}
  BY <1>1 DEF Marked, Unmarked
<1>5. w = [marks |-> {s}, node |-> node, pushes |-> pushes, took |-> accepted,
           raised |-> FALSE]
  BY <1>4 DEF Work
<1>6. FoldLeft(WriteItem, w, request) = WriteOne(known, w, request[1])
  BY <1>1, OneItem
<1>7. /\ marks' = WriteOne(known, w, request[1]).marks
      /\ node' = WriteOne(known, w, request[1]).node
      /\ pushes' = WriteOne(known, w, request[1]).pushes
      /\ accepted' = WriteOne(known, w, request[1]).took
  BY <1>6, Zenon DEF ClientWrite
<1> DEFINE after == SetSignal(w, known, s, Good(v))
<1>8. WriteOne(known, w, request[1])
        = IF after.raised THEN after ELSE [after EXCEPT !.took[s] = v]
  BY <1>1, <1>5 DEF WriteOne
<1>9. CASE Refused(known, s, Good(v))
  <2>1. after = [marks |-> {}, node |-> node, pushes |-> pushes, took |-> accepted,
                 raised |-> TRUE]
    <3>1. after = [w EXCEPT !.marks = @ \ {s}, !.raised = TRUE]
      BY <1>5, <1>9 DEF SetSignal, Raise
    <3>2. {s} \ {s} = {}
      OBVIOUS
    <3> HIDE DEF w, s
    <3>3. QED
      BY <1>5, <3>1, <3>2
  <2> HIDE DEF after
  <2>2. UNCHANGED <<node, pushes, accepted>> /\ marks' = {}
    BY <1>7, <1>8, <2>1
  <2>3. QED
    BY <1>3, <2>2 DEF Unmarked
<1>10. CASE ~Refused(known, s, Good(v))
  <2>1. lastWords[s] # Unknown /\ v \in AllWords
    BY <1>3, <1>10 DEF Refused, Good
  <2>2. after = [marks |-> {}, node |-> [node EXCEPT ![s] = Good(v)],
                 pushes |-> Append(pushes, [signal |-> s, value |-> v]),
                 took |-> accepted, raised |-> FALSE]
    <3>1. /\ Unmark(w, s) = {s} \ {s}
          /\ Queue(w, [signal |-> s, value |-> v])
               = Append(pushes, [signal |-> s, value |-> v])
      BY <1>5 DEF Unmark, Queue
    <3>2. /\ s \in w.marks
          /\ Good(v).value = v
      BY <1>5 DEF Good
    <3>3. after = [w EXCEPT !.marks  = Unmark(w, s),
                            !.pushes = Queue(w, [signal |-> s, value |-> v]),
                            !.node[s] = Good(v)]
      BY <1>10, <3>2, Zenon DEF SetSignal
    <3>4. {s} \ {s} = {}
      OBVIOUS
    <3> HIDE DEF w, s, v, after
    <3>5. QED
      BY <1>5, <3>1, <3>3, <3>4
  <2> HIDE DEF after
  <2>3. /\ marks' = {} /\ node' = [node EXCEPT ![s] = Good(v)]
        /\ pushes' = Append(pushes, [signal |-> s, value |-> v])
        /\ accepted' = [accepted EXCEPT ![s] = v]
    BY <1>7, <1>8, <2>2
  <2>4. QED
    BY <1>3, <2>1, <2>3 DEF Unmarked, Taken
<1>11. QED
  BY <1>9, <1>10

\* Without a mark a publication is just the node's new value.
LEMMA PlainPublication ==
  ASSUME Unmarked, PublishSignal
  PROVE  /\ node' = [node EXCEPT ![Current] = Shown(Current)]
         /\ marks' = {} /\ pushes' = pushes
         /\ stage' = AfterPublish(FALSE)
<1> DEFINE w == Published(Current, Shown(Current))
<1>1. w = [Work(marks) EXCEPT !.node[Current] = Shown(Current)]
  BY DEF Published, SetSignal, Work, Unmarked
<1>2. /\ node' = w.node /\ marks' = w.marks /\ pushes' = w.pushes
      /\ stage' = AfterPublish(w.raised)
  BY Zenon DEF PublishSignal, Shown
<1>3. Work(marks) = [marks |-> {}, node |-> node, pushes |-> pushes, took |-> accepted,
                     raised |-> FALSE]
  BY DEF Work, Unmarked
<1>4. /\ w.node = [node EXCEPT ![Current] = Shown(Current)]
      /\ w.marks = {} /\ w.pushes = pushes /\ w.raised = FALSE
  BY <1>1, <1>3
<1> HIDE DEF w
<1>5. QED
  BY <1>2, <1>4

LEMMA UnmarkedStep ==
  ASSUME OneValueEach, GatewayTypeOK, Unmarked, [GatewayNext]_gatewayVars
  PROVE  Unmarked'
<1>1. ASSUME NEW request \in Requests, ClientWrite(request)
      PROVE  Unmarked'
  BY <1>1, OneWrite
<1>2. CASE PublishSignal
  BY <1>2, PlainPublication DEF Unmarked
<1>3. CASE \/ ReadSignal \/ PublishState \/ Push \/ Elsewhere
           \/ UNCHANGED gatewayVars
  BY <1>3 DEF ReadSignal, PublishState, Push, Elsewhere, Connect, Stop, PlcGoes,
              PlcComes, RegisterChanges, gatewayVars, Unmarked
<1>4. QED
  BY <1>1, <1>2, <1>3 DEF GatewayNext, PollStep, Elsewhere

LEMMA NeverMarked ==
  ASSUME OneValueEach
  PROVE  GatewaySpec => [](GatewayTypeOK /\ Unmarked)
<1>1. GatewayInit => Unmarked
  BY DEF GatewayInit, Unmarked
<1>2. GatewayTypeOK /\ Unmarked /\ [GatewayNext]_gatewayVars => Unmarked'
  BY UnmarkedStep
<1>3. QED
  BY <1>1, <1>2, GatewayTypeCorrect, PTL DEF GatewaySpec

(* Poller.poll_once and Gateway.publish never queue a write to the PLC,    *)
(* however the requests of any number of clients fall between their steps, *)
(* as long as each is one value of its signal's type.                      *)
THEOREM PollsNeverWrite ==
  ASSUME OneValueEach
  PROVE  GatewaySpec => PollNeverWrites
<1>1. Unmarked /\ PollStep => pushes' = pushes
  BY PlainPublication DEF PollStep, ReadSignal, PublishState
<1>2. QED
  BY <1>1, NeverMarked, PTL DEF GatewaySpec, PollNeverWrites

(* server.py:464-466: then no outage of the PLC ends the gateway.  With a  *)
(* value of another type one does (Gateway_mark.cfg).                      *)
THEOREM OutagesAreSurvived ==
  ASSUME OneValueEach
  PROVE  GatewaySpec => []OutageIsSurvived
<1>1. GatewayInit => OutageIsSurvived
  BY DEF GatewayInit, OutageIsSurvived
<1>2. Unmarked /\ OutageIsSurvived /\ [GatewayNext]_gatewayVars => OutageIsSurvived'
  <2> SUFFICES ASSUME Unmarked, OutageIsSurvived, [GatewayNext]_gatewayVars
               PROVE  OutageIsSurvived'
    OBVIOUS
  <2>1. CASE PublishSignal
    BY <2>1, PlainPublication DEF AfterPublish, OutageIsSurvived
  <2>2. CASE PublishState
    BY <2>2 DEF PublishState, AfterPublish, OutageIsSurvived
  <2>3. CASE \/ ReadSignal \/ Push \/ Elsewhere \/ UNCHANGED gatewayVars
             \/ \E request \in Requests : ClientWrite(request)
    BY <2>3 DEF ReadSignal, Push, Elsewhere, Connect, Stop, PlcGoes, PlcComes,
                RegisterChanges, ClientWrite, gatewayVars, OutageIsSurvived
  <2>4. QED
    BY <2>1, <2>2, <2>3 DEF GatewayNext, PollStep, Elsewhere
<1>3. QED
  BY <1>1, <1>2, NeverMarked, PTL DEF GatewaySpec

----------------------------------------------------------------------------
(* Good means confirmed. *)

\* What is published has been read.
HasRead ==
  /\ stage = "connecting" => poll.doing = "read"
  /\ poll.doing = "publish" => \A s \in Signals : readings[s] # Unknown
  /\ poll.doing = "read" =>
       \A i \in 1 .. Len(Order) : i < poll.at => readings[Order[i]] # Unknown

Fits(s) == node[s].status = "Good" <=> lastWords[s] # Unknown

\* While the first poll publishes, the nodes it has done fit.
Primed ==
  /\ stage = "running" => \A s \in Plain : Fits(s)
  /\ stage = "priming" /\ poll.doing = "publish" =>
       \A i \in 1 .. Len(Order) : i < poll.at /\ Order[i] \in Plain => Fits(Order[i])

GoodInv == HasRead /\ Primed

LEMMA EverySignalHasItsTurn ==
  ASSUME NEW s \in Signals
  PROVE  \E i \in 1 .. Len(Order) : Order[i] = s
<1>1. s \in ToSet(Order)
  BY DEF Signals
<1>2. DOMAIN Order = 1 .. Len(Order)
  BY GatewayAssumption
<1>3. QED
  BY <1>1, <1>2 DEF ToSet

LEMMA GoodInit ==
  ASSUME GatewayInit
  PROVE  GoodInv
  BY Constants DEF GatewayInit, GoodInv, HasRead, Primed

\* What a client's request does to a node leaves it fitting.
LEMMA WritesFit ==
  ASSUME OneValueEach, GatewayTypeOK, Unmarked,
         NEW request \in Requests, ClientWrite(request),
         NEW s \in Signals, Fits(s)
  PROVE  Fits(s)'
<1>1. lastWords' = lastWords
  BY DEF ClientWrite
<1>2. CASE UNCHANGED node
  BY <1>1, <1>2 DEF Fits
<1>3. CASE Taken(request[1].signal, request[1].value)
  <2>1. CASE s = request[1].signal
    <3>1. lastWords[s] # Unknown /\ node' = [node EXCEPT ![s] = Good(request[1].value)]
      BY <1>3, <2>1 DEF Taken
    <3>2. node'[s].status = "Good"
      BY <3>1 DEF GatewayTypeOK, Good
    <3>3. QED
      BY <1>1, <3>1, <3>2 DEF Fits
  <2>2. CASE s # request[1].signal
    <3>1. node'[s] = node[s]
      BY <1>3, <2>2 DEF Taken, GatewayTypeOK
    <3>2. QED
      BY <1>1, <3>1 DEF Fits
  <2>3. QED
    BY <2>1, <2>2
<1>4. QED
  BY <1>2, <1>3, OneWrite

\* A publication fits, and leaves the others as they were.
LEMMA PublicationFits ==
  ASSUME GatewayTypeOK, Unmarked, HasRead, PublishSignal
  PROVE  \A s \in Signals : s = Current \/ Fits(s) => Fits(s)'
<1> DEFINE c == Current
<1>1. c \in Signals
  BY CurrentIsSignal
<1>2. /\ node' = [node EXCEPT ![c] = Shown(c)]
      /\ lastWords' = [lastWords EXCEPT ![c] = Confirmed(c)]
  BY PlainPublication DEF PublishSignal
<1>3. readings[c] # Unknown
  BY <1>1 DEF HasRead, PublishSignal
<1> HIDE DEF c
<1>4. node'[c] = Shown(c) /\ lastWords'[c] = Confirmed(c)
  BY <1>1, <1>2 DEF GatewayTypeOK
<1>5. node'[c].status = "Good" <=> lastWords'[c] # Unknown
  BY <1>3, <1>4 DEF Shown, Confirmed, Good, Bad, Failed, Unknown
<1>6. ASSUME NEW s \in Signals, s = c \/ Fits(s)
      PROVE  Fits(s)'
  <2>1. CASE s = c
    BY <1>5, <2>1 DEF Fits
  <2>2. CASE s # c
    <3>1. node'[s] = node[s] /\ lastWords'[s] = lastWords[s]
      BY <1>2, <2>2 DEF GatewayTypeOK
    <3>2. QED
      BY <1>6, <2>2, <3>1 DEF Fits
  <2>3. QED
    BY <2>1, <2>2
<1>7. QED
  BY <1>6 DEF c

\* Where a poll is once it has done one more signal.
LEMMA Advances ==
  ASSUME GatewayTypeOK, Advance
  PROVE  \/ /\ poll.at < Len(Order)
            /\ poll'.doing = poll.doing /\ poll'.at = poll.at + 1
         \/ /\ poll.at = Len(Order) /\ poll'.at = 1
            /\ poll.doing = "read" => poll'.doing = "publish"
            /\ poll.doing = "publish" => poll'.doing = "read"
<1>1. poll \in [doing : {"read", "publish"}, at : 1 .. Len(Order)]
  BY DEF GatewayTypeOK
<1>2. CASE poll.at < Len(Order)
  BY <1>1, <1>2 DEF Advance
<1>3. CASE ~(poll.at < Len(Order))
  <2>1. poll.at = Len(Order)
    BY <1>1, <1>3, Constants
  <2>2. poll' = [doing |-> IF poll.doing = "read" THEN "publish" ELSE "read", at |-> 1]
    BY <1>3 DEF Advance
  <2>3. QED
    BY <1>1, <2>1, <2>2
<1>4. QED
  BY <1>2, <1>3

LEMMA ReadIsRead ==
  ASSUME GatewayTypeOK, GoodInv, ReadSignal
  PROVE  GoodInv'
<1>1. Current \in Signals /\ poll.at \in 1 .. Len(Order) /\ Len(Order) \in Nat
  BY CurrentIsSignal, Constants
<1>2. reg[Current] # Unknown /\ Failed # Unknown
  BY <1>1, Constants DEF GatewayTypeOK, Failed, Unknown
<1>3. readings' = [readings EXCEPT ![Current] = IF up THEN reg[Current] ELSE Failed]
  BY DEF ReadSignal
<1>4. readings'[Current] # Unknown
  BY <1>1, <1>2, <1>3 DEF GatewayTypeOK
<1>5. \A s \in Signals : readings[s] # Unknown => readings'[s] # Unknown
  <2> TAKE s \in Signals
  <2>1. CASE s = Current
    BY <1>4, <2>1
  <2>2. CASE s # Current
    BY <1>3, <2>2 DEF GatewayTypeOK
  <2>3. QED
    BY <2>1, <2>2
<1>6. \A i \in 1 .. Len(Order) : i <= poll.at => readings'[Order[i]] # Unknown
  <2> TAKE i \in 1 .. Len(Order)
  <2>1. CASE i = poll.at
    BY <1>4, <2>1 DEF Current
  <2>2. CASE i < poll.at
    BY <1>5, <2>2, Constants DEF GoodInv, HasRead, ReadSignal
  <2>3. QED
    BY <1>1, <2>1, <2>2
<1>7. Advance /\ poll.doing = "read"
  BY DEF ReadSignal
<1>8. stage \in {"priming", "running"} /\ stage' = stage /\ node' = node
      /\ lastWords' = lastWords
  BY DEF ReadSignal, Alive
<1>9. HasRead'
  <2>1. CASE poll.at < Len(Order)
    <3>1. poll'.doing = "read" /\ poll'.at = poll.at + 1
      BY <1>1, <1>7, <2>1, Advances
    <3>2. \A i \in 1 .. Len(Order) : i < poll'.at => readings'[Order[i]] # Unknown
      BY <1>1, <1>6, <3>1
    <3>3. QED
      BY <1>8, <3>1, <3>2 DEF HasRead
  <2>2. CASE poll.at = Len(Order)
    <3>1. poll'.doing = "publish"
      BY <1>1, <1>7, <2>2, Advances
    <3>2. \A s \in Signals : readings'[s] # Unknown
      BY <1>1, <1>6, <2>2, EverySignalHasItsTurn
    <3>3. QED
      BY <1>8, <3>1, <3>2 DEF HasRead
  <2>3. QED
    BY <1>1, <2>1, <2>2
<1>10. Primed'
  <2>1. stage' = "running" => \A s \in Plain : Fits(s)'
    BY <1>8 DEF GoodInv, Primed, Fits
  <2>2. poll'.doing = "publish" => poll'.at = 1
    BY <1>1, <1>7, Advances
  <2>3. QED
    BY <1>1, <2>1, <2>2 DEF Primed
<1>11. QED
  BY <1>9, <1>10 DEF GoodInv

\* Either publication takes the poll one signal on; the last one primes the server.
LEMMA PublishingPrimes ==
  ASSUME GatewayTypeOK, GoodInv, Alive, poll.doing = "publish", Advance,
         stage' = AfterPublish(FALSE), readings' = readings,
         \A s \in Plain : s = Current \/ Fits(s) => Fits(s)'
  PROVE  GoodInv'
<1>1. Current \in Signals /\ poll.at \in 1 .. Len(Order) /\ Len(Order) \in Nat
  BY CurrentIsSignal, Constants
<1>2. \/ /\ poll.at < Len(Order)
         /\ poll'.doing = "publish" /\ poll'.at = poll.at + 1
      \/ poll.at = Len(Order) /\ poll'.at = 1 /\ poll'.doing = "read"
  BY Advances
<1>3. stage' # "connecting"
  BY DEF AfterPublish, Alive
<1>4. HasRead'
  <2>1. \A s \in Signals : readings'[s] # Unknown
    BY DEF GoodInv, HasRead
  <2>2. \A i \in 1 .. Len(Order) : readings'[Order[i]] # Unknown
    BY <2>1, Constants
  <2>3. QED
    BY <1>3, <2>1, <2>2 DEF HasRead
<1>5. ASSUME stage' = "running", NEW s \in Plain
      PROVE  Fits(s)'
  <2>1. CASE stage = "running"
    BY <1>5, <2>1 DEF GoodInv, Primed
  <2>2. CASE stage # "running"
    <3>1. stage = "priming" /\ poll.at = Len(Order)
      BY <1>5, <2>2 DEF AfterPublish, Alive
    <3>2. PICK i \in 1 .. Len(Order) : Order[i] = s
      BY EverySignalHasItsTurn DEF Plain
    <3>3. CASE i = poll.at
      BY <3>2, <3>3 DEF Current
    <3>4. CASE i < poll.at
      BY <3>1, <3>2, <3>4 DEF GoodInv, Primed
    <3>5. QED
      BY <1>1, <3>1, <3>3, <3>4
  <2>3. QED
    BY <2>1, <2>2
<1>6. ASSUME stage' = "priming", poll'.doing = "publish",
             NEW i \in 1 .. Len(Order), i < poll'.at, Order[i] \in Plain
      PROVE  Fits(Order[i])'
  <2>1. stage = "priming" /\ poll'.at = poll.at + 1
    BY <1>2, <1>6 DEF AfterPublish, Alive
  <2>2. i = poll.at \/ i < poll.at
    BY <1>1, <1>6, <2>1
  <2>3. Order[i] = Current \/ Fits(Order[i])
    BY <1>6, <2>1, <2>2 DEF Current, GoodInv, Primed
  <2>4. PICK s \in Plain : s = Order[i]
    BY <1>6
  <2>5. Fits(s)'
    BY <2>3, <2>4
  <2>6. QED
    BY <2>4, <2>5 DEF Fits
<1>7. Primed'
  BY <1>5, <1>6 DEF Primed
<1>8. QED
  BY <1>4, <1>7 DEF GoodInv

LEMMA PublishSignalFits ==
  ASSUME GatewayTypeOK, Unmarked, GoodInv, PublishSignal
  PROVE  GoodInv'
<1>1. \A s \in Signals : s = Current \/ Fits(s) => Fits(s)'
  BY PublicationFits DEF GoodInv
<1>2. stage' = AfterPublish(FALSE)
  BY PlainPublication
<1>3. Alive /\ poll.doing = "publish" /\ Advance /\ readings' = readings
  BY DEF PublishSignal
<1>4. QED
  BY <1>1, <1>2, <1>3, PublishingPrimes DEF Plain

LEMMA PublishStateFits ==
  ASSUME GatewayTypeOK, GoodInv, PublishState
  PROVE  GoodInv'
<1>1. ASSUME NEW s \in Plain, s = Current \/ Fits(s)
      PROVE  Fits(s)'
  <2>1. s # StateSignal /\ s \in Signals /\ s # Current
    BY DEF Plain, PublishState
  <2>2. \E value : node' = [node EXCEPT ![StateSignal] = value]
    BY DEF PublishState
  <2>3. lastWords' = [lastWords EXCEPT ![StateSignal] = Confirmed(StateSignal)]
    BY DEF PublishState
  <2>4. node'[s] = node[s] /\ lastWords'[s] = lastWords[s]
    BY <2>1, <2>2, <2>3 DEF GatewayTypeOK
  <2>5. QED
    BY <1>1, <2>1, <2>4 DEF Fits
<1>2. /\ Alive /\ poll.doing = "publish" /\ Advance
      /\ stage' = AfterPublish(FALSE) /\ readings' = readings
  BY DEF PublishState
<1>3. QED
  BY <1>1, <1>2, PublishingPrimes

LEMMA OthersFit ==
  ASSUME GatewayTypeOK, GoodInv,
         Push \/ Elsewhere \/ UNCHANGED gatewayVars
  PROVE  GoodInv'
<1>1. UNCHANGED <<poll, readings, node, lastWords>>
  BY DEF Push, Elsewhere, Connect, Stop, PlcGoes, PlcComes, RegisterChanges, gatewayVars
<1>2. \/ stage' = stage
      \/ stage = "connecting" /\ stage' = "priming"
      \/ stage' = "stopped"
  BY DEF Push, Elsewhere, Connect, Stop, PlcGoes, PlcComes, RegisterChanges, gatewayVars
<1>3. QED
  BY <1>1, <1>2 DEF GoodInv, HasRead, Primed, Fits

LEMMA ClientWriteFits ==
  ASSUME OneValueEach, GatewayTypeOK, Unmarked, GoodInv,
         NEW request \in Requests, ClientWrite(request)
  PROVE  GoodInv'
<1>1. UNCHANGED <<stage, poll, readings>>
  BY DEF ClientWrite
<1>2. \A s \in Signals : Fits(s) => Fits(s)'
  BY WritesFit
<1>3. HasRead'
  BY <1>1 DEF GoodInv, HasRead
<1>4. stage' = "running" => \A s \in Plain : Fits(s)'
  BY <1>1, <1>2 DEF GoodInv, Primed, Plain
<1>5. ASSUME stage' = "priming", poll'.doing = "publish",
             NEW i \in 1 .. Len(Order), i < poll'.at, Order[i] \in Plain
      PROVE  Fits(Order[i])'
  <2>1. Fits(Order[i])
    BY <1>1, <1>5 DEF GoodInv, Primed
  <2>2. PICK s \in Signals : s = Order[i]
    BY <1>5 DEF Plain
  <2>3. Fits(s)'
    BY <1>2, <2>1, <2>2
  <2>4. QED
    BY <2>2, <2>3 DEF Fits
<1>6. Primed'
  BY <1>4, <1>5 DEF Primed
<1>7. QED
  BY <1>3, <1>6 DEF GoodInv

(* server.py:40, "not stale-but-Good": of a running gateway a node is Good *)
(* exactly while its registers are confirmed, for any contract.            *)
THEOREM GoodMeansConfirmed ==
  ASSUME OneValueEach
  PROVE  GatewaySpec => []GoodIffConfirmed
<1>1. GatewayTypeOK /\ Unmarked /\ GoodInv /\ [GatewayNext]_gatewayVars => GoodInv'
  BY ClientWriteFits, ReadIsRead, PublishSignalFits, PublishStateFits, OthersFit
  DEF GatewayNext, PollStep, Elsewhere
<1>2. GoodInv => GoodIffConfirmed
  BY DEF GoodInv, Primed, Fits, GoodIffConfirmed
<1>3. GatewayInit => GoodInv
  BY GoodInit
<1>4. QED
  BY <1>1, <1>2, <1>3, NeverMarked, PTL DEF GatewaySpec

----------------------------------------------------------------------------
(* What was accepted reaches the PLC. *)

Indices == 1 .. Len(pushes)

\* The last push of signal s there is.
LastOf(i, s) ==
  /\ pushes[i].signal = s
  /\ \A j \in Indices : j > i => pushes[j].signal # s

\* The value that stands is the last one queued, or it has arrived.
StandsFor(s) ==
  accepted[s] # Unknown =>
    /\ (\A i \in Indices : pushes[i].signal # s) => reg[s] = accepted[s]
    /\ \A i \in Indices : LastOf(i, s) => pushes[i].value = accepted[s]

Standing == \A s \in Writable : StandsFor(s)

LEMMA PushesAre ==
  ASSUME GatewayTypeOK
  PROVE  /\ pushes \in Seq(Pending) /\ Len(pushes) \in Nat /\ DOMAIN pushes = Indices
         /\ \A i \in Indices : pushes[i] \in Pending
<1>1. pushes \in Seq(Pending)
  BY DEF GatewayTypeOK, Pending
<1>2. QED
  BY <1>1 DEF Indices

LEMMA PushStands ==
  ASSUME GatewayTypeOK, Standing, Push
  PROVE  Standing'
<1> DEFINE p == Head(pushes)
           n == Len(pushes)
<1>1. /\ pushes \in Seq(Pending) /\ pushes # <<>> /\ pushes' = Tail(pushes)
  BY PushesAre DEF Push
<1>2. /\ n \in Nat /\ n >= 1 /\ Len(pushes') = n - 1
      /\ p = pushes[1]
      /\ \A i \in 1 .. n - 1 : pushes'[i] = pushes[i + 1]
  BY <1>1, HeadTailProperties, EmptySeq, LenProperties
<1>3. p \in Pending
  BY <1>1, HeadTailProperties
<1>4. p.signal \in Writable /\ p.signal \in Signals
  BY <1>3, Constants DEF Pending
<1>5. \/ reg' = [reg EXCEPT ![p.signal] = p.value] /\ accepted' = accepted
      \/ reg' = reg /\ accepted' = [accepted EXCEPT ![p.signal] = Unknown]
  BY DEF Push
<1> HIDE DEF p, n
<1>6. ASSUME NEW s \in Writable, accepted'[s] # Unknown
      PROVE  /\ accepted'[s] = accepted[s] /\ s \in Signals
             /\ s # p.signal => reg'[s] = reg[s]
             /\ s = p.signal => reg'[s] = p.value
  BY <1>4, <1>5, <1>6, Constants DEF GatewayTypeOK
<1>7. ASSUME NEW s \in Writable, accepted'[s] # Unknown,
             \A i \in 1 .. n - 1 : pushes'[i].signal # s
      PROVE  reg'[s] = accepted'[s]
  <2>1. \A i \in 1 .. n : i > 1 => pushes[i].signal # s
    <3> TAKE i \in 1 .. n
    <3> HAVE i > 1
    <3>1. i - 1 \in 1 .. n - 1 /\ (i - 1) + 1 = i
      BY <1>2
    <3>2. pushes'[i - 1] = pushes[i]
      BY <1>2, <3>1
    <3>3. QED
      BY <1>7, <3>1, <3>2
  <2>2. CASE s = p.signal
    <3>1. LastOf(1, s) /\ 1 \in Indices
      BY <1>2, <2>1, <2>2 DEF LastOf, Indices, n
    <3>2. p.value = accepted[s]
      BY <1>2, <1>6, <1>7, <3>1 DEF Standing, StandsFor
    <3>3. QED
      BY <1>6, <1>7, <2>2, <3>2
  <2>3. CASE s # p.signal
    <3>1. \A i \in Indices : pushes[i].signal # s
      BY <1>2, <2>1, <2>3 DEF Indices, n
    <3>2. QED
      BY <1>6, <1>7, <2>3, <3>1 DEF Standing, StandsFor
  <2>4. QED
    BY <2>2, <2>3
<1>8. ASSUME NEW s \in Writable, accepted'[s] # Unknown, NEW i \in 1 .. n - 1,
             pushes'[i].signal = s,
             \A j \in 1 .. n - 1 : j > i => pushes'[j].signal # s
      PROVE  pushes'[i].value = accepted'[s]
  <2>1. i + 1 \in Indices /\ pushes'[i] = pushes[i + 1]
    BY <1>2 DEF Indices, n
  <2>2. \A j \in Indices : j > i + 1 => pushes[j].signal # s
    <3> TAKE j \in Indices
    <3> HAVE j > i + 1
    <3>1. j - 1 \in 1 .. n - 1 /\ (j - 1) + 1 = j /\ j - 1 > i
      BY <1>2 DEF Indices, n
    <3>2. pushes'[j - 1] = pushes[j]
      BY <1>2, <3>1
    <3>3. QED
      BY <1>8, <3>1, <3>2
  <2>3. LastOf(i + 1, s)
    BY <1>8, <2>1, <2>2 DEF LastOf
  <2>4. QED
    BY <1>6, <1>8, <2>1, <2>3 DEF Standing, StandsFor
<1>9. QED
  BY <1>2, <1>7, <1>8 DEF Standing, StandsFor, LastOf, Indices

LEMMA TakenStands ==
  ASSUME GatewayTypeOK, Standing, NEW t \in Writable, NEW v, Taken(t, v), reg' = reg
  PROVE  Standing'
<1> DEFINE n == Len(pushes)
<1>1. /\ n \in Nat /\ Len(pushes') = n + 1
      /\ pushes'[n + 1] = [signal |-> t, value |-> v]
      /\ \A i \in 1 .. n : pushes'[i] = pushes[i]
  BY PushesAre DEF Taken
<1>2. accepted' = [accepted EXCEPT ![t] = v]
  BY DEF Taken
<1> HIDE DEF n
<1>3. ASSUME NEW s \in Writable, accepted'[s] # Unknown,
             \A i \in 1 .. n + 1 : pushes'[i].signal # s
      PROVE  reg'[s] = accepted'[s]
  <2>1. s # t
    BY <1>1, <1>3
  <2>2. accepted'[s] = accepted[s]
    BY <1>2, <2>1, Constants DEF GatewayTypeOK
  <2>3. \A i \in Indices : pushes[i].signal # s
    BY <1>1, <1>3 DEF Indices, n
  <2>4. QED
    BY <1>3, <2>2, <2>3 DEF Standing, StandsFor
<1>4. ASSUME NEW s \in Writable, accepted'[s] # Unknown, NEW i \in 1 .. n + 1,
             pushes'[i].signal = s,
             \A j \in 1 .. n + 1 : j > i => pushes'[j].signal # s
      PROVE  pushes'[i].value = accepted'[s]
  <2>1. CASE s = t
    <3>1. i = n + 1
      BY <1>1, <1>4, <2>1
    <3>2. accepted'[s] = v
      BY <1>2, <2>1, Constants DEF GatewayTypeOK
    <3>3. QED
      BY <1>1, <3>1, <3>2
  <2>2. CASE s # t
    <3>1. i # n + 1 /\ i \in 1 .. n
      BY <1>1, <1>4, <2>2
    <3>2. accepted'[s] = accepted[s]
      BY <1>2, <2>2, Constants DEF GatewayTypeOK
    <3>3. LastOf(i, s) /\ i \in Indices
      BY <1>1, <1>4, <3>1 DEF LastOf, Indices, n
    <3>4. QED
      BY <1>1, <1>4, <3>1, <3>2, <3>3 DEF Standing, StandsFor
  <2>3. QED
    BY <2>1, <2>2
<1>5. QED
  BY <1>1, <1>3, <1>4 DEF Standing, StandsFor, LastOf, Indices

\* What stands for a signal goes on standing while its register stays, and so
\* does nothing.
LEMMA UndisturbedStands ==
  ASSUME GatewayTypeOK, Standing, pushes' = pushes,
         \A s \in Writable : \/ accepted'[s] = Unknown
                             \/ accepted'[s] = accepted[s] /\ reg'[s] = reg[s]
  PROVE  Standing'
  BY DEF Standing, StandsFor, LastOf, Indices

LEMMA StandingStep ==
  ASSUME OneValueEach, GatewayTypeOK, Unmarked, Standing, [GatewayNext]_gatewayVars
  PROVE  Standing'
<1>1. ASSUME NEW request \in Requests, ClientWrite(request)
      PROVE  Standing'
  <2>1. reg' = reg
    BY <1>1 DEF ClientWrite
  <2>2. CASE UNCHANGED <<node, pushes, accepted>>
    BY <2>1, <2>2, UndisturbedStands
  <2>3. CASE Taken(request[1].signal, request[1].value)
    BY <1>1, <2>1, <2>3, OneWrite, TakenStands
  <2>4. QED
    BY <1>1, <2>2, <2>3, OneWrite
<1>2. CASE PublishSignal
  <2>1. pushes' = pushes
    BY <1>2, PlainPublication
  <2>2. UNCHANGED <<reg, accepted>>
    BY <1>2 DEF PublishSignal
  <2>3. QED
    BY <2>1, <2>2, UndisturbedStands
<1>3. CASE Push
  BY <1>3, PushStands
<1>4. CASE ReadSignal \/ PublishState \/ Connect \/ Stop \/ PlcGoes \/ UNCHANGED gatewayVars
  <2>1. UNCHANGED <<reg, accepted, pushes>>
    BY <1>4 DEF ReadSignal, PublishState, Connect, Stop, PlcGoes, gatewayVars
  <2>2. QED
    BY <2>1, UndisturbedStands
<1>5. CASE PlcComes
  <2>1. /\ pushes' = pushes
        /\ \/ UNCHANGED <<reg, accepted>>
           \/ accepted' = [s \in Signals |-> Unknown]
    BY <1>5 DEF PlcComes
  <2>2. QED
    BY <2>1, Constants, UndisturbedStands
<1>6. ASSUME NEW r \in Signals, RegisterChanges(r)
      PROVE  Standing'
  <2>1. /\ pushes' = pushes /\ accepted' = [accepted EXCEPT ![r] = Unknown]
        /\ \E v : reg' = [reg EXCEPT ![r] = v]
    BY <1>6 DEF RegisterChanges
  <2>2. \A s \in Writable : \/ accepted'[s] = Unknown
                            \/ accepted'[s] = accepted[s] /\ reg'[s] = reg[s]
    BY <2>1, Constants DEF GatewayTypeOK
  <2>3. QED
    BY <2>1, <2>2, UndisturbedStands
<1>7. QED
  BY <1>1, <1>2, <1>3, <1>4, <1>5, <1>6 DEF GatewayNext, PollStep

(* Gateway._set_signal and _push: whatever other writes, outages and       *)
(* masters came between, once the last write accepted for a signal has had *)
(* its turn on the link the PLC holds it.                                  *)
THEOREM WritesReachThePlc ==
  ASSUME OneValueEach
  PROVE  GatewaySpec => []AcceptedReachesPlc
<1>1. GatewayInit => Standing
  BY Constants DEF GatewayInit, Standing, StandsFor
<1>2. GatewayTypeOK /\ Unmarked /\ Standing /\ [GatewayNext]_gatewayVars => Standing'
  BY StandingStep
<1>3. GatewayTypeOK /\ Standing => AcceptedReachesPlc
  BY PushesAre DEF Standing, StandsFor, AcceptedReachesPlc
<1>4. QED
  BY <1>1, <1>2, <1>3, NeverMarked, PTL DEF GatewaySpec
=============================================================================

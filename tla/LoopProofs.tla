----------------------------- MODULE LoopProofs -----------------------------
(***************************************************************************)
(* The PLC's loop for any number of masters, any limit, and any times of   *)
(* scans, events and stalls: the connection limit, the scan's promise to   *)
(* keep its period (module Metronome), except that it catches up, and how  *)
(* soon the scan sees what the loop has served.                            *)
(***************************************************************************)
EXTENDS PlcLoop, FiniteSetTheorems, TLAPS

----------------------------------------------------------------------------
(* Types, and where the deadline is. *)

\* The timer is only due while the scan sleeps and its deadline has come.
TimerIsDue == timer => task = "sleeping" /\ slack <= 0

\* Before a scan the deadline ends the period being scanned; after it, the
\* period that was.
DeadlineIsAhead ==
  /\ task = "running"  => slack = ahead + Period
  /\ task = "sleeping" => slack = ahead

LoopInv == LoopTypeOK /\ TimerIsDue /\ DeadlineIsAhead

LEMMA LoopInvInit == LoopInit => LoopInv
<1> SUFFICES ASSUME LoopInit PROVE LoopInv
  OBVIOUS
<1>1. timer = FALSE /\ Period \in Nat /\ MaxStalls \in Nat
  BY LoopAssumption DEF LoopInit
<1>2. LoopTypeOK
  <2>1. timer \in BOOLEAN
    BY <1>1, Zenon
  <2>2. conn \in [Masters -> Phases]
    BY DEF LoopInit, Phases
  <2>3. slack \in Int /\ slack <= Period /\ ahead \in Int /\ stalls \in 0 .. MaxStalls
    BY <1>1 DEF LoopInit
  <2> QED BY <2>1, <2>2, <2>3, Zenon DEF LoopInit, LoopTypeOK
<1>3. TimerIsDue
  BY <1>1, Zenon DEF TimerIsDue
<1>4. DeadlineIsAhead
  BY <1>1 DEF LoopInit, DeadlineIsAhead
<1> QED BY <1>2, <1>3, <1>4 DEF LoopInv

LEMMA AfterIsPhase == ASSUME NEW phase \in Phases PROVE After(phase) \in Phases
  BY DEF After, Phases, Admitted, Refused

LEMMA OlderIsAge ==
  ASSUME NEW d \in Nat, unseen \in Nat \cup {None}
  PROVE  Older(d) \in Nat \cup {None}
  BY DEF Older, None

LEMMA LoopInvStep == LoopInv /\ [LoopNext]_loopVars => LoopInv'
<1> SUFFICES ASSUME LoopInv, [LoopNext]_loopVars PROVE LoopInv'
  OBVIOUS
<1>0. /\ LoopTypeOK /\ TimerIsDue /\ DeadlineIsAhead
      /\ Period \in Nat \ {0} /\ MaxStalls \in Nat
      /\ ScanTimes \subseteq Nat /\ EventTimes \subseteq Nat /\ Stalls \subseteq Nat
  BY LoopAssumption DEF LoopInv
<1>1. ASSUME NEW d \in ScanTimes, Scan(d) PROVE LoopInv'
  BY <1>0, <1>1 DEF Scan, Sleeps, NextDeadline, LoopInv, LoopTypeOK, TimerIsDue,
     DeadlineIsAhead, None
<1>2. ASSUME NEW d \in ScanTimes, Trip(d) PROVE LoopInv'
  BY <1>0, <1>2 DEF Trip, LoopInv, LoopTypeOK, TimerIsDue, DeadlineIsAhead
<1>3. CASE Wake
  <2>1. timer /\ timer' = FALSE
    BY <1>3 DEF Wake
  <2>2. task = "sleeping" /\ slack <= 0
    BY <1>0, <2>1, Zenon DEF TimerIsDue
  <2>3. TimerIsDue'
    BY <2>1, Zenon DEF TimerIsDue
  <2>4. DeadlineIsAhead' /\ slack' \in Int /\ slack' <= Period
    BY <1>0, <1>3, <2>2 DEF Wake, NextDeadline, LoopTypeOK, DeadlineIsAhead
  <2>5. timer' \in BOOLEAN
    BY <2>1, Zenon
  <2>6. LoopTypeOK'
    BY <1>0, <1>3, <2>4, <2>5, Zenon DEF Wake, LoopTypeOK
  <2> QED BY <2>3, <2>4, <2>6 DEF LoopInv
<1>4. CASE Collect
  BY <1>0, <1>4 DEF Collect, Free, Ready, Due, LoopInv, LoopTypeOK, TimerIsDue,
     DeadlineIsAhead
<1>5. CASE Wait
  <2>1. unseen' \in Nat \cup {None}
    BY <1>0, <1>5, OlderIsAge DEF Wait, LoopTypeOK
  <2> QED BY <1>0, <1>5, <2>1 DEF Wait, Free, Passes, LoopInv, LoopTypeOK, TimerIsDue,
        DeadlineIsAhead
<1>6. ASSUME NEW m \in Masters, Handle(m) PROVE LoopInv'
  <2>1. PICK d \in EventTimes :
          /\ Passes(d)
          /\ unseen' = IF conn[m] = "asking" /\ unseen = None /\ task # "tripped"
                       THEN 0 ELSE Older(d)
    BY <1>6 DEF Handle
  <2>2. unseen' \in Nat \cup {None}
    BY <1>0, <2>1, OlderIsAge DEF LoopTypeOK
  <2>3. conn' \in [Masters -> Phases]
    <3>1. conn' = [conn EXCEPT ![m] = After(conn[m])]
      BY <1>6 DEF Handle
    <3> QED BY <1>0, <3>1, AfterIsPhase DEF LoopTypeOK
  <2> QED BY <1>0, <1>6, <2>1, <2>2, <2>3 DEF Handle, Passes, LoopInv, LoopTypeOK,
        TimerIsDue, DeadlineIsAhead
<1>7. CASE Stall
  BY <1>0, <1>7 DEF Stall, Passes, LoopInv, LoopTypeOK, TimerIsDue, DeadlineIsAhead
<1>8. ASSUME NEW m \in Masters, MasterStep(m) PROVE LoopInv'
  <2>1. conn' \in [Masters -> Phases]
    BY <1>0, <1>8 DEF MasterStep, Dial, Ask, HangUp, LoopTypeOK, Phases
  <2> QED BY <1>0, <1>8, <2>1 DEF MasterStep, LoopInv, LoopTypeOK, TimerIsDue,
        DeadlineIsAhead
<1>9. CASE UNCHANGED loopVars
  BY <1>0, <1>9 DEF loopVars, LoopInv, LoopTypeOK, TimerIsDue, DeadlineIsAhead
<1> QED BY <1>1, <1>2, <1>3, <1>4, <1>5, <1>6, <1>7, <1>8, <1>9
      DEF LoopNext, ScanTask, LoopStep

LEMMA LoopInvariant == LoopSpec => []LoopInv
  BY LoopInvInit, LoopInvStep, PTL DEF LoopSpec

\* The deadline is at most a period away, and every field keeps its kind
\* (scan.py:170-185).
THEOREM LoopTypeCorrect == LoopSpec => []LoopTypeOK
<1>1. LoopInv => LoopTypeOK
  BY DEF LoopInv
<1> QED BY <1>1, LoopInvariant, PTL

----------------------------------------------------------------------------
(* The connection limit. *)

LEMMA LetInIsFinite ==
  /\ IsFiniteSet(LetIn) /\ Cardinality(LetIn) \in Nat
  /\ IsFiniteSet(Active) /\ Cardinality(Active) \in Nat
<1>1. LetIn \subseteq Masters /\ Active \subseteq Masters
  BY DEF LetIn, Active
<1> QED BY <1>1, LoopAssumption, FS_Subset, FS_CardinalityType

\* Whoever is let in was counted, and so is everybody who still is.
LEMMA HandleKeepsLimit ==
  ASSUME LoopTypeOK, WithinLimit, NEW m \in Masters, Handle(m)
  PROVE  WithinLimit'
<1>1. conn' = [conn EXCEPT ![m] = After(conn[m])] /\ conn \in [Masters -> Phases]
  BY DEF Handle, LoopTypeOK
<1>2. MaxConnections \in Nat
  BY LoopAssumption
<1>3. CASE conn[m] = "dialling" /\ Admitted = "accepted"
  <2>1. Cardinality(Active) < MaxConnections
    BY <1>2, <1>3, LetInIsFinite DEF Admitted
  <2>2. Cardinality(LetIn) <= Cardinality(Active)
    BY LetInIsFinite, FS_Subset DEF LetIn, Active
  <2>3. LetIn' = LetIn \cup {m} /\ m \notin LetIn
    BY <1>1, <1>3 DEF LetIn, After
  <2>4. Cardinality(LetIn') = Cardinality(LetIn) + 1
    BY <2>3, LetInIsFinite, FS_AddElement
  <2> QED BY <1>2, <2>1, <2>2, <2>4, LetInIsFinite DEF WithinLimit
<1>4. CASE ~(conn[m] = "dialling" /\ Admitted = "accepted")
  <2>1. LetIn' \subseteq LetIn
    BY <1>1, <1>4 DEF LetIn, After, Admitted, Refused
  <2>2. Cardinality(LetIn') <= Cardinality(LetIn) /\ Cardinality(LetIn') \in Nat
    BY <2>1, LetInIsFinite, FS_Subset, FS_CardinalityType
  <2> QED BY <1>2, <2>2, LetInIsFinite DEF WithinLimit
<1> QED BY <1>3, <1>4

LEMMA LimitStep ==
  LoopTypeOK /\ WithinLimit /\ [LoopNext]_loopVars => WithinLimit'
<1> SUFFICES ASSUME LoopTypeOK, WithinLimit, [LoopNext]_loopVars PROVE WithinLimit'
  OBVIOUS
<1>1. ASSUME NEW m \in Masters, MasterStep(m) PROVE WithinLimit'
  <2>1. LetIn' = LetIn
    BY <1>1 DEF MasterStep, Dial, Ask, HangUp, LetIn, LoopTypeOK
  <2> QED BY <2>1 DEF WithinLimit
<1>2. ASSUME conn' = conn PROVE WithinLimit'
  BY <1>2 DEF WithinLimit, LetIn
<1> QED BY <1>1, <1>2, HandleKeepsLimit
      DEF LoopNext, ScanTask, Scan, Trip, LoopStep, Collect, Wait, Wake, Stall, loopVars

\* Never more masters than MAX_CONNECTIONS, however many come at once and in
\* whatever order their connections are made and lost (modbus_server.py:68-70).
THEOREM ConnectionsAreLimited == LoopSpec => []WithinLimit
<1>1. LoopInit => WithinLimit
  <2> SUFFICES ASSUME LoopInit PROVE WithinLimit
    OBVIOUS
  <2>1. LetIn = {}
    BY DEF LoopInit, LetIn
  <2> QED BY <2>1, FS_EmptySet, LoopAssumption DEF WithinLimit
<1> QED BY <1>1, LimitStep, LoopTypeCorrect, PTL DEF LoopSpec

----------------------------------------------------------------------------
(* The scan keeps its period. *)

\* Of whole numbers and their quotient by the period.
LEMMA Quotients ==
  ASSUME NEW x \in Int, NEW y \in Int, x <= y
  PROVE  /\ x \div Period \in Int /\ y \div Period \in Int
         /\ x \div Period <= y \div Period
         /\ (x - Period) \div Period = x \div Period - 1
         /\ x >= 0 => x \div Period >= 0
<1>1. Period \in Nat /\ Period > 0
  BY LoopAssumption
<1> QED BY <1>1

LEMMA StepsOfTheClock ==
  LoopInv /\ [LoopNext]_loopVars => [Clock!MetronomeNext]_(Clock!metronomeVars)
<1> DEFINE Stays == PeriodsOwed' = PeriodsOwed /\ (task = "tripped")' = (task = "tripped")
           Begin == /\ task # "tripped" /\ PeriodsOwed' >= PeriodsOwed
                    /\ (task = "tripped")' = (task = "tripped")
<1> SUFFICES ASSUME LoopInv, [LoopNext]_loopVars
             PROVE  Clock!MetronomeNext \/ Stays
  BY DEF Clock!metronomeVars
<1>0. /\ ahead \in Int /\ Period \in Nat \ {0} /\ slack \in Int /\ slack <= Period
      /\ ScanTimes \subseteq Nat /\ EventTimes \subseteq Nat /\ Stalls \subseteq Nat
      /\ task = "running" => slack = ahead + Period
  BY LoopAssumption DEF LoopInv, LoopTypeOK, DeadlineIsAhead
<1>1. ASSUME task = "running" PROVE PeriodsOwed > 0
  <2>1. -ahead >= 0
    BY <1>0, <1>1
  <2> QED BY <1>0, <2>1, Quotients DEF PeriodsOwed
<1>2. ASSUME NEW d \in Nat, Passes(d), task' = task PROVE Stays \/ Begin
  <2>1. CASE task = "tripped"
    BY <1>2, <2>1 DEF Passes, PeriodsOwed
  <2>2. CASE task # "tripped"
    <3>1. ahead' = ahead - d
      BY <1>2, <2>2 DEF Passes
    <3>2. -ahead <= -ahead' /\ -ahead' \in Int
      BY <1>0, <3>1
    <3>3. PeriodsOwed <= PeriodsOwed'
      <4> DEFINE x == -ahead
                 y == -ahead'
      <4>1. x \in Int /\ y \in Int /\ x <= y
        BY <1>0, <3>2
      <4> HIDE DEF x, y
      <4>2. x \div Period \in Int /\ y \div Period \in Int /\ x \div Period <= y \div Period
        BY <4>1, Quotients
      <4> QED BY <4>2 DEF x, y, PeriodsOwed
    <3> QED BY <1>2, <2>2, <3>3
  <2> QED BY <2>1, <2>2
<1>3. ASSUME Begin, PeriodsOwed \in Int, PeriodsOwed' \in Int
      PROVE  Clock!MetronomeNext \/ Stays
  BY <1>3 DEF Clock!MetronomeNext, Clock!PeriodsBegin
<1>4. ASSUME NEW d \in ScanTimes, Scan(d) PROVE Clock!MetronomeNext
  <2>1. ahead' = ahead + Period - d /\ d \in Nat
    BY <1>0, <1>4 DEF Scan
  <2> DEFINE y == -ahead + d
  <2>2. y \in Int /\ -ahead \in Int /\ -ahead <= y /\ -ahead' = y - Period
    BY <1>0, <2>1
  <2> HIDE DEF y
  <2>3. PeriodsOwed' >= PeriodsOwed - 1
    <3>1. y \div Period >= (-ahead) \div Period
      BY <2>2, Quotients
    <3>2. (y - Period) \div Period = y \div Period - 1
      BY <2>2, Quotients
    <3>3. y \div Period \in Int /\ (-ahead) \div Period \in Int
      BY <2>2, Quotients
    <3>4. PeriodsOwed' = 1 + ((y - Period) \div Period)
      BY <2>2 DEF PeriodsOwed
    <3> QED BY <3>1, <3>2, <3>3, <3>4 DEF PeriodsOwed
  <2>4. task = "running" /\ task' # "tripped"
    BY <1>4 DEF Scan
  <2> QED BY <1>1, <2>3, <2>4 DEF Clock!MetronomeNext, Clock!Beat
<1>5. ASSUME NEW d \in ScanTimes, Trip(d) PROVE Clock!MetronomeNext
  <2>1. task = "running" /\ task' = "tripped" /\ PeriodsOwed' = PeriodsOwed
    BY <1>5 DEF Trip, PeriodsOwed
  <2> QED BY <1>1, <2>1 DEF Clock!MetronomeNext, Clock!Stop
<1>6. ASSUME ahead' = ahead, (task = "tripped")' = (task = "tripped") PROVE Stays
  BY <1>6 DEF PeriodsOwed
<1>7. CASE Wake
  BY <1>6, <1>7 DEF Wake, LoopInv, TimerIsDue
<1>8. CASE Collect \/ UNCHANGED loopVars \/ \E m \in Masters : MasterStep(m)
  BY <1>6, <1>8 DEF Collect, loopVars, MasterStep
<1>9. ASSUME NEW d \in Nat, Passes(d), task' = task
      PROVE  Clock!MetronomeNext \/ Stays
  <2>1. ahead' \in Int /\ -ahead \in Int
    BY <1>0, <1>9 DEF Passes
  <2>2. -ahead' \in Int
    BY <2>1
  <2>3. PeriodsOwed \in Int /\ PeriodsOwed' \in Int
    BY <2>1, <2>2, Quotients DEF PeriodsOwed
  <2> QED BY <1>2, <1>3, <1>9, <2>3
<1>10. CASE Wait
  BY <1>9, <1>10 DEF Wait
<1>11. ASSUME NEW m \in Masters, Handle(m) PROVE Clock!MetronomeNext \/ Stays
  BY <1>0, <1>9, <1>11 DEF Handle
<1>12. CASE Stall
  BY <1>0, <1>9, <1>12 DEF Stall
<1> HIDE DEF Stays
<1> QED BY <1>4, <1>5, <1>7, <1>8, <1>10, <1>11, <1>12 DEF LoopNext, ScanTask, LoopStep

\* One scan for each period begun, none early and none left out, at any load
\* (scan.py:182-185).  That late scans are made up is not part of it.
THEOREM ScansArePeriodic ==
  LoopSpec => Clock!MetronomeInit /\ [][Clock!MetronomeNext]_(Clock!metronomeVars)
<1>1. LoopInit => Clock!MetronomeInit
  <2>1. (-0) \div Period = 0
    BY LoopAssumption
  <2> QED BY <2>1 DEF LoopInit, Clock!MetronomeInit, PeriodsOwed
<1> QED BY <1>1, LoopInvariant, StepsOfTheClock, PTL DEF LoopSpec

----------------------------------------------------------------------------
(* A served request is soon seen.  While the deadline is ahead, a request  *)
(* has waited no longer than the part of the period that has gone by.      *)
(* From then on only connections can delay the scan: those left of the     *)
(* iteration in which the deadline passed, and those of the one that has   *)
(* found the timer due.                                                    *)

\* The events of n connections.
Busy(n) == n * Longest

Everybody == Cardinality(Masters)
Handled   == Everybody - Cardinality(batch)

Waited ==
  unseen # None =>
    /\ task = "sleeping" /\ slack > 0 => unseen + slack <= Period
    /\ task = "sleeping" /\ slack <= 0 /\ ~timer => unseen <= Period + Busy(Handled)
    /\ task = "sleeping" /\ timer => unseen <= Period + Busy(Everybody) + Busy(Handled)
    /\ unseen <= Period + Busy(Everybody) + Busy(Everybody)

LEMMA BatchIsFinite ==
  ASSUME LoopTypeOK
  PROVE  /\ Everybody \in Nat /\ Cardinality(batch) \in Nat
         /\ Cardinality(batch) <= Everybody
         /\ Handled \in 0 .. Everybody
<1>1. IsFiniteSet(Masters) /\ batch \in SUBSET Masters
  BY LoopAssumption DEF LoopTypeOK
<1>2. IsFiniteSet(batch) /\ Cardinality(batch) <= Cardinality(Masters)
  BY <1>1, FS_Subset
<1>3. QED
  BY <1>1, <1>2, FS_CardinalityType DEF Everybody, Handled

LEMMA Events ==
  ASSUME Longest \in Nat, NEW n \in Nat, NEW k \in 0 .. n
  PROVE  /\ Busy(k) \in Nat /\ Busy(n) \in Nat
         /\ Busy(k) <= Busy(n)
         /\ Busy(k + 1) = Busy(k) + Longest
  BY DEF Busy

\* One connection is handled, before the timer's turn.
LEMMA WaitTypes ==
  ASSUME LoopInv
  PROVE  /\ Period \in Nat /\ slack \in Int /\ slack <= Period
         /\ unseen \in Nat \/ unseen = None
         /\ None = -1
         /\ timer => task = "sleeping" /\ slack <= 0
         /\ task \in {"running", "sleeping", "tripped"}
  BY LoopAssumption DEF LoopInv, LoopTypeOK, TimerIsDue, None

\* The longest of a connection's events, if there is one.
LongestEvent == Longest \in Nat /\ \A d \in EventTimes : d \in Nat /\ d <= Longest

LEMMA WaitedIsSoon ==
  ASSUME LoopInv, LongestEvent, Waited
  PROVE  SeenSoon
<1>1. /\ Everybody \in Nat /\ Handled \in 0 .. Everybody
      /\ Busy(Handled) <= Busy(Everybody) /\ Busy(Everybody) \in Nat /\ Busy(Handled) \in Nat
  BY BatchIsFinite, Events DEF LoopInv, LongestEvent
<1>2. 2 * Cardinality(Masters) * Longest = Busy(Everybody) + Busy(Everybody)
  BY <1>1 DEF LongestEvent, Busy, Everybody
<1>3. unseen <= Period + Busy(Everybody) + Busy(Everybody)
  BY <1>1, WaitTypes DEF Waited
<1>4. QED
  BY <1>1, <1>2, <1>3, WaitTypes DEF SeenSoon

\* One connection is handled, before the timer's turn.
LEMMA HandleWaits ==
  ASSUME LoopInv, Waited, LongestEvent, NEW m \in Masters, Handle(m)
  PROVE  Waited'
<1>1. /\ Everybody \in Nat /\ Handled \in 0 .. Everybody
      /\ Handled' = Handled + 1 /\ Handled' \in 0 .. Everybody
  <2>1. IsFiniteSet(batch) /\ m \in batch /\ batch' = batch \ {m}
    BY LoopAssumption, FS_Subset DEF Handle, LoopInv, LoopTypeOK
  <2>2. Cardinality(batch') = Cardinality(batch) - 1 /\ Cardinality(batch') \in Nat
    BY <2>1, FS_RemoveElement, FS_CardinalityType
  <2>3. QED
    BY <2>2, BatchIsFinite DEF Handled, LoopInv
<1>2. /\ Busy(Handled) \in Nat /\ Busy(Everybody) \in Nat
      /\ Busy(Handled)' = Busy(Handled) + Longest
  BY <1>1 DEF LongestEvent, Busy
<1>3. PICK d \in EventTimes :
        /\ Passes(d)
        /\ unseen' = IF conn[m] = "asking" /\ unseen = None /\ task # "tripped"
                     THEN 0 ELSE Older(d)
  BY DEF Handle
<1>4. d \in Nat /\ d <= Longest /\ Longest \in Nat /\ task' = task /\ task # "running"
  BY DEF Handle, LongestEvent
<1>5. timer' = timer
  BY DEF Handle
<1>6. Busy(Everybody)' = Busy(Everybody)
  BY DEF Busy, Everybody
<1>7. CASE task = "tripped"
  <2>1. unseen' = unseen
    BY <1>3, <1>7 DEF Older
  <2>2. QED
    BY <1>4, <1>7, <2>1 DEF Waited, Everybody
<1>8. CASE task = "sleeping"
  <2>1. slack' = slack - d
    BY <1>3, <1>8 DEF Passes
  <2>2. unseen' = 0 \/ unseen' = None \/ (unseen' = unseen + d /\ unseen # None)
    BY <1>3, <1>8 DEF Older
  <2>3. CASE slack' > 0
    <3>1. unseen' # None => unseen' + slack' <= Period
      BY <1>4, <1>8, <2>1, <2>2, <2>3, WaitTypes DEF Waited
    <3>2. unseen' # None => unseen' <= Period + Busy(Everybody) + Busy(Everybody)
      BY <1>2, <1>4, <2>1, <2>3, <3>1, <2>2, WaitTypes
    <3>3. ~timer'
      BY <1>4, <1>5, <2>1, <2>3, WaitTypes
    <3>4. QED
      BY <1>4, <1>5, <1>6, <2>1, <2>3, <3>1, <3>2, <3>3, WaitTypes DEF Waited
  <2>4. CASE slack' <= 0
    <3>1. unseen' # None =>
            /\ ~timer => unseen' <= Period + Busy(Handled) + Longest
            /\ timer  => unseen' <= Period + Busy(Everybody) + Busy(Handled) + Longest
      BY <1>2, <1>4, <1>8, <2>1, <2>2, WaitTypes DEF Waited
    <3>2. timer' <=> timer
      BY <1>5
    <3>3. Busy(Handled)' <= Busy(Everybody)
      BY <1>1, Events DEF LongestEvent, Busy
    <3>4. unseen' # None => unseen' <= Period + Busy(Everybody) + Busy(Everybody)
      <4>1. unseen' # None => unseen' \in Int
        BY <1>4, <2>2, WaitTypes
      <4>2. Busy(Handled) + Longest <= Busy(Everybody)
        BY <1>2, <3>3
      <4>3. unseen' # None => unseen' <= Period + Busy(Everybody) + Busy(Handled) + Longest
        BY <1>2, <1>4, <3>1, <4>1, WaitTypes
      <4>4. QED
        BY <1>2, <1>4, <4>1, <4>2, <4>3, WaitTypes
    <3>5. slack' \in Int
      BY <1>4, <2>1, WaitTypes
    <3>6. unseen' # None =>
            /\ ~timer' => unseen' <= Period + Busy(Handled)'
            /\ timer'  => unseen' <= Period + Busy(Everybody) + Busy(Handled)'
      BY <1>2, <1>4, <3>1, <3>2, WaitTypes
    <3>7. QED
      BY <1>6, <2>4, <3>4, <3>5, <3>6 DEF Waited
  <2>5. QED
    BY <1>4, <2>1, <2>3, <2>4, WaitTypes
<1>9. QED
  BY <1>4, <1>7, <1>8, WaitTypes

LEMMA WaitedStep ==
  ASSUME LoopInv, Waited, LongestEvent, [LoopNext]_loopVars
  PROVE  Waited'
<1>1. /\ Everybody \in Nat /\ Handled \in 0 .. Everybody
      /\ Busy(Handled) <= Busy(Everybody) /\ Busy(Everybody) \in Nat /\ Busy(Handled) \in Nat
  BY BatchIsFinite, Events DEF LoopInv, LongestEvent
<1>2. CASE ScanTask
  BY <1>2 DEF ScanTask, Scan, Trip, Waited, Everybody, None
<1>3. CASE Wake
  BY <1>1, <1>3, WaitTypes DEF Wake, Waited, Everybody
<1>4. CASE Collect
  <2>1. Handled' \in Nat
    <3>1. batch' \in SUBSET Masters
      BY <1>4 DEF Collect, Ready
    <3>2. Cardinality(batch') <= Everybody /\ Cardinality(batch') \in Nat
      BY <3>1, LoopAssumption, FS_Subset, FS_CardinalityType DEF Everybody
    <3>3. QED
      BY <1>1, <3>2 DEF Handled
  <2>2. Busy(Handled)' \in Nat
    <3>1. \A n \in Nat : n * Longest \in Nat
      BY DEF LongestEvent
    <3>2. QED
      BY <2>1, <3>1 DEF Busy
  <2>3. QED
    <3>1. /\ task # "running" /\ batch = {} /\ ~timer
          /\ timer' <=> task = "sleeping" /\ slack <= 0
          /\ UNCHANGED <<task, slack, unseen>>
      BY <1>4 DEF Collect, Free, Due
    <3>2. Busy(Everybody)' = Busy(Everybody)
      BY DEF Busy, Everybody
    <3>3. QED
      BY <1>1, <2>2, <3>1, <3>2, WaitTypes DEF Waited
<1>5. CASE Wait
  <2>1. /\ task = "sleeping" /\ slack > 0 /\ slack' = slack - 1 /\ ~timer'
        /\ unseen' = (IF unseen = None THEN None ELSE unseen + 1)
        /\ UNCHANGED <<task, batch>>
    BY <1>5 DEF Wait, Passes, Older, Free
  <2>2. Busy(Handled)' = Busy(Handled)
    BY <2>1 DEF Busy, Handled, Everybody
  <2>3. QED
    BY <1>1, <2>1, <2>2, WaitTypes DEF Waited
<1>6. CASE Stall
  <2>1. PICK d \in Stalls : Passes(d)
    BY <1>6 DEF Stall
  <2>2. d \in Nat /\ slack' = slack - d
    BY <1>6, <2>1, LoopAssumption DEF Stall, Passes
  <2>3. UNCHANGED <<task, batch, timer, unseen>>
    BY <1>6 DEF Stall
  <2>4. Busy(Handled)' = Busy(Handled)
    BY <2>3 DEF Busy, Handled, Everybody
  <2>5. QED
    BY <1>1, <2>2, <2>3, <2>4, WaitTypes DEF Waited, Everybody
<1>7. CASE UNCHANGED loopVars \/ \E m \in Masters : MasterStep(m)
  BY <1>7 DEF loopVars, MasterStep, Waited, Handled, Everybody, Busy
<1>8. QED
  BY <1>2, <1>3, <1>4, <1>5, <1>6, <1>7, HandleWaits DEF LoopNext, LoopStep

(* A request the loop has served is seen by a living scan within a period  *)
(* and two rounds of the masters' events (scan.py, Plc.run): any number of *)
(* masters, any time their events take as long as there is a longest, and  *)
(* whatever they ask for meanwhile.                                        *)
THEOREM RequestsAreSeen ==
  ASSUME NEW l \in EventTimes, \A d \in EventTimes : d <= l
  PROVE  LoopSpec => []SeenSoon
<1>1. LongestEvent
  <2>1. Longest \in EventTimes /\ \A d \in EventTimes : d <= Longest
    BY DEF Longest
  <2>2. QED
    BY <2>1, LoopAssumption DEF LongestEvent
<1>2. LoopInit => Waited
  BY DEF LoopInit, Waited
<1>3. LoopInv /\ Waited /\ [LoopNext]_loopVars => Waited'
  BY <1>1, WaitedStep
<1>4. LoopInv /\ Waited => SeenSoon
  BY <1>1, WaitedIsSoon
<1>5. QED
  BY LoopInvariant, <1>2, <1>3, <1>4, PTL DEF LoopSpec
=============================================================================

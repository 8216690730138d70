------------------------------ MODULE PlcLoop ------------------------------
(***************************************************************************)
(* The PLC process as one asyncio loop (src/src/plc/__main__.py): the scan *)
(* task with its deadlines (scan.py, Plc.run) and the masters' connections *)
(* (modbus_server.py), which share one thread.  Module Plc has what a scan *)
(* does; here is when it runs, and what waits meanwhile.                   *)
(*                                                                         *)
(* An iteration of the loop collects the connections that have something   *)
(* for it and the timer if it is due, and runs them, the timer last.  Only *)
(* a sleep gives the loop back to them: scans that are behind follow one   *)
(* another without one.  Time is counted in fractions of a scan period and *)
(* relative to the next deadline, so that a behaviour has no last moment.  *)
(***************************************************************************)
EXTENDS Integers, FiniteSets

CONSTANTS
  Masters,         \* Modbus clients that may connect
  Persistent,      \* those that dial again whenever they are out
  MaxConnections,  \* MAX_CONNECTIONS
  Period,          \* meta.scan_period_ms
  ScanTimes,       \* how long a scan may take
  EventTimes,      \* how long the loop may be busy with a connection's event
  Stalls,          \* how long the whole process may be held up by the machine
  MaxStalls        \* bound: such stalls

VARIABLES
  task,      \* Plc.run: running, sleeping or tripped
  slack,     \* next_deadline - now
  ahead,     \* history: the time scanned so far less the time passed
  batch,     \* connections still to be handled in this iteration of the loop
  timer,     \* the sleep's timer is due in this iteration
  conn,      \* each master's connection
  unseen,    \* history: loop time since a request the scan has not yet seen
  stalls

loopVars == <<task, slack, ahead, batch, timer, conn, unseen, stalls>>

\* A scan as long as the period would neither trip the watchdog nor catch up.
ASSUME LoopAssumption ==
  /\ Persistent \subseteq Masters /\ IsFiniteSet(Masters)
  /\ MaxConnections \in Nat /\ Period \in Nat \ {0}
  /\ ScanTimes \subseteq Nat \ {Period}
  /\ EventTimes \subseteq Nat /\ Stalls \subseteq Nat /\ MaxStalls \in Nat

Phases == {"out", "dialling", "accepted", "rejected", "open", "asking", "leaving"}
None   == -1

LoopInit ==
  /\ task = "running" /\ slack = Period /\ ahead = 0
  /\ batch = {} /\ timer = FALSE
  /\ conn = [m \in Masters |-> "out"]
  /\ unseen = None /\ stalls = 0

\* Nothing that is waited for counts time once the scan has stopped.
Passes(d) ==
  IF task = "tripped" THEN UNCHANGED <<slack, ahead>>
  ELSE slack' = slack - d /\ ahead' = ahead - d

Older(d) == IF unseen = None \/ task = "tripped" THEN unseen ELSE unseen + d

----------------------------------------------------------------------------
(* Plc.run *)

\* A defect the runs must catch: the next deadline is a period from now.
BugNextDeadline(left) == Period

\* next_deadline += dt, relative to now
NextDeadline(left) == left + Period

\* A defect the runs must catch: the difference is taken the other way round.
BugSleeps(left) == left < 0

Sleeps(left) == left > 0

Scan(d) ==
  /\ task = "running"
  /\ d <= Period
  /\ ahead' = ahead + Period - d
  /\ IF Sleeps(slack - d)
     THEN task' = "sleeping" /\ slack' = slack - d
     ELSE task' = "running" /\ slack' = NextDeadline(slack - d)
  /\ unseen' = None
  /\ UNCHANGED <<batch, timer, conn, stalls>>

\* The watchdog: the scan itself took longer than the period.
Trip(d) ==
  /\ task = "running"
  /\ d > Period
  /\ task' = "tripped"
  /\ UNCHANGED <<slack, ahead, batch, timer, conn, unseen, stalls>>

ScanTask == \E d \in ScanTimes : Scan(d) \/ Trip(d)

\* asyncio.sleep() is over, in its turn.
Wake ==
  /\ timer /\ batch = {}
  /\ timer' = FALSE
  /\ task' = "running"
  /\ slack' = NextDeadline(slack)
  /\ UNCHANGED <<ahead, batch, conn, unseen, stalls>>

----------------------------------------------------------------------------
(* The loop. *)

Free  == task # "running" /\ batch = {} /\ ~timer
Ready == {m \in Masters : conn[m] \in Phases \ {"out", "open"}}

\* A defect the runs must catch: the sleep ends when there is nothing else to do.
BugDue == task = "sleeping" /\ slack <= 0 /\ Ready = {}

Due == task = "sleeping" /\ slack <= 0

Collect ==
  /\ Free
  /\ Ready # {} \/ Due
  /\ batch' = Ready
  /\ timer' = Due
  /\ UNCHANGED <<task, slack, ahead, conn, unseen, stalls>>

\* select() waits.
Wait ==
  /\ Free
  /\ Ready = {} /\ task = "sleeping" /\ slack > 0
  /\ Passes(1)
  /\ unseen' = Older(1)
  /\ UNCHANGED <<task, batch, timer, conn, stalls>>

\* A defect the runs must catch: a connection counts from its first request on.
BugActive == {m \in Masters : conn[m] \in {"open", "asking", "leaving"}}

\* pymodbus's active_connections: entered as soon as the factory has returned.
Active == {m \in Masters : conn[m] \notin {"out", "dialling"}}

\* callback_new_connection
Admitted == IF Cardinality(Active) >= MaxConnections THEN "rejected" ELSE "accepted"

\* A defect the runs must catch: the refused connection is left open.
BugRefused == "rejected"

\* _RejectedHandler.callback_connected closes it, and with that it is forgotten.
Refused == "out"

After(phase) ==
  CASE phase = "dialling" -> Admitted
    [] phase = "accepted" -> "open"
    [] phase = "rejected" -> Refused
    [] phase = "asking"   -> "open"
    [] OTHER              -> "out"

Handle(m) ==
  /\ task # "running"
  /\ m \in batch
  /\ batch' = batch \ {m}
  /\ \E d \in EventTimes :
       /\ Passes(d)
       /\ unseen' = IF conn[m] = "asking" /\ unseen = None /\ task # "tripped"
                    THEN 0 ELSE Older(d)
  /\ conn' = [conn EXCEPT ![m] = After(conn[m])]
  /\ UNCHANGED <<task, timer, stalls>>

LoopStep == Collect \/ Wait \/ Wake \/ \E m \in Masters : Handle(m)

----------------------------------------------------------------------------
(* The masters and the machine the process runs on. *)

Dial(m) == conn[m] = "out" /\ conn' = [conn EXCEPT ![m] = "dialling"]
Ask(m)  == conn[m] = "open" /\ conn' = [conn EXCEPT ![m] = "asking"]

HangUp(m) ==
  /\ m \notin Persistent
  /\ conn[m] \in {"open", "asking"}
  /\ conn' = [conn EXCEPT ![m] = "leaving"]

MasterStep(m) ==
  /\ Dial(m) \/ Ask(m) \/ HangUp(m)
  /\ UNCHANGED <<task, slack, ahead, batch, timer, unseen, stalls>>

Stall ==
  /\ task # "tripped"
  /\ stalls < MaxStalls
  /\ stalls' = stalls + 1
  /\ \E d \in Stalls : Passes(d)
  /\ UNCHANGED <<task, batch, timer, conn, unseen>>

LoopNext == ScanTask \/ LoopStep \/ Stall \/ \E m \in Masters : MasterStep(m)

\* The thread runs whatever is ready; a persistent master redials (pymodbus's
\* reconnection).  Nothing is assumed of what masters ask, or of the others.
LoopSpec ==
  /\ LoopInit /\ [][LoopNext]_loopVars
  /\ WF_loopVars(ScanTask) /\ WF_loopVars(LoopStep)
  /\ \A m \in Persistent : WF_loopVars(MasterStep(m) /\ Dial(m))

----------------------------------------------------------------------------
(* Properties. *)

\* Among them: the deadline is never more than a period away.
LoopTypeOK ==
  /\ task \in {"running", "sleeping", "tripped"}
  /\ slack \in Int /\ slack <= Period /\ ahead \in Int
  /\ batch \subseteq Masters /\ timer \in BOOLEAN
  /\ conn \in [Masters -> Phases]
  /\ unseen \in Nat \cup {None}
  /\ stalls \in 0 .. MaxStalls

(* modbus_server.py:82-85 and 101-107: never more than MAX_CONNECTIONS     *)
(* masters are let in, however many arrive before the first of them is     *)
(* established.                                                            *)
LetIn == {m \in Masters : conn[m] \in {"accepted", "open", "asking", "leaving"}}

WithinLimit == Cardinality(LetIn) <= MaxConnections

(* test_scan.py, test_scan_is_periodic, under any load and lateness: one   *)
(* scan for each period begun, never an early one, and late ones made up.  *)
PeriodsOwed == 1 + ((-ahead) \div Period)

Clock == INSTANCE Metronome WITH owed <- PeriodsOwed, stopped <- (task = "tripped")

KeepsThePeriod == Clock!MetronomeSpec

(* A request the loop has served is seen by a living scan within a period  *)
(* and two rounds of the other masters' events.  The time is the loop's:   *)
(* a stall of the whole process comes on top of it.  (For a process that   *)
(* is not stalled, this is what Handshake's CaughtUp takes for granted of  *)
(* a timeout that is a hundred periods long.)                              *)
Longest == CHOOSE d \in EventTimes : \A e \in EventTimes : e <= d

SeenSoon == unseen <= Period + 2 * Cardinality(Masters) * Longest

(* A master that keeps dialling gets in once there is room and no rush: no *)
(* refused connection takes up a place for ever.                           *)
RoomFor(m) ==
  /\ Cardinality(LetIn \ {m}) < MaxConnections
  /\ \A k \in Masters \ {m} : conn[k] # "dialling"

GetsIn == \A m \in Persistent : <>[]RoomFor(m) => <>(m \in LetIn)
=============================================================================

----------------------------- MODULE Controller -----------------------------
(***************************************************************************)
(* DeviceController (src/src/client/controller.py): its session with the   *)
(* gateway, the subscription values arrive by, the task that brings both   *)
(* back, and the deadband between a notification and the caller's sink.    *)
(*                                                                         *)
(* Two flows of control share one loop and one asyncua Client: the         *)
(* caller's (connect, watch, disconnect) and _reconnect's.  An action is   *)
(* what runs between two awaits; a request on a session that is lost has   *)
(* raised, long before the second a reconnection waits is over.            *)
(***************************************************************************)
EXTENDS Integers, Sequences, SequencesExt

CONSTANTS
  Order,        \* the contract's signals, in its order
  Analogue,     \* those of a type the deadband applies to
  Values,       \* what each signal's node may show
  Deadband,
  Indices,      \* namespace indices a gateway may give the plant
  MaxChanges,   \* bound: changes of the served nodes
  MaxOutages    \* bound: losses of the connection

VARIABLES
  server,       \* the gateway: is it up, its namespace index, what its nodes show
  session,      \* asyncua's: none, open or lost
  told,         \* connection_lost_callback has been called for this session
  nodes,        \* the index behind _nodes
  at,           \* where the caller and the _reconnecting task are
  sink,         \* _sink has been given
  closing,      \* _closing
  reported,     \* _reported
  live,         \* subscriptions the session has, the server watching their items
  wire,         \* notifications under way
  heard, shown, \* history: last received, last passed to the sink
  changes, outages

controllerVars == <<server, session, told, nodes, at, sink, closing, reported,
                    live, wire, heard, shown, changes, outages>>

Signals  == ToSet(Order)
Null     == -1                \* Python's None, of a value
Good(v)  == [status |-> "Good", value |-> v]
Bad      == [status |-> "Bad", value |-> Null]
Nothing  == [status |-> "none", value |-> Null]
Readings(s) == {Good(v) : v \in Values[s]} \cup {Bad}
AllReadings == UNION {Readings(s) : s \in Signals}
Latest   == [Signals -> AllReadings \cup {Nothing}]
Blank    == [s \in Signals |-> Nothing]

ASSUME ControllerAssumption ==
  /\ Order \in Seq(Signals) /\ Analogue \subseteq Signals
  /\ \A s \in Signals : Values[s] \subseteq Nat
  /\ Deadband \in Nat \ {0}
  /\ Indices \subseteq Nat \ {0}
  /\ MaxChanges \in Nat /\ MaxOutages \in Nat

Idle == {"none", "done"}      \* no task, or a finished one

ControllerInit ==
  /\ server \in [up : BOOLEAN, idx : Indices, shows : {[s \in Signals |-> Bad]}]
  /\ session = "none" /\ told = FALSE
  /\ nodes = 0
  /\ at = [caller |-> "idle", task |-> "none"]
  /\ sink = FALSE /\ closing = FALSE
  /\ reported = Blank
  /\ live = 0 /\ wire = <<>>
  /\ heard = Blank /\ shown = Blank
  /\ changes = 0 /\ outages = 0

----------------------------------------------------------------------------
(* report(): is this update news? *)

Distance(a, b) == IF a < b THEN b - a ELSE a - b

\* Two readings the deadband does not tell apart.
Noise(s, last, reading) ==
  /\ s \in Analogue
  /\ last.status = "Good" /\ reading.status = "Good"
  /\ Distance(last.value, reading.value) < Deadband

\* A defect the runs must catch: the deadband is measured from the last value received.
BugRemembered(s, reading) == [reported EXCEPT ![s] = reading]

Remembered(s, reading) ==
  IF Noise(s, reported[s], reading) THEN reported
  ELSE [reported EXCEPT ![s] = reading]

\* _ChangeHandler.datachange_notification
Deliver ==
  /\ wire # <<>>
  /\ wire' = Tail(wire)
  /\ LET n == Head(wire)
     IN  /\ heard' = [heard EXCEPT ![n.signal] = n.reading]
         /\ shown' = IF Noise(n.signal, reported[n.signal], n.reading) THEN shown
                     ELSE [shown EXCEPT ![n.signal] = n.reading]
         /\ reported' = Remembered(n.signal, n.reading)
  /\ UNCHANGED <<server, session, told, nodes, at, sink, closing, live,
                 changes, outages>>

----------------------------------------------------------------------------
(* connect(), watch(): the steps both flows take, and where each goes from *)
(* there when they succeed or raise.                                       *)

Goes(who, place) == at' = [at EXCEPT ![who] = place]

\* client.connect()
OpensSession(who, done, raised) ==
  /\ IF server.up
     THEN session' = "open" /\ told' = FALSE /\ Goes(who, done)
     ELSE UNCHANGED <<session, told>> /\ Goes(who, raised)
  /\ UNCHANGED <<server, nodes, sink, closing, reported, live, wire, heard, shown,
                 changes, outages>>

\* A defect the runs must catch: what the last subscription reported is kept.
BugForgotten == reported

Forgotten == Blank

\* What a new subscription sends first: every item's reading.
FirstOnes ==
  [i \in DOMAIN Order |->
     [signal |-> Order[i], reading |-> server.shows[Order[i]], first |-> TRUE]]

\* create_subscription, subscribe_data_change.  Nodes resolved under another
\* namespace index are nodes the server does not have.
Subscribes(who, done, raised) ==
  /\ IF session # "open" THEN Goes(who, raised) /\ UNCHANGED <<live, wire>>
     ELSE IF nodes # server.idx THEN Goes(who, done) /\ UNCHANGED <<live, wire>>
     ELSE Goes(who, done) /\ live' = live + 1 /\ wire' = wire \o FirstOnes
  /\ UNCHANGED <<server, session, told, nodes, sink, closing, reported, heard,
                 shown, changes, outages>>

----------------------------------------------------------------------------
(* The caller. *)

CallerConnects == at.caller = "idle" /\ OpensSession("caller", "resolving", "failed")

\* A defect the runs must catch: a node once found is not looked for again.
BugResolved == IF nodes = 0 THEN server.idx ELSE nodes

\* _resolve(): every node anew, by its path from Objects down.
Resolved == server.idx

CallerResolves ==
  /\ at.caller = "resolving"
  /\ IF session = "open" THEN nodes' = Resolved /\ Goes("caller", "connected")
     ELSE UNCHANGED nodes /\ Goes("caller", "failed")
  /\ UNCHANGED <<server, session, told, sink, closing, reported, live, wire, heard,
                 shown, changes, outages>>

\* watch() up to its first await; without a session that await raises.
CallerWatches ==
  /\ at.caller = "connected"
  /\ sink' = TRUE
  /\ reported' = Forgotten
  /\ Goes("caller", IF session = "open" THEN "subscribing" ELSE "failed")
  /\ UNCHANGED <<server, session, told, nodes, closing, live, wire, heard, shown,
                 changes, outages>>

CallerSubscribes ==
  at.caller = "subscribing" /\ Subscribes("caller", "watching", "failed")

\* A defect the runs must catch: disconnect() leaves the task running.
BugCancelled(task) == task

\* A cancelled task never gets past the await it is in.
Cancelled(task) == IF task \in Idle THEN task ELSE "done"

CallerDisconnects ==
  /\ at.caller \in {"connected", "watching", "failed"}
  /\ closing' = TRUE
  /\ at' = [caller |-> "closing", task |-> Cancelled(at.task)]
  /\ UNCHANGED <<server, session, told, nodes, sink, reported, live, wire, heard,
                 shown, changes, outages>>

\* A defect the runs must catch: subscriptions outlive their session.
BugTornDown == session' = "none" /\ told' = FALSE /\ live' = live /\ wire' = <<>>

\* _quiet_disconnect: whatever the session was, it is gone with all it carried.
TornDown == session' = "none" /\ told' = FALSE /\ live' = 0 /\ wire' = <<>>

DisconnectReturns ==
  /\ at.caller = "closing"
  /\ TornDown
  /\ Goes("caller", "closed")
  /\ UNCHANGED <<server, nodes, sink, closing, reported, heard, shown, changes,
                 outages>>

----------------------------------------------------------------------------
(* _connection_lost and _reconnect. *)

\* A defect the runs must catch: a reconnection that has finished still counts as one.
BugMayReconnect == ~closing /\ at.task = "none"

MayReconnect == ~closing /\ at.task \in Idle

ConnectionLost ==
  /\ session = "lost" /\ ~told
  /\ told' = TRUE
  /\ IF MayReconnect THEN Goes("task", "sleeping") ELSE UNCHANGED at
  /\ UNCHANGED <<server, session, nodes, sink, closing, reported, live, wire, heard,
                 shown, changes, outages>>

\* RECONNECT_PERIOD is over; by then no request of the old session is pending.
TaskWakes ==
  /\ at.task = "sleeping"
  /\ at.caller \notin {"resolving", "subscribing"}
  /\ TornDown
  /\ Goes("task", "connecting")
  /\ UNCHANGED <<server, nodes, sink, closing, reported, heard, shown, changes,
                 outages>>

TaskConnects == at.task = "connecting" /\ OpensSession("task", "resolving", "sleeping")

\* _resolve(), then watch() up to its first await if there is a sink.
TaskResolves ==
  /\ at.task = "resolving"
  /\ IF session = "open"
     THEN /\ nodes' = Resolved
          /\ IF sink THEN reported' = Forgotten /\ Goes("task", "subscribing")
             ELSE UNCHANGED reported /\ Goes("task", "done")
     ELSE UNCHANGED <<nodes, reported>> /\ Goes("task", "sleeping")
  /\ UNCHANGED <<server, session, told, sink, closing, live, wire, heard, shown,
                 changes, outages>>

TaskSubscribes == at.task = "subscribing" /\ Subscribes("task", "done", "sleeping")

TaskStep == TaskWakes \/ TaskConnects \/ TaskResolves \/ TaskSubscribes

----------------------------------------------------------------------------
(* The gateway and the network, as the client meets them. *)

\* Every subscription the session has is sent the change.
ServerShows(s) ==
  /\ changes < MaxChanges
  /\ changes' = changes + 1
  /\ \E r \in Readings(s) \ {server.shows[s]} :
       /\ server' = [server EXCEPT !.shows[s] = r]
       /\ wire' = IF session # "open" THEN wire
                  ELSE wire \o [i \in 1 .. live |->
                                 [signal |-> s, reading |-> r, first |-> FALSE]]
  /\ UNCHANGED <<session, told, nodes, at, sink, closing, reported, live, heard,
                 shown, outages>>

\* The gateway goes, or only the connection to it.
Outage ==
  /\ server.up
  /\ outages < MaxOutages
  /\ outages' = outages + 1
  /\ \E up \in BOOLEAN : server' = [server EXCEPT !.up = up]
  /\ session' = IF session = "open" THEN "lost" ELSE session
  /\ UNCHANGED <<told, nodes, at, sink, closing, reported, live, wire, heard, shown,
                 changes>>

\* It is back, its namespaces laid out as it likes.
ServerComes ==
  /\ ~server.up
  /\ \E i \in Indices : server' = [server EXCEPT !.up = TRUE, !.idx = i]
  /\ UNCHANGED <<session, told, nodes, at, sink, closing, reported, live, wire,
                 heard, shown, changes, outages>>

CallerAnswered == CallerResolves \/ CallerSubscribes \/ DisconnectReturns

ControllerNext ==
  \/ CallerConnects \/ CallerWatches \/ CallerDisconnects \/ CallerAnswered
  \/ ConnectionLost \/ TaskStep \/ Deliver
  \/ Outage \/ ServerComes
  \/ \E s \in Signals : ServerShows(s)

ControllerSpec == ControllerInit /\ [][ControllerNext]_controllerVars

\* The loop runs what is ready.  What the caller asks for is its own affair.
ControllerFairSpec ==
  /\ ControllerSpec
  /\ WF_controllerVars(CallerAnswered) /\ WF_controllerVars(ConnectionLost)
  /\ WF_controllerVars(TaskStep) /\ WF_controllerVars(Deliver)

----------------------------------------------------------------------------
(* Properties. *)

Notifications == [signal : Signals, reading : AllReadings, first : BOOLEAN]

ControllerTypeOK ==
  /\ server \in [up : BOOLEAN, idx : Indices, shows : [Signals -> AllReadings]]
  /\ session \in {"none", "open", "lost"} /\ told \in BOOLEAN
  /\ nodes \in Indices \cup {0}
  /\ at \in [caller : {"idle", "resolving", "connected", "subscribing", "watching",
                       "failed", "closing", "closed"},
             task : Idle \cup {"sleeping", "connecting", "resolving", "subscribing"}]
  /\ sink \in BOOLEAN /\ closing \in BOOLEAN
  /\ reported \in Latest /\ heard \in Latest /\ shown \in Latest
  /\ live \in 0 .. 2 /\ wire \in Seq(Notifications)
  /\ changes \in 0 .. MaxChanges /\ outages \in 0 .. MaxOutages

Near(s, a, b) == a = b \/ Noise(s, a, b)

(* controller.py:279-282, "a slow drift is eventually reported": whatever  *)
(* came and in however small steps, also across reconnections, the sink's  *)
(* last value is within the deadband of the last one received, and its     *)
(* status is the same.                                                     *)
DriftIsSeen == \A s \in Signals : heard[s] # Nothing => Near(s, shown[s], heard[s])

(* controller.py:264-265: the first value a new subscription sends for a   *)
(* signal is news, however small the move since the old one (where the     *)
(* caller and the task have not both subscribed on one session).           *)
FirstIsNews ==
  [][ Deliver /\ Head(wire).first /\ live = 1
        => shown'[Head(wire).signal] = Head(wire).reading ]_controllerVars

(* controller.py:171-176: once disconnect() has returned, nothing brings   *)
(* the session back, wherever in a reconnection it was called.             *)
ClosedStaysClosed == at.caller = "closed" => session = "none" /\ at.task \in Idle

(* controller.py:241-243: a setpoint or a command goes to the node it is   *)
(* meant for, under the gateway's present namespace index, except while a  *)
(* connection is being made (or has been given up half made by the close). *)
NodesAreCurrent ==
  session = "open" /\ nodes # server.idx
    => \/ at.caller \in {"resolving", "closing"}
       \/ at.task = "resolving"

(* controller.py:227: a controller that was given a sink and is not being  *)
(* closed comes back from any outage by itself, under whatever namespace   *)
(* index: once the gateway stays up, the sink ends with what it serves.    *)
ViewCatchesUp ==
  <>[](server.up /\ sink /\ ~closing)
    => <>[](\A s \in Signals : Near(s, shown[s], server.shows[s]))

============================================================================

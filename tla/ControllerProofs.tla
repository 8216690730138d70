-------------------------- MODULE ControllerProofs --------------------------
(***************************************************************************)
(* The controller for any signals, values, deadband and number of outages: *)
(* closing is final, requests go to current nodes, no drift goes unseen, a *)
(* first value is always news; at most two subscriptions on a session.     *)
(***************************************************************************)
EXTENDS Controller, SequenceTheorems, TLAPS

----------------------------------------------------------------------------
(* The session, and who may open one. *)

SessionFields ==
  DOMAIN at = {"caller", "task"} /\ DOMAIN server = {"up", "idx", "shows"}

\* Closing is the caller's doing, and it leaves no task behind.
ClosingIsAlone ==
  /\ closing <=> at.caller \in {"closing", "closed"}
  /\ at.caller \in {"closing", "closed"} => at.task \in Idle

\* A session is with a gateway that is up: its index cannot change.
OpenIsUp == session = "open" => server.up

SessionInv ==
  SessionFields /\ ClosingIsAlone /\ OpenIsUp /\ ClosedStaysClosed /\ NodesAreCurrent

\* A flow that takes a step leaves the other where it is.
LEMMA CallerMoves ==
  ASSUME SessionFields, NEW place, Goes("caller", place)
  PROVE  /\ DOMAIN at' = {"caller", "task"}
         /\ at'.caller = place /\ at'.task = at.task
  BY DEF SessionFields, Goes

LEMMA TaskMoves ==
  ASSUME SessionFields, NEW place, Goes("task", place)
  PROVE  /\ DOMAIN at' = {"caller", "task"}
         /\ at'.task = place /\ at'.caller = at.caller
  BY DEF SessionFields, Goes

LEMMA SessionInit == ControllerInit => SessionInv
<1> SUFFICES ASSUME ControllerInit PROVE SessionInv
  OBVIOUS
<1>1. at.caller = "idle" /\ closing = FALSE /\ session = "none"
  BY DEF ControllerInit
<1>2. SessionFields
  BY DEF ControllerInit, SessionFields
<1>3. ClosingIsAlone
  <2>1. at.caller \notin {"closing", "closed"}
    BY <1>1
  <2> QED BY <1>1, <2>1, Zenon DEF ClosingIsAlone
<1> QED BY <1>1, <1>2, <1>3 DEF SessionInv, OpenIsUp, ClosedStaysClosed, NodesAreCurrent

\* Only connect() opens a session, and each connect() is followed by _resolve().
LEMMA SessionStep == SessionInv /\ [ControllerNext]_controllerVars => SessionInv'
<1> SUFFICES ASSUME SessionInv, [ControllerNext]_controllerVars PROVE SessionInv'
  OBVIOUS
<1> USE DEF SessionInv, SessionFields, ClosingIsAlone, OpenIsUp, ClosedStaysClosed,
            NodesAreCurrent
<1>1. CASE CallerConnects
  BY <1>1, CallerMoves DEF CallerConnects, OpensSession
<1>2. CASE CallerWatches
  BY <1>2, CallerMoves DEF CallerWatches
<1>3. CASE CallerDisconnects
  BY <1>3 DEF CallerDisconnects, Cancelled, Idle
<1>4. CASE CallerResolves
  BY <1>4, CallerMoves DEF CallerResolves, Resolved
<1>5. CASE CallerSubscribes
  BY <1>5, CallerMoves DEF CallerSubscribes, Subscribes
<1>6. CASE DisconnectReturns
  BY <1>6, CallerMoves DEF DisconnectReturns, TornDown
<1>7. CASE ConnectionLost
  BY <1>7, TaskMoves DEF ConnectionLost, MayReconnect
<1>8. CASE TaskWakes
  BY <1>8, TaskMoves DEF TaskWakes, TornDown, Idle
<1>9. CASE TaskConnects
  BY <1>9, TaskMoves DEF TaskConnects, OpensSession, Idle
<1>10. CASE TaskResolves
  BY <1>10, TaskMoves DEF TaskResolves, Resolved, Idle
<1>11. CASE TaskSubscribes
  BY <1>11, TaskMoves DEF TaskSubscribes, Subscribes, Idle
<1>12. CASE Deliver
  BY <1>12 DEF Deliver
<1>13. CASE Outage
  BY <1>13 DEF Outage
<1>14. CASE ServerComes
  BY <1>14 DEF ServerComes
<1>15. ASSUME NEW s \in Signals, ServerShows(s) PROVE SessionInv'
  BY <1>15 DEF ServerShows
<1>16. CASE UNCHANGED controllerVars
  BY <1>16 DEF controllerVars
<1> QED BY <1>1, <1>2, <1>3, <1>4, <1>5, <1>6, <1>7, <1>8, <1>9, <1>10, <1>11, <1>12,
          <1>13, <1>14, <1>15, <1>16 DEF ControllerNext, CallerAnswered, TaskStep

LEMMA SessionInvariant == ControllerSpec => []SessionInv
  BY SessionInit, SessionStep, PTL DEF ControllerSpec

\* Wherever in a reconnection disconnect() was called (controller.py:171-176).
THEOREM ClosingIsFinal == ControllerSpec => []ClosedStaysClosed
<1>1. SessionInv => ClosedStaysClosed
  BY DEF SessionInv
<1> QED BY <1>1, SessionInvariant, PTL

\* However often the gateway comes back with its namespaces laid out anew
\* (controller.py:241-243).
THEOREM RequestsFindTheirNode == ControllerSpec => []NodesAreCurrent
<1>1. SessionInv => NodesAreCurrent
  BY DEF SessionInv
<1> QED BY <1>1, SessionInvariant, PTL

----------------------------------------------------------------------------
(* The deadband. *)

\* What is remembered is what was shown: only then does measuring from the
\* one bound the distance to the other.
RememberedIsShown == \A s \in Signals : reported[s] = Nothing \/ reported[s] = shown[s]

DriftInv ==
  /\ DOMAIN reported = Signals /\ DOMAIN shown = Signals /\ DOMAIN heard = Signals
  /\ RememberedIsShown /\ DriftIsSeen

LEMMA DriftInit == ControllerInit => DriftInv
  BY DEF ControllerInit, DriftInv, RememberedIsShown, DriftIsSeen, Blank

\* A new subscription forgets, and so does nothing worse.
LEMMA ForgettingIsSafe ==
  ASSUME DriftInv, reported' = Forgotten, shown' = shown, heard' = heard
  PROVE  DriftInv'
  BY DEF DriftInv, RememberedIsShown, DriftIsSeen, Forgotten, Blank

LEMMA DeliveryIsSafe == DriftInv /\ Deliver => DriftInv'
<1> SUFFICES ASSUME DriftInv, Deliver PROVE DriftInv'
  OBVIOUS
<1> DEFINE n == Head(wire).signal
           r == Head(wire).reading
<1>1. /\ heard' = [heard EXCEPT ![n] = r]
      /\ shown' = IF Noise(n, reported[n], r) THEN shown ELSE [shown EXCEPT ![n] = r]
      /\ reported' = IF Noise(n, reported[n], r) THEN reported
                     ELSE [reported EXCEPT ![n] = r]
  BY DEF Deliver, Remembered
<1> HIDE DEF n, r
<1>2. DOMAIN reported' = Signals /\ DOMAIN shown' = Signals /\ DOMAIN heard' = Signals
  BY <1>1 DEF DriftInv
<1>3. ASSUME NEW s \in Signals
      PROVE  /\ reported'[s] = Nothing \/ reported'[s] = shown'[s]
             /\ heard'[s] # Nothing => Near(s, shown'[s], heard'[s])
  <2>1. CASE s # n
    BY <1>1, <2>1 DEF DriftInv, RememberedIsShown, DriftIsSeen
  <2>2. CASE s = n /\ Noise(n, reported[n], r)
    <3>1. reported[s].status = "Good"
      BY <2>2 DEF Noise
    <3>2. reported[s] = shown[s]
      BY <3>1 DEF DriftInv, RememberedIsShown, Nothing
    <3>3. Near(s, shown[s], r)
      BY <2>2, <3>2 DEF Near
    <3> QED BY <1>1, <2>2, <3>2, <3>3 DEF DriftInv
  <2>3. CASE s = n /\ ~Noise(n, reported[n], r)
    BY <1>1, <2>3 DEF DriftInv, Near
  <2> QED BY <2>1, <2>2, <2>3
<1> QED BY <1>2, <1>3 DEF DriftInv, RememberedIsShown, DriftIsSeen

LEMMA DriftStep == DriftInv /\ [ControllerNext]_controllerVars => DriftInv'
<1> SUFFICES ASSUME DriftInv, [ControllerNext]_controllerVars PROVE DriftInv'
  OBVIOUS
<1>1. CASE Deliver
  BY <1>1, DeliveryIsSafe
<1>2. CASE CallerWatches
  BY <1>2, ForgettingIsSafe DEF CallerWatches
<1>3. CASE TaskResolves /\ reported' = Forgotten
  BY <1>3, ForgettingIsSafe DEF TaskResolves
<1>4. ASSUME reported' = reported, shown' = shown, heard' = heard PROVE DriftInv'
  BY <1>4 DEF DriftInv, RememberedIsShown, DriftIsSeen
<1>5. CASE TaskResolves /\ reported' # Forgotten
  BY <1>4, <1>5 DEF TaskResolves
<1>6. CASE CallerConnects \/ CallerDisconnects \/ CallerAnswered \/ ConnectionLost
  BY <1>4, <1>6 DEF CallerConnects, OpensSession, CallerDisconnects, CallerAnswered,
     CallerResolves, CallerSubscribes, Subscribes, DisconnectReturns, ConnectionLost
<1>7. CASE TaskWakes \/ TaskConnects \/ TaskSubscribes
  BY <1>4, <1>7 DEF TaskWakes, TaskConnects, OpensSession, TaskSubscribes, Subscribes
<1>8. CASE Outage \/ ServerComes \/ \E s \in Signals : ServerShows(s)
  BY <1>4, <1>8 DEF Outage, ServerComes, ServerShows
<1>9. CASE UNCHANGED controllerVars
  BY <1>4, <1>9 DEF controllerVars
<1> QED BY <1>1, <1>2, <1>3, <1>5, <1>6, <1>7, <1>8, <1>9 DEF ControllerNext, TaskStep

\* However small the steps and across any reconnections, the caller's view is
\* within the deadband of the last value received (controller.py:279-282).
THEOREM DriftsAreSeen == ControllerSpec => []DriftIsSeen
<1>1. DriftInv => DriftIsSeen
  BY DEF DriftInv
<1> QED BY <1>1, DriftInit, DriftStep, PTL DEF ControllerSpec

----------------------------------------------------------------------------
(* Types, and how many subscriptions a session can have. *)

\* Nobody subscribes twice on one session: the caller does so once in its life,
\* and between two of the task's the session is torn down.
CallerMay == at.caller \in {"idle", "resolving", "connected", "subscribing"}
TaskMay   == at.task \in {"none", "connecting", "resolving", "subscribing"}

Subscribed == /\ live \in 0 .. 2
              /\ CallerMay \/ TaskMay => live <= 1
              /\ CallerMay /\ TaskMay => live = 0

Plain ==
  /\ server \in [up : BOOLEAN, idx : Indices, shows : [Signals -> AllReadings]]
  /\ session \in {"none", "open", "lost"} /\ told \in BOOLEAN
  /\ nodes \in Indices \cup {0}
  /\ at \in [caller : {"idle", "resolving", "connected", "subscribing", "watching",
                       "failed", "closing", "closed"},
             task : Idle \cup {"sleeping", "connecting", "resolving", "subscribing"}]
  /\ sink \in BOOLEAN /\ closing \in BOOLEAN
  /\ changes \in 0 .. MaxChanges /\ outages \in 0 .. MaxOutages

Views == reported \in Latest /\ heard \in Latest /\ shown \in Latest

LEMMA FirstOnesType ==
  ASSUME Plain
  PROVE  FirstOnes \in Seq(Notifications)
<1>1. Order \in Seq(Signals) /\ server.shows \in [Signals -> AllReadings]
  BY ControllerAssumption DEF Plain
<1>2. \A i \in DOMAIN Order : Order[i] \in Signals
  BY <1>1
<1>3. /\ DOMAIN FirstOnes = 1 .. Len(Order) /\ Len(Order) \in Nat
      /\ \A i \in 1 .. Len(Order) : FirstOnes[i] \in Notifications
  BY <1>1, <1>2 DEF FirstOnes, Notifications
<1>4. QED
  BY <1>3 DEF FirstOnes

LEMMA PlainInit == ControllerInit => Plain /\ Views /\ Subscribed /\ wire \in Seq(Notifications)
<1> SUFFICES ASSUME ControllerInit
             PROVE  Plain /\ Views /\ Subscribed /\ wire \in Seq(Notifications)
  OBVIOUS
<1>1. server \in [up : BOOLEAN, idx : Indices, shows : [Signals -> AllReadings]]
  <2>1. \A s \in Signals : Bad \in AllReadings
    BY DEF AllReadings, Readings
  <2>2. QED
    BY <2>1 DEF ControllerInit
<1>2. 0 \in 0 .. MaxChanges /\ 0 \in 0 .. MaxOutages
  BY ControllerAssumption
<1>3. Plain
  BY <1>1, <1>2 DEF ControllerInit, Plain, Idle
<1>4. Views
  BY DEF ControllerInit, Views, Latest, Blank
<1>5. QED
  BY <1>3, <1>4 DEF ControllerInit, Subscribed

LEMMA PlainStep ==
  ASSUME Plain, [ControllerNext]_controllerVars
  PROVE  Plain'
<1> USE DEF Plain, Goes, Idle
<1>1. CASE CallerConnects
  BY <1>1 DEF CallerConnects, OpensSession
<1>2. CASE CallerWatches
  BY <1>2 DEF CallerWatches
<1>3. CASE CallerDisconnects
  BY <1>3 DEF CallerDisconnects, Cancelled
<1>4. CASE CallerResolves
  BY <1>4 DEF CallerResolves, Resolved
<1>5. CASE CallerSubscribes
  BY <1>5 DEF CallerSubscribes, Subscribes
<1>6. CASE DisconnectReturns
  BY <1>6 DEF DisconnectReturns, TornDown
<1>7. CASE ConnectionLost
  BY <1>7 DEF ConnectionLost
<1>8. CASE TaskWakes
  BY <1>8 DEF TaskWakes, TornDown
<1>9. CASE TaskConnects
  BY <1>9 DEF TaskConnects, OpensSession
<1>10. CASE TaskResolves
  BY <1>10 DEF TaskResolves, Resolved
<1>11. CASE TaskSubscribes
  BY <1>11 DEF TaskSubscribes, Subscribes
<1>12. CASE Deliver
  BY <1>12 DEF Deliver
<1>13. CASE Outage
  BY <1>13, ControllerAssumption DEF Outage
<1>14. CASE ServerComes
  BY <1>14 DEF ServerComes
<1>15. ASSUME NEW s \in Signals, ServerShows(s) PROVE Plain'
  <2>1. PICK r \in Readings(s) : server' = [server EXCEPT !.shows[s] = r]
    BY <1>15 DEF ServerShows
  <2>2. r \in AllReadings
    BY DEF AllReadings
  <2>3. server' \in [up : BOOLEAN, idx : Indices, shows : [Signals -> AllReadings]]
    BY <2>1, <2>2
  <2>4. changes' \in 0 .. MaxChanges
    BY <1>15, ControllerAssumption DEF ServerShows
  <2>5. QED
    BY <1>15, <2>3, <2>4 DEF ServerShows
<1>16. CASE UNCHANGED controllerVars
  BY <1>16 DEF controllerVars
<1> QED BY <1>1, <1>2, <1>3, <1>4, <1>5, <1>6, <1>7, <1>8, <1>9, <1>10, <1>11, <1>12,
          <1>13, <1>14, <1>15, <1>16 DEF ControllerNext, CallerAnswered, TaskStep

LEMMA SubscribedStep ==
  ASSUME Plain, Subscribed, [ControllerNext]_controllerVars
  PROVE  Subscribed'
<1> USE DEF Subscribed, CallerMay, TaskMay, Plain, Goes, Idle
<1>1. CASE CallerConnects \/ CallerResolves \/ CallerWatches
  BY <1>1 DEF CallerConnects, OpensSession, CallerResolves, CallerWatches
<1>2. CASE CallerSubscribes
  BY <1>2 DEF CallerSubscribes, Subscribes
<1>3. CASE CallerDisconnects
  BY <1>3 DEF CallerDisconnects, Cancelled
<1>4. CASE DisconnectReturns \/ TaskWakes
  BY <1>4 DEF DisconnectReturns, TaskWakes, TornDown
<1>5. CASE ConnectionLost \/ TaskConnects \/ TaskResolves
  BY <1>5 DEF ConnectionLost, TaskConnects, OpensSession, TaskResolves
<1>6. CASE TaskSubscribes
  BY <1>6 DEF TaskSubscribes, Subscribes
<1>7. CASE Deliver \/ Outage \/ ServerComes \/ UNCHANGED controllerVars
  BY <1>7 DEF Deliver, Outage, ServerComes, controllerVars
<1>8. ASSUME NEW s \in Signals, ServerShows(s) PROVE Subscribed'
  BY <1>8 DEF ServerShows
<1> QED BY <1>1, <1>2, <1>3, <1>4, <1>5, <1>6, <1>7, <1>8
        DEF ControllerNext, CallerAnswered, TaskStep

LEMMA WireStep ==
  ASSUME Plain, Subscribed, wire \in Seq(Notifications), [ControllerNext]_controllerVars
  PROVE  wire' \in Seq(Notifications)
<1>1. CASE UNCHANGED wire
  BY <1>1
<1>2. CASE CallerSubscribes \/ TaskSubscribes
  <2>1. wire' = wire \/ wire' = wire \o FirstOnes
    BY <1>2 DEF CallerSubscribes, TaskSubscribes, Subscribes
  <2>2. QED
    BY <2>1, FirstOnesType, ConcatProperties
<1>3. CASE wire' \in {Tail(wire), <<>>} /\ (wire' # <<>> => wire # <<>>)
  <2>1. CASE wire' = <<>>
    BY <2>1, EmptySeq
  <2>2. CASE wire' = Tail(wire) /\ wire # <<>>
    BY <2>2, HeadTailProperties
  <2>3. QED
    BY <1>3, <2>1, <2>2
<1>4. ASSUME NEW s \in Signals, ServerShows(s) PROVE wire' \in Seq(Notifications)
  <2>1. PICK r \in Readings(s) :
          wire' = IF session # "open" THEN wire
                  ELSE wire \o [i \in 1 .. live |->
                                 [signal |-> s, reading |-> r, first |-> FALSE]]
    BY <1>4 DEF ServerShows
  <2>2. [signal |-> s, reading |-> r, first |-> FALSE] \in Notifications
    BY DEF Notifications, AllReadings
  <2>3. live \in Nat
    BY DEF Subscribed
  <2>4. [i \in 1 .. live |-> [signal |-> s, reading |-> r, first |-> FALSE]]
          \in Seq(Notifications)
    BY <2>2, <2>3
  <2>5. QED
    BY <2>1, <2>4, ConcatProperties
<1>5. QED
  BY <1>1, <1>2, <1>3, <1>4
  DEF ControllerNext, CallerAnswered, TaskStep, CallerConnects, OpensSession,
      CallerResolves, CallerWatches, CallerDisconnects, DisconnectReturns,
      ConnectionLost, TaskWakes, TornDown, Deliver, TaskConnects, TaskResolves, Outage,
      ServerComes, controllerVars

LEMMA ViewsStep ==
  ASSUME Views, wire \in Seq(Notifications), [ControllerNext]_controllerVars
  PROVE  Views'
<1>1. CASE Deliver
  <2>1. Head(wire) \in Notifications
    BY <1>1 DEF Deliver
  <2>2. Head(wire).signal \in Signals /\ Head(wire).reading \in AllReadings
    BY <2>1 DEF Notifications
  <2>3. QED
    BY <1>1, <2>2 DEF Deliver, Remembered, Views, Latest
<1>2. CASE reported' \in {reported, Forgotten} /\ UNCHANGED <<heard, shown>>
  BY <1>2 DEF Views, Latest, Forgotten, Blank
<1>3. QED
  BY <1>1, <1>2
  DEF ControllerNext, CallerAnswered, TaskStep, CallerConnects, OpensSession,
      CallerResolves, CallerWatches, CallerSubscribes, Subscribes, CallerDisconnects,
      DisconnectReturns, ConnectionLost, TaskWakes, TaskConnects, TaskResolves,
      TaskSubscribes, Outage, ServerComes, ServerShows, controllerVars

ControllerInv == Plain /\ Views /\ Subscribed /\ wire \in Seq(Notifications)

LEMMA ControllerInvariant == ControllerSpec => []ControllerInv
<1>1. ControllerInit => ControllerInv
  BY PlainInit DEF ControllerInv
<1>2. ControllerInv /\ [ControllerNext]_controllerVars => ControllerInv'
  BY PlainStep, SubscribedStep, WireStep, ViewsStep DEF ControllerInv
<1>3. QED
  BY <1>1, <1>2, PTL DEF ControllerSpec

(* Every field keeps its kind, and among them: however often the           *)
(* connection is lost, by whichever of the two flows and whenever it is    *)
(* made anew (controller.py, connect, watch and _reconnect), a session     *)
(* never carries more than two subscriptions.                              *)
THEOREM ControllerTypeCorrect == ControllerSpec => []ControllerTypeOK
<1>1. ControllerInv => ControllerTypeOK
  BY DEF ControllerInv, Plain, Views, Subscribed, ControllerTypeOK
<1>2. QED
  BY <1>1, ControllerInvariant, PTL

----------------------------------------------------------------------------
(* What a new subscription sends first.                                    *)

Subscribing == at.caller = "subscribing" \/ at.task = "subscribing"

\* Until a session has its second subscription, whatever was sent first is ahead of
\* the changes in the wire, and nothing of its signal but itself is remembered.
FirstsAhead ==
  \A i \in 1 .. Len(wire) : wire[i].first =>
    /\ reported[wire[i].signal] \in {Nothing, wire[i].reading}
    /\ \A j \in 1 .. i :
         /\ wire[j].first
         /\ wire[j].signal = wire[i].signal => wire[j].reading = wire[i].reading

FirstInv ==
  /\ live = 0 => wire = <<>>
  /\ live = 0 /\ Subscribing => reported = Blank
  /\ live <= 1 => FirstsAhead

LEMMA FirstInit == ControllerInit => FirstInv
  BY DEF ControllerInit, FirstInv, FirstsAhead, Subscribing

\* It holds of an empty wire, and forgetting does it no harm.
LEMMA NothingAhead ==
  ASSUME wire' = <<>>, Subscribing' => live' > 0 \/ reported' = Blank
  PROVE  FirstInv'
  BY EmptySeq DEF FirstInv, FirstsAhead

LEMMA ForgettingKeepsAhead ==
  ASSUME ControllerInv, FirstInv, reported' = Forgotten, wire' = wire, live' = live
  PROVE  FirstInv'
<1>1. ASSUME NEW i \in 1 .. Len(wire)
      PROVE  reported'[wire[i].signal] = Nothing
  <2>1. wire[i].signal \in Signals
    <3>1. wire[i] \in Notifications
      BY ElementOfSeq DEF ControllerInv
    <3>2. QED
      BY <3>1 DEF Notifications
  <2>2. QED
    BY <2>1 DEF Forgotten, Blank
<1>2. QED
  BY <1>1 DEF FirstInv, FirstsAhead, Forgotten, Subscribing

LEMMA DeliveryKeepsAhead ==
  ASSUME ControllerInv, FirstInv, Deliver
  PROVE  FirstInv'
<1> DEFINE n == Head(wire)
<1>1. /\ wire \in Seq(Notifications) /\ wire # <<>> /\ Len(wire) \in Nat \ {0}
      /\ n \in Notifications /\ n = wire[1]
      /\ wire' \in Seq(Notifications) /\ Len(wire') = Len(wire) - 1
      /\ \A i \in 1 .. Len(wire') : wire'[i] = wire[i + 1]
  BY HeadTailProperties, EmptySeq DEF ControllerInv, Deliver
<1>2. /\ live # 0 /\ live' = live
      /\ reported' = IF Noise(n.signal, reported[n.signal], n.reading) THEN reported
                     ELSE [reported EXCEPT ![n.signal] = n.reading]
  BY <1>1 DEF Deliver, Remembered, FirstInv
<1>3. DOMAIN reported = Signals /\ n.signal \in Signals
  BY <1>1 DEF ControllerInv, Views, Latest, Notifications
<1> HIDE DEF n
<1>4. ASSUME FirstsAhead, NEW i \in 1 .. Len(wire'), wire'[i].first
      PROVE  /\ reported'[wire'[i].signal] \in {Nothing, wire'[i].reading}
             /\ \A j \in 1 .. i :
                  /\ wire'[j].first
                  /\ wire'[j].signal = wire'[i].signal => wire'[j].reading = wire'[i].reading
  <2>1. i + 1 \in 1 .. Len(wire) /\ wire'[i] = wire[i + 1] /\ wire[i + 1].first
    BY <1>1, <1>4
  <2>2. /\ reported[wire[i + 1].signal] \in {Nothing, wire[i + 1].reading}
        /\ \A j \in 1 .. i + 1 :
             /\ wire[j].first
             /\ wire[j].signal = wire[i + 1].signal => wire[j].reading = wire[i + 1].reading
    BY <1>4, <2>1 DEF FirstsAhead
  <2>3. n.signal = wire[i + 1].signal => n.reading = wire[i + 1].reading
    BY <1>1, <2>1, <2>2
  <2>4. reported'[wire'[i].signal] \in {Nothing, wire'[i].reading}
    BY <1>2, <1>3, <2>1, <2>2, <2>3
  <2>5. ASSUME NEW j \in 1 .. i
        PROVE  /\ wire'[j].first
               /\ wire'[j].signal = wire'[i].signal => wire'[j].reading = wire'[i].reading
    <3>1. j + 1 \in 1 .. i + 1 /\ j \in 1 .. Len(wire') /\ wire'[j] = wire[j + 1]
      BY <1>1
    <3>2. QED
      BY <2>1, <2>2, <3>1
  <2>6. QED
    BY <2>4, <2>5
<1>5. QED
  BY <1>2, <1>4 DEF FirstInv, FirstsAhead

LEMMA SubscribingSendsFirst ==
  ASSUME ControllerInv, FirstInv, CallerSubscribes \/ TaskSubscribes
  PROVE  FirstInv'
<1>1. /\ Subscribing /\ reported' = reported
      /\ \/ wire' = wire /\ live' = live
         \/ wire' = wire \o FirstOnes /\ live' = live + 1
  BY DEF CallerSubscribes, TaskSubscribes, Subscribes, Subscribing
<1>2. CASE wire' = wire /\ live' = live
  BY <1>1, <1>2 DEF FirstInv, FirstsAhead
<1>3. CASE wire' = wire \o FirstOnes /\ live' = live + 1
  <2>1. live \in Nat
    BY DEF ControllerInv, Subscribed
  <2>2. CASE live = 0
    <3>1. reported' = Blank /\ wire' = FirstOnes
      BY <1>1, <1>3, <2>2, FirstOnesType, ConcatEmptySeq DEF FirstInv, ControllerInv
    <3>2. DOMAIN FirstOnes = 1 .. Len(FirstOnes) /\ FirstOnes \in Seq(Notifications)
      BY FirstOnesType, LenProperties DEF ControllerInv
    <3>3. ASSUME NEW i \in 1 .. Len(FirstOnes)
          PROVE  /\ FirstOnes[i].first
                 /\ FirstOnes[i].signal \in Signals
                 /\ FirstOnes[i].reading = server.shows[FirstOnes[i].signal]
      <4>1. FirstOnes[i] \in Notifications
        BY <3>2, ElementOfSeq
      <4>2. QED
        BY <3>2, <4>1 DEF FirstOnes, Notifications
    <3>4. \A s \in Signals : reported'[s] = Nothing
      BY <3>1 DEF Blank
    <3>5. FirstsAhead'
      BY <3>1, <3>3, <3>4 DEF FirstsAhead
    <3>6. QED
      BY <1>3, <2>1, <2>2, <3>5 DEF FirstInv
  <2>3. CASE live > 0
    BY <1>3, <2>1, <2>3 DEF FirstInv
  <2>4. QED
    BY <2>1, <2>2, <2>3
<1>4. QED
  BY <1>1, <1>2, <1>3

LEMMA ShowingStaysBehind ==
  ASSUME ControllerInv, FirstInv, NEW s \in Signals, ServerShows(s)
  PROVE  FirstInv'
<1>1. PICK r \in Readings(s) :
        wire' = IF session # "open" THEN wire
                ELSE wire \o [i \in 1 .. live |->
                               [signal |-> s, reading |-> r, first |-> FALSE]]
  BY DEF ServerShows
<1> DEFINE more == [i \in 1 .. live |-> [signal |-> s, reading |-> r, first |-> FALSE]]
<1>2. /\ wire \in Seq(Notifications) /\ live \in Nat
      /\ UNCHANGED <<live, reported, at>>
  BY DEF ControllerInv, Subscribed, ServerShows
<1>3. CASE wire' = wire
  BY <1>2, <1>3 DEF FirstInv, FirstsAhead, Subscribing
<1>4. CASE wire' = wire \o more
  <2>1. /\ more \in Seq(Notifications) /\ Len(more) = live
        /\ \A i \in 1 .. live : more[i].first = FALSE
    <3>1. [signal |-> s, reading |-> r, first |-> FALSE] \in Notifications
      BY DEF Notifications, AllReadings
    <3>2. QED
      BY <1>2, <3>1
  <2> HIDE DEF more
  <2>2. /\ Len(wire') = Len(wire) + live /\ Len(wire) \in Nat
        /\ \A i \in 1 .. Len(wire) + live :
             wire'[i] = IF i <= Len(wire) THEN wire[i] ELSE more[i - Len(wire)]
    BY <1>2, <1>4, <2>1, ConcatProperties, LenProperties
  <2>3. ASSUME NEW i \in 1 .. Len(wire'), wire'[i].first
        PROVE  i \in 1 .. Len(wire) /\ wire'[i] = wire[i]
    <3>1. CASE i <= Len(wire)
      BY <2>2, <3>1
    <3>2. CASE i > Len(wire)
      <4>1. i - Len(wire) \in 1 .. live /\ wire'[i] = more[i - Len(wire)]
        BY <1>2, <2>2, <3>2
      <4>2. QED
        BY <2>1, <2>3, <4>1
    <3>3. QED
      BY <2>2, <3>1, <3>2
  <2>4. FirstsAhead => FirstsAhead'
    <3>1. SUFFICES ASSUME FirstsAhead, NEW i \in 1 .. Len(wire'), wire'[i].first
                   PROVE  /\ reported'[wire'[i].signal] \in {Nothing, wire'[i].reading}
                          /\ \A j \in 1 .. i :
                               /\ wire'[j].first
                               /\ wire'[j].signal = wire'[i].signal
                                    => wire'[j].reading = wire'[i].reading
      BY DEF FirstsAhead
    <3>2. i \in 1 .. Len(wire) /\ wire'[i] = wire[i] /\ wire[i].first
      BY <2>3, <3>1
    <3>3. \A j \in 1 .. i : wire'[j] = wire[j]
      BY <1>2, <2>2, <3>2
    <3>4. QED
      BY <1>2, <3>1, <3>2, <3>3 DEF FirstsAhead
  <2>5. live = 0 => wire' = <<>>
    BY <1>2, <1>4, <2>1, EmptySeq, ConcatEmptySeq DEF FirstInv
  <2>6. QED
    BY <1>2, <2>4, <2>5 DEF FirstInv, Subscribing
<1>5. QED
  BY <1>1, <1>3, <1>4

LEMMA FirstStep ==
  ASSUME ControllerInv, SessionInv, FirstInv, [ControllerNext]_controllerVars
  PROVE  FirstInv'
<1>1. CASE CallerWatches \/ (TaskResolves /\ reported' = Forgotten)
  <2>1. reported' = Forgotten /\ wire' = wire /\ live' = live
    BY <1>1 DEF CallerWatches, TaskResolves
  <2>2. QED
    BY <2>1, ForgettingKeepsAhead
<1>2. CASE DisconnectReturns \/ TaskWakes
  <2>1. wire' = <<>> /\ ~Subscribing'
    BY <1>2
    DEF DisconnectReturns, TaskWakes, TornDown, Goes, Subscribing, SessionInv,
        ClosingIsAlone, Idle, ControllerInv, Plain
  <2>2. QED
    BY <2>1, NothingAhead
<1>3. ASSUME UNCHANGED <<live, wire, reported>>, Subscribing' => Subscribing
      PROVE  FirstInv'
  BY <1>3 DEF FirstInv, FirstsAhead
<1> USE DEF Goes, Subscribing, Idle, ControllerInv, Plain
<1>4. CASE CallerConnects \/ TaskConnects
  BY <1>3, <1>4 DEF CallerConnects, TaskConnects, OpensSession
<1>5. CASE CallerResolves \/ ConnectionLost
  BY <1>3, <1>5 DEF CallerResolves, ConnectionLost
<1>6. CASE CallerDisconnects
  BY <1>3, <1>6 DEF CallerDisconnects, Cancelled
<1>7. CASE TaskResolves /\ reported' # Forgotten
  BY <1>3, <1>7 DEF TaskResolves
<1>8. CASE Outage \/ ServerComes \/ UNCHANGED controllerVars
  BY <1>3, <1>8 DEF Outage, ServerComes, controllerVars
<1>9. QED
  BY <1>1, <1>2, <1>4, <1>5, <1>6, <1>7, <1>8, DeliveryKeepsAhead, SubscribingSendsFirst, ShowingStaysBehind
  DEF ControllerNext, CallerAnswered, TaskStep

(* The first value a new subscription sends is news to the caller's sink   *)
(* (controller.py, watch, which forgets before it subscribes): however     *)
(* small the move since the old subscription's last, whatever the order of *)
(* outages and reconnections, for any signals and any deadband.            *)
THEOREM FirstValuesAreNews == ControllerSpec => FirstIsNews
<1>1. ControllerInv /\ FirstInv /\ DriftInv =>
        [Deliver /\ Head(wire).first /\ live = 1
           => shown'[Head(wire).signal] = Head(wire).reading]_controllerVars
  <2> SUFFICES ASSUME ControllerInv, FirstInv, DriftInv, Deliver, Head(wire).first, live = 1
               PROVE  shown'[Head(wire).signal] = Head(wire).reading
    OBVIOUS
  <2> DEFINE n == Head(wire)
  <2>1. /\ n \in Notifications /\ n = wire[1] /\ 1 \in 1 .. Len(wire)
    BY HeadTailProperties, EmptySeq DEF ControllerInv, Deliver
  <2>2. /\ n.signal \in Signals
        /\ reported[n.signal] \in {Nothing, n.reading}
    BY <2>1 DEF Notifications, FirstInv, FirstsAhead
  <2>3. shown' = IF Noise(n.signal, reported[n.signal], n.reading) THEN shown
                 ELSE [shown EXCEPT ![n.signal] = n.reading]
    BY DEF Deliver
  <2>4. DOMAIN shown = Signals
    BY DEF DriftInv
  <2>5. CASE Noise(n.signal, reported[n.signal], n.reading)
    <3>1. reported[n.signal] # Nothing
      BY <2>5 DEF Noise, Nothing
    <3>2. shown[n.signal] = n.reading
      BY <2>2, <3>1 DEF DriftInv, RememberedIsShown
    <3>3. QED
      BY <2>3, <2>5, <3>2
  <2>6. QED
    BY <2>2, <2>3, <2>4, <2>5
<1>2. ControllerInv /\ SessionInv /\ FirstInv /\ [ControllerNext]_controllerVars => FirstInv'
  BY FirstStep
<1>3. ControllerSpec => []FirstInv
  BY <1>2, FirstInit, ControllerInvariant, SessionInvariant, PTL DEF ControllerSpec
<1>4. ControllerSpec => []DriftInv
  BY DriftInit, DriftStep, PTL DEF ControllerSpec
<1>5. QED
  BY <1>1, <1>3, <1>4, ControllerInvariant, PTL DEF ControllerSpec, FirstIsNews

=============================================================================

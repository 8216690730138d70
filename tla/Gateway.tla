------------------------------ MODULE Gateway ------------------------------
(***************************************************************************)
(* The gateway's northbound half (src/src/gateway/server.py) and the poll  *)
(* that feeds it (poller.py): the nodes clients see, the last confirmed    *)
(* registers behind them, and the client writes that go back to the PLC.   *)
(*                                                                         *)
(* One asyncio loop again.  A poll is one read transaction per signal, in  *)
(* contract order, and only then one publication per reading; a client's   *)
(* Write request and a push to the PLC fall anywhere between those steps.  *)
(* asyncua serves a Write request item by item without yielding, so it is  *)
(* one action; an exception from a value setter ends the request.          *)
(*                                                                         *)
(* Values are the register words they encode to.                           *)
(***************************************************************************)
EXTENDS Integers, Sequences, SequencesExt

CONSTANTS
  Order,         \* the contract's signals, in its order
  Writable,      \* those with access RW
  StateSignal,   \* the one with opcua.states
  Declared,      \* register codes that have a declared state
  Words,         \* what each signal's registers may hold
  Boot,          \* what they hold when the PLC has started
  Requests,      \* client Write requests: sequences of [signal, value]
  MaxWrites,     \* bound: client Write requests
  MaxChanges     \* bound: changes the PLC or another master makes, and outages begun

VARIABLES
  stage,         \* run(): connecting, priming, running, stopped or dead
  reg, up,       \* the PLC's registers, and whether it answers
  poll,          \* where the poll is: reading or publishing which signal
  readings,      \* this poll's results
  lastWords,     \* _last_words
  node,          \* what a client reads: value and status
  marks,         \* _external_writes
  pushes,        \* the _push tasks, first come first served by the link's lock
  stateCode,     \* _last_state_code of the state signal
  transition,    \* LastTransition: the state it leads to, how often stamped
  accepted,      \* history: last write accepted from a client and still standing
  writes, changes

gatewayVars == <<stage, reg, up, poll, readings, lastWords, node, marks, pushes,
                 stateCode, transition, accepted, writes, changes>>

Signals == ToSet(Order)
Plain   == Signals \ {StateSignal}

Unknown    == "unknown"      \* Python's None
Failed     == "failed"       \* a reading with an error
Mistyped   == "mistyped"     \* a value asyncua refuses before any setter sees it
TooLarge   == "tooLarge"     \* a value encode() cannot pack into the registers
Zero       == "zero"         \* what add_variable() puts in a node, as Good
AllWords   == UNION {Words[s] : s \in Signals}

ASSUME GatewayAssumption ==
  /\ Order \in Seq(Signals) /\ Len(Order) > 0
  /\ Writable \subseteq Plain
  /\ StateSignal \in Signals
  /\ Declared \subseteq Words[StateSignal]
  /\ Boot \in [Signals -> AllWords] /\ \A s \in Signals : Boot[s] \in Words[s]
  /\ {Unknown, Failed, Mistyped, TooLarge, Zero} \cap AllWords = {}
  /\ Requests \subseteq
       Seq([signal : Writable, value : AllWords \cup {Mistyped, TooLarge}])
  /\ MaxWrites \in Nat /\ MaxChanges \in Nat

Good(value) == [value |-> value, status |-> "Good"]
Bad         == [value |-> Unknown, status |-> "Bad"]

GatewayInit ==
  /\ stage      = "connecting"
  /\ reg        = Boot
  /\ up \in BOOLEAN
  /\ poll       = [doing |-> "read", at |-> 1]
  /\ readings   = [s \in Signals |-> Unknown]
  /\ lastWords  = [s \in Signals |-> Unknown]
  /\ node       = [s \in Signals |-> Good(Zero)]
  /\ marks      = {}
  /\ pushes     = <<>>
  /\ stateCode  = Unknown
  /\ transition = [to |-> Unknown, stamps |-> 0]
  /\ accepted   = [s \in Signals |-> Unknown]
  /\ writes = 0 /\ changes = 0

Alive == stage \in {"priming", "running"}

----------------------------------------------------------------------------
(* Gateway._set_signal: the setter behind every writable node.  It serves  *)
(* the poll's publications and the clients' writes, and tells them apart   *)
(* by the mark alone.  `w' is what it works on, `known' is _last_words.    *)

Raise(w, s) == [w EXCEPT !.marks = @ \ {s}, !.raised = TRUE]

\* A defect the runs must catch: a write is taken with nothing confirmed to write against.
BugRefused(known, s, dv) == dv.value = TooLarge

Refused(known, s, dv) == known[s] = Unknown \/ dv.value = TooLarge

\* A defect the runs must catch: the mark is not consumed.
BugUnmark(w, s) == w.marks

Unmark(w, s) == w.marks \ {s}

\* A defect the runs must catch: the last write to arrive gets the link first.
BugQueue(w, push) == <<push>> \o w.pushes

Queue(w, push) == Append(w.pushes, push)

SetSignal(w, known, s, dv) ==
  IF s \notin w.marks THEN [w EXCEPT !.node[s] = dv]
  ELSE IF Refused(known, s, dv) THEN Raise(w, s)
  ELSE [w EXCEPT !.marks  = Unmark(w, s),
                 !.pushes = Queue(w, [signal |-> s, value |-> dv.value]),
                 !.node[s] = dv]

Work(marked) ==
  [marks |-> marked, node |-> node, pushes |-> pushes, took |-> accepted,
   raised |-> FALSE]

----------------------------------------------------------------------------
(* A client's Write service request. *)

\* _mark_external_write, on PreWrite: every node the request names.
Marked(request) == marks \cup {request[i].signal : i \in DOMAIN request}

WriteItem(w, item) ==
  IF w.raised \/ item.value = Mistyped THEN w
  ELSE LET after == SetSignal(w, lastWords, item.signal, Good(item.value))
       IN  IF after.raised THEN after
           ELSE [after EXCEPT !.took[item.signal] = item.value]

ClientWrite(request) ==
  /\ stage \notin {"stopped", "dead"}
  /\ writes < MaxWrites
  /\ writes' = writes + 1
  /\ LET w == FoldLeft(WriteItem, Work(Marked(request)), request)
     IN  /\ marks' = w.marks /\ node' = w.node
         /\ pushes' = w.pushes /\ accepted' = w.took
  /\ UNCHANGED <<stage, reg, up, poll, readings, lastWords, stateCode,
                 transition, changes>>

\* Gateway._push: a failure is logged, and the write is gone.
Push ==
  /\ stage # "dead"
  /\ pushes # <<>>
  /\ pushes' = Tail(pushes)
  /\ LET p == Head(pushes)
     IN  IF up
         THEN reg' = [reg EXCEPT ![p.signal] = p.value] /\ UNCHANGED accepted
         ELSE accepted' = [accepted EXCEPT ![p.signal] = Unknown] /\ UNCHANGED reg
  /\ UNCHANGED <<stage, up, poll, readings, lastWords, node, marks, stateCode,
                 transition, writes, changes>>

----------------------------------------------------------------------------
(* Poller.poll_once, then Gateway.publish of each result. *)

Current == Order[poll.at]

Advance ==
  poll' = IF poll.at < Len(Order) THEN [poll EXCEPT !.at = @ + 1]
          ELSE [doing |-> IF poll.doing = "read" THEN "publish" ELSE "read", at |-> 1]

\* One transaction.  A failed read is a result like any other.
ReadSignal ==
  /\ Alive
  /\ poll.doing = "read"
  /\ readings' = [readings EXCEPT ![Current] = IF up THEN reg[Current] ELSE Failed]
  /\ Advance
  /\ UNCHANGED <<stage, reg, up, lastWords, node, marks, pushes, stateCode,
                 transition, accepted, writes, changes>>

Confirmed(s) == IF readings[s] = Failed THEN Unknown ELSE readings[s]

\* A defect the runs must catch: a reading equal to the one before is not published.
BugPublished(s, dv) ==
  IF Confirmed(s) = lastWords[s] THEN Work(marks)
  ELSE [Work(marks) EXCEPT !.node[s] = dv]

\* write_attribute_value goes through the setter of a writable node.
Published(s, dv) ==
  IF s \in Writable
  THEN SetSignal(Work(marks), [lastWords EXCEPT ![s] = Confirmed(s)], s, dv)
  ELSE [Work(marks) EXCEPT !.node[s] = dv]

\* A defect the runs must catch: the server waits for a PLC before it serves.
BugAfterPublish(raised) ==
  IF raised THEN "dead"
  ELSE IF stage = "priming" /\ poll.at = Len(Order) /\ up THEN "running"
  ELSE stage

\* The first poll primes the server; the poll task starts from there.
AfterPublish(raised) ==
  IF raised THEN "dead"
  ELSE IF stage = "priming" /\ poll.at = Len(Order) THEN "running"
  ELSE stage

PublishSignal ==
  /\ Alive
  /\ poll.doing = "publish"
  /\ Current # StateSignal
  /\ lastWords' = [lastWords EXCEPT ![Current] = Confirmed(Current)]
  /\ LET w == Published(Current, IF readings[Current] = Failed THEN Bad
                                 ELSE Good(readings[Current]))
     IN  /\ node' = w.node /\ marks' = w.marks /\ pushes' = w.pushes
         /\ stage' = AfterPublish(w.raised)
  /\ Advance
  /\ UNCHANGED <<reg, up, readings, stateCode, transition, accepted,
                 writes, changes>>

\* A defect the runs must catch: an undeclared code is taken for a state.
BugHasState(code) == code # Failed

HasState(code) == code \in Declared

\* A defect the runs must catch: after an outage the first state is taken for the old one.
BugIsChange(code) == stateCode # Unknown /\ code # stateCode

IsChange(code) == code # stateCode

\* Gateway._publish_state: a code with no declared state is no state at all.
PublishState ==
  /\ Alive
  /\ poll.doing = "publish"
  /\ Current = StateSignal
  /\ lastWords' = [lastWords EXCEPT ![StateSignal] = Confirmed(StateSignal)]
  /\ LET code == readings[StateSignal]
     IN  IF HasState(code)
         THEN /\ node' = [node EXCEPT ![StateSignal] = Good(code)]
              /\ stateCode' = code
              /\ transition' = IF IsChange(code)
                               THEN [to |-> code, stamps |-> transition.stamps + 1]
                               ELSE transition
         ELSE /\ node' = [node EXCEPT ![StateSignal] = Bad]
              /\ stateCode' = Unknown
              /\ UNCHANGED transition
  /\ stage' = AfterPublish(FALSE)
  /\ Advance
  /\ UNCHANGED <<reg, up, readings, marks, pushes, accepted, writes, changes>>

----------------------------------------------------------------------------
(* The server's life, and the PLC's. *)

\* The listener is open before this: run() serves first and connects second.
Connect ==
  /\ stage = "connecting"
  /\ stage' = "priming"
  /\ UNCHANGED <<reg, up, poll, readings, lastWords, node, marks, pushes,
                 stateCode, transition, accepted, writes, changes>>

\* stop(): the poll task is cancelled and the link closed under any push.
Stop ==
  /\ stage = "running"
  /\ stage' = "stopped"
  /\ up' = FALSE
  /\ UNCHANGED <<reg, poll, readings, lastWords, node, marks, pushes,
                 stateCode, transition, accepted, writes, changes>>

Happens == stage # "stopped" /\ changes < MaxChanges /\ changes' = changes + 1

\* The PLC, or another master, changes what a signal's registers hold.
RegisterChanges(s) ==
  /\ Happens
  /\ up
  /\ \E v \in Words[s] \ {reg[s]} : reg' = [reg EXCEPT ![s] = v]
  /\ accepted' = [accepted EXCEPT ![s] = Unknown]
  /\ UNCHANGED <<stage, up, poll, readings, lastWords, node, marks, pushes,
                 stateCode, transition, writes>>

PlcGoes ==
  /\ Happens
  /\ up
  /\ up' = FALSE
  /\ UNCHANGED <<stage, reg, poll, readings, lastWords, node, marks, pushes,
                 stateCode, transition, accepted, writes>>

\* It comes back restarted, or (a cable, not the PLC) as it was.
PlcComes ==
  /\ stage # "stopped"
  /\ ~up
  /\ up' = TRUE
  /\ \/ UNCHANGED <<reg, accepted>>
     \/ reg' = Boot /\ accepted' = [s \in Signals |-> Unknown]
  /\ UNCHANGED <<stage, poll, readings, lastWords, node, marks, pushes,
                 stateCode, transition, writes, changes>>

PollStep == ReadSignal \/ PublishSignal \/ PublishState

GatewayNext ==
  \/ Connect \/ Stop \/ PollStep \/ Push
  \/ \E request \in Requests : ClientWrite(request)
  \/ PlcGoes \/ PlcComes
  \/ \E s \in Signals : RegisterChanges(s)

GatewaySpec == GatewayInit /\ [][GatewayNext]_gatewayVars

\* The loop runs its tasks: the poll goes round and a push gets the lock.
GatewayFairSpec ==
  GatewaySpec /\ WF_gatewayVars(Connect) /\ WF_gatewayVars(PollStep)
              /\ WF_gatewayVars(Push)

----------------------------------------------------------------------------
(* Properties. *)

GatewayTypeOK ==
  /\ stage \in {"connecting", "priming", "running", "stopped", "dead"}
  /\ reg \in [Signals -> AllWords] /\ up \in BOOLEAN
  /\ poll \in [doing : {"read", "publish"}, at : 1 .. Len(Order)]
  /\ readings \in [Signals -> AllWords \cup {Unknown, Failed}]
  /\ lastWords \in [Signals -> AllWords \cup {Unknown}]
  /\ node \in [Signals -> [value : AllWords \cup {Unknown, Zero, TooLarge},
                           status : {"Good", "Bad"}]]
  /\ marks \subseteq Writable
  /\ pushes \in Seq([signal : Writable, value : AllWords])
  /\ stateCode \in Declared \cup {Unknown}
  /\ transition \in [to : Declared \cup {Unknown}, stamps : Nat]
  /\ accepted \in [Signals -> AllWords \cup {Unknown, TooLarge}]
  /\ writes \in 0 .. MaxWrites /\ changes \in 0 .. MaxChanges

(* server.py:40, "not stale-but-Good": once the gateway is primed, a node  *)
(* reads Good exactly while the registers behind it are confirmed, and no  *)
(* client write can turn a node Good that the last poll could not read.    *)
GoodIffConfirmed ==
  stage = "running" =>
    \A s \in Plain : node[s].status = "Good" <=> lastWords[s] # Unknown

(* server.py:431-433: an accepted write is not "quietly dropped", and not  *)
(* undone by the poll either: once it has had its turn on the link, the    *)
(* PLC holds the last value the server took from a client, unless another  *)
(* master, a restart or a failed push came after it.                       *)
AcceptedReachesPlc ==
  \A s \in Writable :
    /\ accepted[s] # Unknown
    /\ \A i \in DOMAIN pushes : pushes[i].signal # s
    => reg[s] = accepted[s]

(* server.py:111-113: only a client's write goes to the PLC.  The poll     *)
(* never writes back what it has read, however requests fall between its   *)
(* steps.                                                                  *)
PollNeverWrites == [][PollStep => pushes' = pushes]_gatewayVars

(* CurrentState and LastTransition agree: whatever outages and undeclared  *)
(* codes came between, the state shown is the one the last recorded        *)
(* transition leads to.                                                    *)
TransitionExplainsState ==
  node[StateSignal].value \in Declared => transition.to = node[StateSignal].value

(* A gateway whose PLC stays up ends with every node showing what the PLC  *)
(* holds: nothing a client or an outage did earlier sticks.                *)
Shows(s) ==
  IF s = StateSignal /\ reg[s] \notin Declared THEN node[s] = Bad
  ELSE node[s] = Good(reg[s])

NodesCatchUp ==
  <>[](up /\ stage = "running") => <>[](\A s \in Signals : Shows(s))

(* server.py:464-466, "a gateway whose PLC is down is still a gateway":    *)
(* startup ends, whether or not there is a PLC to read.                    *)
Starts == <>(stage \in {"running", "stopped"})

(* What the code's documents claim, and the runs refute.                   *)

\* server.py:464-466 again, for any request a client may send: the gateway
\* does not end because its PLC is down.
OutageIsSurvived == stage # "dead"

============================================================================

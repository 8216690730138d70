# A verification of the OPC UA mock plant

TLA+ models of the plant in `src/`, the TLC runs that check them on small
instances, and theorems about them checked by TLAPS. Paths such as
`scan.py:96` are below `src/src/`.

The plant is five processes. A **PLC** steps a conveyor belt and a CNC cell on a
10 ms scan and serves its registers over Modbus TCP. A **gateway** polls it
every 100 ms, serves the values over OPC UA, and turns method calls and writes
back into Modbus. A **client** subscribes, writes setpoints and issues commands. A
**rogue** is a second Modbus master on the same registers. The fifth creates
certificates and then exits. Each of the others is one asyncio loop, so what can
interleave is what lies between two `await`s; that is the grain of every
action here.

## 1. Inventory

| part | state it keeps | operations | speaks to |
|---|---|---|---|
| conveyor, CNC (`machine/`) | speed, position, running, fault; state, elapsed | `step`, `start`, `reset`, `fault` | called by the scan |
| scan (`plc/scan.py`, `image.py`) | image tables, last ack, watchdog | `execute`, `run` | machines; image tables shared with Modbus |
| Modbus server (`plc/modbus_server.py`) | registers, connections | read, write, connection limit | every master |
| link and poll (`gateway/poller.py`) | one connection, one lock | `read_signal`, `read_block`, `write_block`, `write_signal`, `poll_once` | Modbus server; publishes to the server |
| handshake (`gateway/commands.py`) | `_issued` | `invoke` | the link, under its lock |
| OPC UA server (`gateway/server.py`) | nodes, `_last_words`, `_external_writes`, `_last_state_code`, pushes | `run`, `stop`, `publish`, `_set_signal`, `_mark_external_write`, `_push`, `_invoke` | poll, handshake, clients |
| second master (`rogue/`) | its number | `write_signal`, `command` | Modbus server |
| controller (`client/controller.py`) | session, nodes, sink, `_reported`, reconnection task, `_closing` | `connect`, `watch`, `disconnect`, `report`, `write_setpoint`, `command`, `history` | OPC UA server |
| contract (`contract/`) | none after loading | load and check, encode, decode | everything |
| PLC process (`plc/__main__.py`) | the scan task, the connections | `main`, `_run_scan` | shares one thread between scan and masters |
| security (`security/`) | trust list, loaded once | provision, validate | gateway, client |
| pulse latch (`plc/pulse.py`) | one bit | nothing sets it | dead code |

What is hard here, and which properties make each part correct:

* **Scan.** Masters rewrite registers between any two scans; a command stands in
  its block for ever and must act once; the scan can end while the Modbus server
  goes on answering. *Correct means*: bounded change of speed, an ack exactly for
  what was done, the cycle to its end, every command answered while the scan lives.
* **Handshake.** Several calls, one lock, a number read in one transaction and
  used in another, a transport that repeats a request of its own accord, a
  second master, restarts of both ends, numbers that wrap. *Correct means*: an
  answer is the answer to this command; no command acts twice; a refused one
  not at all; no false alarm and no missed stranger; every call returns.
* **OPC UA server.** One setter serves the poll and the clients, and a mark set in
  another callback tells it which. *Correct means*: Good exactly while confirmed;
  an accepted write reaches the PLC, a poll never does; transition and state
  agree; the nodes catch up after anything.
* **Controller.** A background task rebuilds the session under the caller's feet.
  *Correct means*: the view comes back; disconnecting is final; requests go to nodes
  the gateway still has; the deadband hides nothing for ever and starts afresh
  with each subscription.
* **Contract and tables.** Five processes agree on registers only through one file,
  a check that compares neighbours, and two halves of a codec; any master may ask
  for any range with any function code. *Correct means*: what the loader lets
  through keeps signals apart, and then each signal is what was last written to it.
* **The PLC's thread.** Scan and masters share one loop; a late scan keeps the masters
  waiting, busy masters make it late. *Correct means*: one scan for each period, late
  ones made up; requests seen soon; the connection limit kept and no place lost.

`PROJECT.json` lists the components with their status and every hazard at
its line, with the properties that would catch it.

## 2. Modules

    Machine <- Plc <- Handshake --implements--> CommandService
                         (INSTANCE ... WITH, property KeepsPromise)
    Contract <- ImageTable
    PlcLoop --implements--> Metronome
                         (INSTANCE ... WITH, property KeepsThePeriod)
    Gateway      Controller
    PlcProofs, HandshakeProofs, ServiceProofs, ContractProofs, ImageProofs,
    LoopProofs, ControllerProofs, GatewayProofs: the theorems
    MCPlc, MCHandshake, MCGateway, MCController, MCImageTable, MCPlcLoop:
    instances for TLC

Operators named `Bug...` are defects a run is known to catch. Nothing refers to
them in the specifications; each one stands before the definition it is a
faulty version of.

**Machine** (`machine/conveyor.py`, `cnc.py`, the clamp of `scan.py`): pure
operators, one per method. Time is counted in scans and speed in a unit as fine as
one likes (a fraction of the register's 0.001 m/s), so that the slope
`max_speed / ramp_time * dt` is a whole number to within one unit (`MaxDelta`). With a
coarse unit the slope of a long ramp is 0 where the code's float is small but
positive; only `SpeedSettles` minds, and its instance is fine enough by an assumption of
its own (`FineEnough` in MCPlc). NaN is a value of its own because `min(max(x, a), b)` lets it
through: that is the one fact about floats the properties depend on.

**Plc** (`plc/scan.py`, `image.py`, `modbus_server.py`, `__main__.py`): `params`,
`cmd`, `ack` and `input` are the registers. `ScanBody` is all of `execute()`:
read, clamp, handshake, outputs, machine steps and the publication of what the
machines were *before* the step. `Overrun` is a scan that trips the watchdog and
is the last; `ScanCrash` is `encode()` raising on a NaN speed. `PlcRestart`
forgets everything. `MasterWrite` is a second master unrestrained: any value,
code and number, and any ack of its own over the PLC's (`Forged`; `src/README.md:116-123`). A command carries an `id` that is not on the wire, so that
properties can say *whose* command an ack answers, and `handled` records the ids
carried out since this PLC started.

**Handshake** (`gateway/commands.py`, `ModbusLink`, `Gateway._invoke`,
`rogue/master.py`), on top of Plc. A call goes
`idle, readAck, gotAck, sendCmd, sentCmd, pollAck, gotPoll, sleep`. A transaction
is two actions: `Serve...` (the lock is taken and the PLC answers) and what the
call does with the response. In between the PLC scans, the other master writes,
and the response may get lost: `Resend` is pymodbus's one retry, `GiveUp` its
giving up. A request that never reaches the PLC is `GiveUp` before `Serve`. `broken`
says that the connection under a transaction is gone (the PLC was restarted), after
which it can only be resent or given up. `CaughtUp` guards the expiry of any
timeout: a scan takes 10 ms and runs on the loop that also serves Modbus, and the
timeouts are 1 s, so a *living* scan has handled what stood in the block (`SeenSoon` of PlcLoop); a
command that is written later can just as well be written after the expiry. A
dead scan is not covered by it, and that is when commands do time out. The other
master counts on from the PLC's ack as `rogue/master.py` does.

**CommandService**: what the gateway's methods promise, with no registers in it:
tickets, one mailbox, a machine that takes a ticket at most once in its life, a
refusal that never was sent. `Exclusive` (one call at a time, no other master) is
the condition under which an answer proves that the ticket was taken.

**Gateway** (`gateway/server.py`, `Poller`): a poll is one transaction per signal
(`ReadSignal`) and then one publication per reading (`PublishSignal`,
`PublishState`), with client writes, pushes and outages between any two. A client's
Write request is one action because asyncua serves its items one after the other
without yielding: `Marked` is the PreWrite callback, `SetSignal` the setter.
Values are the words they encode to, with two that never get that far:
`mistyped` (asyncua refuses it before the setter) and `tooLarge` (`encode` raises
in the setter). `accepted` is history: the last value taken from a client and
not since overwritten in the PLC by somebody else, a restart, or lost in a
failed push.

**Controller** (`client/controller.py`): two flows of control, `at.caller` and
`at.task`, take the same steps of `connect()` and `watch()`. `ConnectionLost` is
asyncua's callback, once per lost session, at any moment after the loss; `TornDown`
is `_quiet_disconnect`, which drops session, subscriptions and notifications under
way; `Deliver` is `datachange_notification` with `report()`. The gateway may come back
under another namespace index. `heard` and `shown` are history.

**Contract** (`contract/`): no state, only what the code computes. `Valid` is
`load_contract` check by check; its overlap check is the code's, a sort and a
comparison of neighbours (`Neighbours`), and `WellFormed` says without either what
it is for. `Encode` and `Decode` are the codec for every type: scaling and Python's
rounding, the range, two's complement, byte order, word order. A byte counts to
`Base`, so TLC can run it with registers of two bits and the proofs with any. A value
is counted in fractions of a register unit (`scale` of them), so that rounding
is arithmetic on whole numbers.

**ImageTable** (`plc/modbus_server.py`, `scan.py`, `poller.py`, `rogue/master.py`): the
PLC reads a contract file (`Load`: refused, or tables laid out and the ramp time seeded),
and then serves `ForeignRequest` (any function code, range and words; for FC23
`ForeignReadWrite`, a write and then a read of two ranges, each with its own check),
`WriteSignal` and `WriteCommand` (the masters that know the contract),
`ReadSignal` (the poll) while the scan publishes. `held` is history: the value each
range was last given by name, or nothing once registers were written over it as
registers. `astray` is history too: the signals outside the holding table that a master
has written by name, which went to holding registers (`Struck`: they, and whatever range
lies there).

**PlcLoop** (`plc/scan.py` `run`, `plc/__main__.py`, `plc/modbus_server.py`): the one
thread. `Collect` is one round of asyncio's loop; `Handle` serves one connection in
it, `Wake` ends the sleep, last in its round. A scan that is late goes on without
giving the loop back. `slack` is the time to the next deadline, and
`ahead` the time scanned less the time passed: kept relative, so the
instance has no last moment. A connection is `dialling`, then `accepted` or `rejected` by the
factory, then `open`; a rejected one is closed when its turn comes, and counted until then.

**Metronome**: the promise of `run()` without clocks. `owed` periods have begun and
not been scanned; a scan takes one away and never one that is not there.

**Modelled from use, not from source.** asyncua and pymodbus are not in the
repository. Assumed of asyncua: a Write request is served item by item without
yielding; a value of the wrong type is refused before the setter; an exception from
a setter ends the request, and comes out of `write_attribute_value` when the poll
made the call; a new subscription first sends every item's value, then each change
in order; a request on a lost session raises at once; `disconnect` ends the
session's deliveries; the callback fires once per lost session. Assumed of
pymodbus: one retry of the identical request, then an exception; a connection counts
as active from the factory's return until it is closed. Assumed of asyncio: a round
runs what was ready when it began, and timers after the connections.

## 3. Runs

Passing runs. Deadlock is checked in the two PLC runs; in the others the
behaviours are finite by their bounds (calls, writes), or the gateway or
the caller stops for good, so it is not.

| run | shows | bounds |
|---|---|---|
| `plc_conveyor` | `RampRespected`, `SpeedSettles` (and types) for a belt under any master | ramps shorter than, inside and longer than the clamp, and 0; START and STOP; a forged ack |
| `plc_cnc` | `OnlyCommandsSwitch`, `CycleCompletes`, `RefusalChangesNothing`, `CommandsAreAnswered` for the cell and the belt's switch | all four commands and a code that does not exist; a forged ack; two faults of any kind (machine, overrun, restart); durations of 1 and 2 scans; NaN |
| `handshake_solo` | `AckProvesOurs`, `NeverTwice`, `AnswerStands`, `KeepsPromise` (and types) for a sole caller | 4 calls and 3 faults of every kind; numbers wrap after 2 |
| `handshake_rogue` | `NoFalseAlarm`, `StrangerIsNoticed`, `KeepsPromise` against the other master | 4 calls, 3 foreign commands, 1 fault; numbers do not wrap |
| `handshake_live` | `KeepsPromise`, `EveryCallReturns` for two calls at once | 2 callers, 2 calls, 3 faults |
| `gateway_serve` | `GoodIffConfirmed`, `AcceptedReachesPlc`, `TransitionExplainsState`, `PollNeverWrites`, `NodesCatchUp`, `Starts` (and types) | 2 writes, 2 changes or outages (the PLC's return is not counted) |
| `controller_reconnect` | `DriftIsSeen`, `ClosedStaysClosed`, `NodesAreCurrent`, `FirstIsNews`, `ViewCatchesUp` (and types) | 3 changes, 2 outages, 2 namespace indices |
| `image_table` | `LoadedIsSound`, `EachHoldsItsOwn`, `PollReadsIt` (and types) | 200 contract files, registers of two bits, 3 writes |
| `plc_loop` | `WithinLimit`, `SeenSoon`, `KeepsThePeriod`, `GetsIn` (and the deadline's range) | 3 masters on 2 places; a period of 3, scans of 1, 2 and 4, a stall of 7 |

Why these are enough to be worth having:

* *PLC.* Nothing is counted but faults and the position, which saturates; masters
  write for ever. One number more than the 0 of a fresh PLC and its successor makes
  every relation between `cmd.seq` and `ack.seq` occur.
* *Handshake.* Four calls with `SeqMax = 2` wrap the numbers, so stale acks that
  happen to match are reached. Three faults are a tripped watchdog, then a lost
  response, then a restart of either end, in any order. The stranger run needs
  `SeqMax = 8` since a number that goes all the way round is, rightly, not noticed.
* *Gateway.* Two writable signals and the state signal stand for the contract's
  five: the properties relate at most two signals. Two changes let an
  outage and another master's write fall in one poll, with the PLC's return, as
  often as it is gone, between them. The passing run uses what
  this repository's client sends, one value per request; the violation run shows
  what another request does.
* *Controller.* Values 0, 1, 2 with a deadband of 2 hold the shortest drift: two
  moves of noise that add up to news. Two outages reconnect twice, which is what a
  guard that forgets `.done()` fails on. Its type invariant says that a session
  has at most two subscriptions.
* *Image table.* Three signals and the two blocks lie before, inside, against and
  behind each other in every order of the file, in up to three tables; both
  word and byte orders with 32-bit values whose bytes differ; halves that round to
  even both ways; values that just do not fit. After `Load` two writes suffice
  for one to disturb the other, and a third may go astray before or between them. That longer contracts, wider registers and more
  writes change nothing is what the proofs show.
* *PLC loop.* A stall of more than two periods makes scans follow one another
  without a sleep; three masters on two places can all be on their way in before
  the first is established. Behaviours are endless, as times are relative.

Some properties state their conditions, and why: `StrangerIsNoticed` says nothing
when the masters overlapped (both may read the same ack, and then nothing on the
wire tells them apart), nor across a wrap. `NeverTwice` for *two* callers
holds without another master; with one, a lost write response and a resend can
carry a command out again, so `handshake_rogue` neither loses write responses nor
claims it. `NoFalseAlarm` holds only under `HearsOfIt` (one caller, no write response
lost, a scan that is not overrun): otherwise the code raises alarms nobody caused (below);
and a restart of the PLC, which leaves the same gap, counts as an intrusion. `EachHoldsItsOwn` and
`PollReadsIt` except what a write by name gone astray has struck (`Struck`); without the exception
TLC refutes the first. A timeout is taken to be later than the scan that follows what was served
(`CaughtUp`), and a request given up is taken not to be served afterwards (`GiveUp`), so
`NeverTwice` and `AnswerStands` say nothing of a process stalled for about a second; `SeenSoon`
supports this in the loop's own time, and a stall comes on top of that. `FirstIsNews` is about a session with one subscription.
`AcceptedReachesPlc` is about requests of one value. `GoodIffConfirmed` is about a gateway past its first poll.
`NodesAreCurrent` excludes the making of a connection. `PollReadsIt` is
about the two tables the link has a reader for. `GetsIn` assumes room and that, from
some time on, nobody else is dialling. A scan of exactly one period is excluded by `LoopAssumption`: the
watchdog compares with `>` (`scan.py:178`), such scans would go on, and
once late never sleep again, so that no master would be served. On a real clock an exact
tie does not last.

Violation runs. Each one is a sentence of the repository the code does not keep;
`PROJECT.json` quotes it under "findings".

| run | what happens |
|---|---|
| `plc_nan` | A ramp time of NaN passes the clamp, poisons the speed, and the next scan's `encode()` raises: the scan task is gone, Modbus still answers. |
| `handshake_dup` | Two calls in progress read the same ack, take the same number and overwrite each other; the one ack is returned to both. |
| `gateway_mark` | A write refused for its type leaves its mark. At the next outage the poll's Bad value is taken for a client's, the setter raises in the poll task, and the gateway ends. |

Seen while modelling, without a run of their own:

* The other master may count on from the very ack the gateway's call counts on from,
  so an ack with the right number can be the answer to its command
  (`rogue/master.py:50`); two concurrent calls of a lone gateway, or a command that
  timed out on a stopped scan, make the next call report contention
  (`commands.py:31-32`, `test_contention.py:173-175`).
* A call whose write response was lost ends with the status described as the
  PLC never having heard it (`server.py:343` against `331-333`).
* A mark left behind while the PLC is up makes the next poll push the value it has
  just read (`server.py:436` against `112-113`), and a node without a declared state
  resets the code a transition is measured from, so the same state is stamped again
  after an outage (`server.py:387` against `118-121`).
* Before the first poll the nodes show zeros as Good (`server.py:286`).
* One Write request that names a node twice marks it once (`server.py:437`): the second
  value is accepted as Good, shown, and never sent.
* A setpoint that is NaN or infinite raises in `round()`, not in `struct.pack`, so it is
  not the `BadOutOfRange` of `server.py:445`.
* A signal of another table than the holding registers is written, by name, into the
  holding registers at its address (`rogue/master.py:37-39`, `server.py:454`), whosesoever they
  are, and one of the coils or discrete inputs is read from there (`poller.py:58-63`). In this
  contract the PLC's signals are input registers, no holding register lies at their
  addresses, and no program of the repository writes them; there are no coils or discrete inputs.
* A FC23 whose read half is refused has carried out its write (`modbus_server.py:24`, `52-75`):
  the master is told of an error although registers have changed.
* A refused master is counted until it is closed, so one that comes in the same
  moment can be refused although there is a place (`modbus_server.py:103`).
* A `watch()` of the caller's between a reconnection's `connect()` and its end
  leaves two subscriptions on one session: each change is delivered twice
  (`controller.py:248-251`). The model reaches it.

## 4. Fairness

* **PLC**: weak fairness of a scan step. `Plc.run` reschedules itself every
  period while it lives; nothing is assumed of masters. `CycleCompletes` and `CommandsAreAnswered`
  therefore name the end of the scan as their exception.
* **Handshake**: weak fairness of scans, of acting on a response, of noticing a broken
  connection and of waking from the poll's sleep: all are work the loop has
  ready. Strong fairness of `Serve`, because `asyncio.Lock` is first come first
  served, so a call that waits again and again gets its turn. Strong fairness of
  `Timeout`: the deadline is a time on a real clock, and polling does not
  postpone it. Nothing is assumed about faults, callers or the other master.
* **Gateway**: weak fairness of connecting, of the poll, and of pushes: tasks of one
  loop (the same run checks the safety properties). Outages are not fair, so `NodesCatchUp` is conditional on the PLC
  staying up.
* **PLC loop**: weak fairness of the scan task and of the loop's rounds: one thread
  that runs whatever is ready. A master that is `Persistent` (the gateway, by pymodbus's
  reconnection) dials whenever it is out; nothing is assumed of the others, or
  of what anybody asks. Stalls of the machine are bounded.
* **Controller**: weak fairness of what the loop has ready: answers, the callback,
  the task, deliveries. Neither what the caller asks nor the gateway's return is
  fair; `ViewCatchesUp` is conditional on a gateway that stays up.

## 5. Proofs

The constants are arbitrary within the named assumptions of each module
(`MachineAssumption`, `PlcAssumption`, `HandshakeAssumption`, `BaseAssumption`,
`ImageAssumption`, `LoopAssumption`, `ControllerAssumption`, `GatewayAssumption`), the number of
callers, calls, faults and the width of numbers included.

**PlcProofs.** `PlcTypeCorrect` is an inductive invariant as it stands, once the
operators of Machine are shown to keep their types (`ClampedRamp`, `SlopeIsNat`,
`ConveyorStepType`, `CncStepType`). `RampIsRespected` (assuming no master writes
NaN) needs an invariant of its own, `NumbersOnly`: no NaN anywhere in the registers
or the belt. Then `SteepestSlope` (`max_speed \div ramp` is largest at the
shortest ramp) bounds each step. `OnlyNaNEndsTheScan` is the same invariant: under
the same assumption the scan never crashes, so the violation run shows the
only way. `CommandsAreEdges` rests on `IdleScan`: a scan with nothing pending drives
the machines with what they had. `RefusalsAreHarmless` follows from the types and
from a refused command not being obeyed. The ranges of the ramp and of `max_speed` are
arbitrary, and masters may forge any ack.

**HandshakeProofs.** `HTypeCorrect`, for any number of callers and with the other
master. The rest goes from the sole caller to many and to strangers; every inductive
invariant below was first checked by TLC on small instances.

- *The sole caller's answers* (`Sole`: one caller, no other master). `AnswersAreOwn` is
  not inductive: what an ack proves depends on the ack the call counted on from
  still being the PLC's. `SoloInv` adds: ids in the PLC are of calls already made
  (`IdsKnown`); while a call has posted nothing the PLC has caught up and the ack can
  only fall back to 0 (`FreshBefore`); once it has posted, the block holds this command
  or, after a restart, nothing, and if it has been carried out the ack says so
  (`OwnPosted`), which is why a resent write is no news to the scan; and a poll
  that ends the call has read this command's ack (`OwnPoll`).
- *The promise, for any number of callers.* `CommandsRunOnce` and
  `HandshakeKeepsPromise` rest on `PromiseInv`: what has not been sent is nowhere in the
  PLC (`NotSent`); between the first copy of a write and the last the link is held
  (`LinkHeld`), so the block still holds that command, or a restart has lost it
  (`BlockIsKept`, `LostToRestart`). The refinement is then one lemma per kind of step:
  which phase of CommandService each program counter stands for (`PhaseIs`), and each
  action a Request, Take, Return, restart or stutter. They assume `SafeToResend`: no other
  master, or no write response lost. It cannot be left out: with both, the other
  master moves the ack between the two copies of one write and TLC shows the command
  carried out twice (the run `handshake_rogue` has no "lostWrite" for that
  reason; the hazard is listed). `RefusedNeverReachesPlc` comes from the promise alone, by
  `RefusedIsNeverTaken`: the use an abstract specification is for.
- *What was told of the belt.* `AnswersStand` (`Sole`) needs `BeltInv`: from the scan that
  carried a command out the belt is as it says, and only a command not yet posted can
  change that.
- *The alarm, with another master.* `AlarmsAreTrue` counts, for each stage of a call,
  the intrusions that its next refusal is covered by (`AlarmsCovered`); `StrangersAreNoticed`
  shows that while nothing overlapped, a stranger's number is ahead of the last one issued
  by at most what the stranger wrote (`StrangerInv`), so it cannot be the next expected
  one as long as `MaxRogue <= SeqMax`; a stranger that goes all the way round the
  65535 numbers between two calls is not noticed by the code either. Both are about
  `HearsOfIt`: one caller, no write response lost, a scan that is not overrun; `NoFalseAlarm` states
  it itself, so that `AlarmsAreTrue` has no hypothesis. Each is
  needed: a gateway that did not hear its own write succeed does not record the number
  and takes its own command for a stranger's, a stopped scan leaves its command
  unanswered, and two callers contend with each other.

**ServiceProofs.** `RefusedIsNeverTaken`, of CommandService for any number of
clients, assuming only that "Contended" is not one of the machine's own answers.
The strengthening is that tickets are handed out once (`Numbered`), and that a call
which has sent nothing is neither in the mailbox nor taken (`UnsentStaysOut`).

**ContractProofs.** `NeighboursSuffice`: the loader compares neighbours only, and
that finds every overlap, for any number of ranges; behind any range of a table that
has another after it there is a nearest (`NextNeighbour`), which starts no later.
`LoaderIsExact` puts the checks together: `Valid` is `WellFormed` for every parsed
file. `CodecRoundTrip` and `EncodeRepresents`: decoding what was encoded gives
the number back, and the value to within half a unit, for every type, scale, order
and `Base`; they rest on division with remainder being unique (`DivModUnique`), on byte
swaps undoing themselves, and on two's complement doing so within its range.

**ImageProofs.** `EachHoldsItsOwn` is not inductive: a word stored at an address that
is not there would not be found again, and in overlapping ranges another's
would be. `IInv` adds the tables' type and that a contract which is served is valid,
hence, by `LoaderIsExact`, well formed, hence its ranges are apart. `RegistersHere` and
`RegistersElsewhere` say what a stored range changes and what not; `RequestKeeps` does
any raw write of any master, well or ill addressed. A write by name to a signal of the holding
table gives that signal its value (`SignalTakesValue`) and disturbs no other range
(`WrittenElsewhere`); one that goes astray disturbs only what is struck from then on. From `IInv` follow
`ImageTypeCorrect`, `LoaderIsSound`, `SignalsAreTheirOwn` and `PollsAreReadings`. What is assumed of the contracts is that they have a ramp
signal whose type can hold the belt's initial ramp time, and that values are numbers.

**LoopProofs.** `LoopTypeCorrect` needs `DeadlineIsAhead` (before a scan the deadline
is the end of its period, after it the end of the one scanned) and that the timer is due only
in a sleep that is over. With them every step is one of Metronome's or a
stutter (`ScansArePeriodic`); that late scans are made up is liveness and stays with
`KeepsThePeriod` in TLC. `ConnectionsAreLimited` is inductive, because whoever is let
in is counted. `RequestsAreSeen` needs to know where the loop is in its round: a request that
waits has waited for the part of the period that is over, then for those already
handled, and once the timer has fired for one more round (`Waited`). It assumes that
there is a longest event, which any finite set of times has.

**ControllerProofs.** `ClosingIsFinal` needs that closing is the caller's alone and leaves
no task (`ClosingIsAlone`); `RequestsFindTheirNode` that an open session is with a gateway that is
up, whose index therefore stays (`OpenIsUp`); `DriftsAreSeen` that what is
remembered is what was shown (`RememberedIsShown`): only then does measuring from the one bound the
distance to the other. `ControllerTypeCorrect` bounds the subscriptions of a session by
what the two flows may each still do: the caller subscribes once in its life, and between two
of the task's the session is torn down (`Subscribed`). `FirstValuesAreNews` says what is on the
wire before the first values have been delivered: only first values, and nothing remembered of
their signals but themselves (`FirstsAhead`).

**GatewayProofs.** For *any* Write requests: `GatewayTypeCorrect` and
`TransitionsExplainStates` (`StateInv`: a state shown is the last code published, and the
last transition led there). A request is a fold over its items, and the prover has no
induction for folds; so its recursive function is constructed, one index at a
time (`FoldExtends`), for a request of any length, which takes the least-number principle
for a set (`UpTo`, from the library's well-foundedness of `<`). `RequestKeeps` then says what
every item leaves as it was. For requests of *one value of its signal's type*
(`OneValueEach`, what `write_setpoint` of this repository's client sends): no mark
outlives its request (`Unmarked`), and from that follow `PollsNeverWrite`,
`OutagesAreSurvived`, `GoodMeansConfirmed` (`GoodInv`: what is published has been read,
and during the first poll the nodes it has done fit) and `WritesReachThePlc`
(`Standing`: the value that stands for a signal is its last queued push, or has
arrived). For other requests these are false of the code, not only unproved: a value of another type
leaves its mark (`gateway_mark`), and so does one that comes after a refused value.

**Only model-checked**: all liveness (`SpeedSettles`, `CycleCompletes`, `CommandsAreAnswered`,
`EveryCallReturns`, `NodesCatchUp`, `Starts`, `ViewCatchesUp`, `GetsIn`, and the catching up in
`KeepsThePeriod`), which is outside what the prover does. Every safety property of a
passing run is stated by a theorem; where the theorem has a hypothesis (`SafeToResend`,
`HearsOfIt`, `Sole`, `OneValueEach`, no NaN written) the run's constants satisfy it too.

## 6. Not modelled

* A forged ack against the *gateway* (`src/README.md:116-123`). Plc has it (`WriteAck`); the
  other master of Handshake is `rogue/master.py`, which does not write the ack block, and
  whoever does decides what a call is told: no property of the handshake could hold.
* A scan later than a call's timeout, and a request served after its client gave it up:
  both take a PLC process stalled for about a second (`CaughtUp`, `GiveUp`).
* Address space building, history storage, accounts: calls into
  libraries, with no state of this code's own.
* Certificates: a sequence of calls into a generator and the file system. What is
  there after a crash or a second run is decided by that generator, which is not in the
  repository; validation is one call with a trust list loaded once.
* Which float the 32 bits of a `float32` stand for, and a `float32` with a scale.
* The pulse latch: dead code.
* The setpoint is not limited to `max_speed` (`scan.py:90`); the models keep that,
  and no property says otherwise because no document does.

## 7. Plan

Done first, because the rest of the plant relies on them: the PLC and the handshake
with its abstract service, then the server's nodes and writes, then the
client's reconnection; after these the contract, its codec and the tables, and the
PLC's loop with its promise.

Then the proofs of section 5. What is left:

1. A stronger `StrangersAreNoticed` for calls that overlap with the other master:
   what the code promises then is weaker and has to be stated first.
2. `Gateway` for requests of several well typed values: what survives of
   `GoodIffConfirmed` when one of them is refused and the rest stay marked.
3. `Metronome`'s catching up and the other liveness properties stay with TLC.

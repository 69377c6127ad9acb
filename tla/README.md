# EiT-lastebil: specifications

The repository is the firmware of model trucks and their remote controls: nRF52
boards that talk over Nordic's proprietary radio (Enhanced ShockBurst, no
auto-acknowledge). A remote drives one car; two cars can form a *truck pool*, in
which a slave keeps its distance to a master. The application code is under
`src/rc-car/CODE/DUMMY_FOLDER`; the rest of the repository is a vendored Nordic SDK.

There is no written specification. What the project states as correct comes from
the comments of the code (quoted in `PROJECT.json` where the code disagrees), and
from what a truck on a floor must not do.

## Inventory

| Part | State it keeps | Operations | Hard because |
|---|---|---|---|
| Car, `rc_car_propritary/main.c` | `STATE`, `NEXT_STATE`, `my_id`, `remote_msg`, `car_msg`, three flags | super-loop: wait for a message, run the body of the state, answer; radio event handler | handler and loop share every variable without locks; each wait has its own time-out and its own flag |
| Remote, `rc_remote_propritary/main.c` | `STATE`, `NEXT_STATE`, `remote_msg`, `car_msg`, `receive_ack` | select channel, advertise, sample and send, resend; radio event handler | retries against lost, late and old answers |
| Radio driver, `nrf_esb.c` as used | two FIFOs, main state, handler pointer, event flags, last packet; the radio's registers | `init`, `disable`, `start_rx`, `stop_rx`, `write_payload`, `read_rx_payload`; two interrupt handlers | main, two interrupts and the radio share everything; few sections are masked; every turn of mode resets the driver around a working radio |
| The air between the nodes | last packet of each receive session | delivery, loss, duplicate filter | half duplex: a node hears nothing while it sends; `esb_init` forgets the last packet and restarts the ids |
| Message conversion, `framework/rc_utilities.c` | payload bytes that survive from message to message | convert, extract | car frames write 2 of 11 bytes |
| Steering and motors, `rc_steering.c`, `rc_motor.c` | PWM values, direction pins, the loop's speeds and directions | `steering_speeds`, `set_motors` | mixed signed, unsigned and floating arithmetic; pins change under PWM, in an order that depends on the command |
| Distance keeping, `rc_ultrasound.c`, `rc_filter.c`, `rc_controller.c` | SysTick, Kalman state, integral | measure, filter, control | counter wrap, busy waits, anti-windup |
| Joystick, buttons, LEDs | none | sample | - |
| Bench programs | - | `slave_test_main.c`, `rc_unit_test.c` | no project file builds the first; the others only run motors |

How they interact. A round between a remote and its car is: the remote writes a
frame and turns to receive mode; the car's handler stores it and sets a flag; the
car's loop wakes, sets the motors, turns to transmit mode and answers; the
remote's handler sets `receive_ack`; the remote waits 300 ms and starts again. In a
pool the pending car sends `REQUEST_POOLING` five times; a car in single mode that
hears one becomes master and sends `SPEED_INFO`; a pending car that hears that
becomes slave and answers `ACKNOWLEDGE_MASTER`. Every frame reaches every node that
is listening: the only address is the first byte.

What makes each part correct:

* the car stops when its driver falls silent; only its own remote drives it; its
  answers go where they should although one static `car_msg` carries all of them;
  it moves only in the modes of a paired car; it steers by whole samples; it pairs
  again after it has timed out;
* the remote gives up only after its last retry, and an acknowledge means that its
  car did what the message said;
* together: rounds end, an abandoned car stops, a car that lost its power is driven
  again, a slave has a master, a pool forms if two drivers ask for one;
* the radio driver's FIFOs keep order under interrupts at every store, no event is
  lost, and what is written is sent, although each frame is followed by a reset;
* the motors do what the stick says, whatever they did before; no bridge is told two
  directions; steering never leaves the range of the PWM; conversions are inverse to
  each other; the controller does not wind up.

`PROJECT.json` lists the hazards behind these lines, at the lines of the code where
they bite, with the properties that cover them or the reason why none does.

## Modules

| Module | Models |
|---|---|
| `RcMessages` | `rc_messages_and_defines.h` and the frames of `rc_utilities.c` |
| `RcCar` | the car firmware, open: any frame can reach it at any time |
| `CarModes` | the abstract specification of a car: mode, owner, moving |
| `RcCarProps`, `RcCarProofs`, `RcCarTimeProofs` | the car's properties, its inductive invariant and the proofs; the clock invariant behind `DeadMan` |
| `RcRemote`, `RcRemoteProps`, `RcRemoteProofs` | the remote firmware, open, its properties and their proofs |
| `RcSystem`, `RcSystemProps`, `RcSystemProofs` | cars and remotes on one channel, their joint properties and the proofs |
| `EsbFifo` | the driver's ring of payloads |
| `EsbQueue` | the abstract specification of reception: a bounded queue that can be flushed |
| `EsbDriver`, `EsbProps`, `EsbProofs` | `nrf_esb.c` with its interrupts and the applications' calls, its properties, the lemmas about rings and the proofs for both nodes |
| `EsbRemoteProofs` | the proofs about the driver as the remote uses it: where main is, and what the radio can still do there |
| `Codec`, `CodecProofs` | `joystick_read` and the conversions of `rc_utilities.c`, and their round trips |
| `Control` | `steering_speeds`, `get_speed` and `ultrasound_get_distance` as operators |
| `Drive`, `DriveProps`, `DriveProofs` | what a car does with its motors, store by store, its properties and proofs |
| `MCCar`, `MCRemote`, `MCPair`, `MCPool`, `MCEsb`, `MCDrive` | instances for TLC |

`RcSystem` composes `RcCar` and `RcRemote`: it decides who hears a frame and
conjoins their actions, so each of its steps is one of the open specifications or
leaves their variables alone (`SystemImplements`), and the theorems about the open car and
the open remote hold in it too. `EsbDriver` lies below: it is one node's driver, and its properties are what
`RcSystem` takes for granted of a node (what is written is sent, what is heard is
read in order). `Drive` lies above: it refines what `RcCar` calls `motors`, and takes
its samples through `Codec`. `EsbDriver` and `Drive` are not composed with the others
in one state space.

### State and steps

`pc` is the point the main loop has reached, `body` the case of `switch(STATE)` it
runs, `mem` the variables the event handler shares with it (`STATE` is spelled
`state`: the word is reserved in TLA+). `turn` is `remote_msg.y` as the loop read it
before it reads `remote_msg.x` (the order of evaluation the model takes for the two
arguments of `steering_speeds`; the other order only swaps which half is old).
`motors` is what the motors were last told: whether they run, by whose message, and
by which sample. `silence` is a history variable, the ticks the motors have run
since the last frame by which the driver keeps the car going; it saturates at
`LongSilence`, a bound above the allowance of every mode (`DeadManAt`).

One step is the code between two points where an interrupt can change its outcome.
Each access of the loop to a shared variable is a step of its own while the radio
listens: the clearing of the flag (`Clear`), the two assignments of the time-out
(`DropState`, `DropNext`), the two reads of the sample (`ReadTurn`, `SetMotors`),
`STATE = NEXT_STATE` (`EndBody`). Code that runs with the radio in transmit mode is
joined to the transmission. The handler runs whole, inside the step of whoever
sends (`CarsHear`), as it does on the chip: nothing of main runs in between.

A tick is 100 ms. Time advances (`CarsTick`, `RemotesTick`) only while every loop
is inside a delay loop, because everything between two delays takes milliseconds.
`wait` is what is left of the delay.

Abstractions, all named in the modules: stick values are members of a small set; the
payload bytes a car frame leaves stale decode to the constant `Junk`; a throttle
that the distance controller computed is the constant `Follow`; the content of
`SPEED_INFO` is left out, for the receiver overwrites it (main.c:418); the packet's
content stands for its checksum; the few milliseconds in which a node's radio is off
between its modes are losses of the air. The condition of main.c:116,
`STATE == (SLAVE || PENDING)`, is kept as what it is, a comparison with 1.

### The radio driver

`EsbDriver` has four actors. Main runs a list of statements, `todo`, one store at a
time; a call is a statement that is replaced by the body of the function. The
event interrupt (`TakeFlags`, `read_rx_payload`) interrupts main, the radio's interrupt
(`RadioIrq`) interrupts both and runs whole, and the radio (`Receive`, `Sent`) goes on by
itself through its shortcuts. `mode` is what the application turned the radio to,
`written` and `aired` are histories of one transmit session.

The two applications differ in two constants: the remote reads until the FIFO is empty
(`Drains`) and turns the radio only from one mode to the other; the car reads one
payload an event and enters receive mode again after a time-out (`Restarts`).

Abstractions: an interrupt that is enabled and due runs before the next statement of
what it interrupts; a delay of the applications is longer than a packet; the
transmitter takes longer to ramp up than the radio's interrupt takes to start; a
frame stands for its bytes, packet id and checksum. The applications send without
acknowledge, so the states that wait for one or send one are never entered; they call
none of `nrf_esb_flush_rx`, `nrf_esb_pop_tx` and `nrf_esb_suspend`, and the
`nrf_esb_flush_tx` of their TX_FAILED case is never reached. A write to a full FIFO,
which the applications would repeat, does not occur: they write to an empty one.

### The motors

`Drive` begins at the converter of the remote's stick (`Stick` holds its readings, which
can be below 0), takes the sample through the bytes of the payload, computes the speeds
and stores them: `set_motors` puts the stores of pins and PWM values in the order the
code does, and `Store` executes one. `local` are the four locals of main that survive
from message to message; that the slave stores its left speed over `left_dir` is kept.

Abstractions: `steering_speeds` in integers agrees with the doubles of the code on
every position of the stick; the controller counts in tenths, without the rounding of
doubles; the Kalman filter moves its estimate by any part of the way towards the
measured distance; the PWM unit (`Duty`) is external: bit 15 of a value inverts it.

### The air

A frame is delivered at once, to any subset of the nodes that listen; those left out
count in `losses`. Frames are neither delayed nor duplicated: the radio has no
queue between the nodes, and both sides resend by themselves. A node does not
hear a frame that repeats the packet id and content of the last one in its receive
session (`AwaitedIsHeard` is what makes that harmless). A car can lose its power at any step (`CarReset`).

## Runs

| Run | Checks | Shows |
|---|---|---|
| `car_open` | `TypeOK`, `DeadMan`, `OnlyOwnRemote`, `AckAddressing`, `ImplementsModes` | one car among all frames of two remotes and any cars |
| `remote_open` | `RemoteTypeOK`, `RetriesExhausted` | one remote among frames of any origin |
| `pair` | `NoTornSample`, `ConnectedMeansAdopted`, `AwaitedIsHeard`, `AckSoundness`, `RoundsEnd`, `AbandonedCarStops` | a car and a remote with the code's time-outs, up to 6 losses |
| `recover` | `RecoversFromReset` | a car that loses its power while driven is driven again |
| `pool` | `AwaitedIsHeard`, `SlaveHasMaster` | two pairs form a pool, and the duplicate filter hides from no node what it waits for |
| `connects_again` | `ConnectsAgain` fails | a remote that lost its car does not get it back while both keep their power |
| `wait_ends` | `WaitEnds` fails | an advertisement between two assignments is lost for good |
| `torn_sample` | `NoTornSample` fails | a pending car steers by halves of two samples |
| `esb` | `EsbTypeOK`, `RingsInOrder`, `NothingLeftUnread`, `SentAsWritten`, `ReceivesInOrder` | the driver as the remote uses it, interrupted after every store, implements a queue and sends what is written |
| `fifo_restart` | `RingsInOrder` fails | the car's restart of the receiver can leave its FIFO askew |
| `drive` | `DriveTypeOK`, `BridgesSafe`, `SteeredByStick`, `StandsStill` | the motors do what the stick says after any sequence of commands |
| `slave_forward` | `SlaveDrivesForward` fails | a slave that should stand near its master is told to drive backward |

`NoTornSample` holds of a pair and fails in a pool, which is what its two runs show:
as long as only its own remote wakes a car, that remote waits for the answer before
it sends the next sample; `SPEED_INFO` breaks the rhythm.

`RingsInOrder` holds of the remote, which stops the receiver before it resets the
FIFOs, and fails of the car, which resets them with the receiver on: the order
`radio_transmit_mode` has and `radio_receive_mode` lacks is what protects them.

The five failing runs are the findings of `PROJECT.json`. Each quotes the comment it
contradicts.

### Bounds

* The open runs use small time-outs (`TIMEOUT = 2`, `RETIRES = 2`): the time-outs only
  have to be distinguishable from 0 and from each other, since frames come at any
  time anyhow. `Ids = {0, 1, 2}` has the broadcast id, the car's remote and another.
  `MCCar` leaves out only frames that differ in stick values the car treats alike.
* The closed runs use the code's values in ticks of 100 ms: 2 s and 3 retries on the
  car, 500 ms, 6 retries, 100 ms between advertisements and 300 ms between rounds on
  the remote. They decide who gives up first.
* `MaxLosses = 6` is the number of deliveries that make a connected remote give up;
  fewer would hide `ConnectsAgain` and `AbandonedCarStops`.
* `Positions` has x = y in every pair, so that halves of two samples show.
* `MaxResets = 1` in `recover`, 0 elsewhere; a reset of the open car is unbounded.
* `MCPool` starts when both cars have paired, a state that `pair` reaches: pairing of
  two cars and pooling together would exceed the time of a run.

* `esb` has FIFOs of three payloads, three writes to a session, two payloads and two
  frames: enough for a FIFO to fill, to wrap, and to be left behind in the middle;
  receptions are not bounded. `fifo_restart` needs two of each.
* `MCStick` has readings on both sides of the dead zones of turn and throttle, the end
  of the scale where speeds are scaled down, and one below 0; `MCEchoes` has a master
  that is too near, right, and too far. Nothing bounds the number of commands but the
  controller's own anti-windup. `MaxError` only bounds what the assumption allows.

### Fairness

`FairSpec` asks weak fairness of each car's and each remote's steps, of their
transmissions and of `Tick`: processors run, a free radio transmits, time passes.
Nothing is asked of the air beyond the bound on its losses, and nothing of the user
or of resets. `SelectChannel` is under the fairness of `RemoteRound`: a user who never
presses a button is not of interest.

`esb` and `drive` check safety only.

### Deadlock

No run disables the check: a car and a remote always have a delay to wait out, the
driver can always receive, and the motors can always be told something new.

## Proofs

The theorems hold for every set of cars, remotes, ids and stick values, all
time-outs and retries, all FIFO sizes and all distances, within the assumptions of the
modules: 0 is an id and a stick value, `Junk` is not a stick value, the time-outs are
natural numbers (`IdsAssumption`, `StickAssumption`, `CarAssumption`), cars are not
remotes (`NodesAssumption`), a FIFO has room for one payload (`FifoSizeAssumption`), a
converter of ten bits gives at most 1023 (`DriveAssumption`), a cleared slot is not a
payload and the bound on the writes of a session is a number (`DriverAssumption`).

**The car** (`RcCarProofs`): `Correctness`, `TypeCorrect`, `DrivenByOwnRemote`,
`AnswersAddressed`, and `Implementation`, the refinement of `CarModes`. Why the invariant
has the shape it has: `OnlyOwnRemote` speaks of the motors, which are set from
`remote_msg`, which an advertisement of any remote may overwrite. So `LoopInv` says when
`remote_msg` is the own remote's (`SenderInv`): in every paired mode, except in single
mode before the first message after pairing. That needs to know in which modes which
body can run (`BodyInv`: the handler can move a car from single to pending mode under a
running body, and does nothing else to `STATE`), and which `NEXT_STATE` a body can end
with (`NextInv`). `AckAddressing` needs the id that `car_msg` keeps between messages
(`AnswerInv`), the refinement that the motors stand while a car is adopted
(`MotorInv`). `TypeOK` is not inductive alone: `EndBody` copies `NEXT_STATE`, which starts
as 0; `BodyInv` says it never does so then. `HandlerEffect` reduces the event handler to
the five things a frame can do to `STATE`, `NEXT_STATE` and the sender,
`HandlerCoherent` shows that none of them disturbs the loop at any point,
`LocalStepCoherent` and `TransmitCoherent` go through the loop's own steps.

**Its dead man's switch** (`RcCarTimeProofs`): `StopsWithoutCommand`. `ClockInv` bounds,
at each point of the loop, the silence so far by what the waits before it can have
taken, so that silence and the rest of the wait together stay within the allowance of
the mode.

**The remote** (`RcRemoteProofs`): `RemoteTypeCorrect` and `LostAfterRetries`, from one
inductive invariant over the points of its loop.

**The system** (`RcSystemProofs`): `SystemImplements` shows that every step of the
composition is a step or a stutter of the open car and of the open remote; so `CarsInSystem` and `RemotesInSystem` carry the theorems
above over. `ConnectionsReal` proves `ConnectedMeansAdopted`. Its invariant says that
whoever believes in a connection, or is about to (an answer is in `receive_ack`), has
a car that has adopted it and, without a reset, keeps its id. It assumes that 0 is
no channel: the remote's second read of its button can give 0 (hazard at
remote main.c:247), and frames of id 0 are the cars' own.

`SlavesAreLed` proves `SlaveHasMaster` for any number of cars and remotes, from power-on
(`pool` starts from two paired cars), while no car loses its power. The property speaks
of the instant a car becomes a slave, but the `SPEED_INFO` that decides it was heard
earlier, perhaps twice in a round, and the master runs on in between. So `Joined` says:
a car whose next state is SLAVE has a message to act upon (`Running`), so no delay of it
ends and time stands still, and its master (`Leading`) is where only time can stop it. That
the message is not cleared before it is acted upon needs `DeafAll`: from its answer to its
next wait, where the flag is cleared, the radio of a driven car does not receive. The
time-outs' values do not matter, only that `TIMEOUT` is not 0.

`AwaitedAlwaysHeard` proves `AwaitedIsHeard` for any number of nodes, losses and resets.
The duplicate filter compares a packet with the last of the session by an id that restarts
with each session and by a content that recurs, so it would hide a resent sample or the next
acknowledge if a node could come to wait for it again in the session in which it heard it.
`SessionInv` says that it cannot: the last packet a waiting node heard in its session would
not end its wait. It is kept because every turn of mode begins a session, also the one at
254 that does not follow a transmission, and because a frame that ends no wait ends none
when it comes again either (`HeardAgain`, from the flags the handler raises: `OwnFlags`,
`OtherFlags`). The one wait it is not true of is that at car main.c:362, where a message
heard in the session is overwritten by main (`WaitEnds`).

`SamplesWhole` and `AcknowledgesSound` prove `NoTornSample` and `AckSoundness` of one car
with one remote, for all time-outs, positions and losses, the first with any number of
resets too. `PairInv` is a hand-over: from the moment a car holds an unread message until it
has answered (`Busy`), its remote waits for the answer (`WaitsForAnswer`), so what the
car reads in two parts, sets its motors by and acknowledges is the sample the remote
still holds (`Holds`, `Obeys`). `Alone` is what a second car would break: no `SPEED_INFO`
wakes the car, which is what `torn_sample` shows. `Obeyed` carries the acknowledge on:
an answered remote leaves its wait before time passes, and until then its car can only
come to wait again. Both rest on what the model takes of time: that a body takes less
than the 500 ms a remote waits.

**The driver, in both nodes** (`EsbProofs`): a push appends and a pop removes, as long
as a ring is in order, for every size. `EsbTypeCorrect`: the FIFOs never over- or
underflow, even in the interleavings of `fifo_restart`, since each guard tests the count
itself. `InterruptsKeepQueue`: on a FIFO in order the radio, its interrupt and
the application's reads take only steps of `EsbQueue`; what is left to go wrong is main's
own resets.

**The driver, in the remote** (`EsbRemoteProofs`): `FifosStayInOrder`, `NothingIsLeftUnread`,
`SendsAsWritten` and the refinement `ImplementsQueue`, for every FIFO size, all sets of
payloads and frames and any number of writes to a session, under two hypotheses: `Drains`
and `~Restarts`, which are how the remote's `main.c` differs from the car's. (In the car
`RingsInOrder` and `NothingLeftUnread` fail, so the hypotheses are needed.) None of the
properties is inductive, because each speaks of the application, and what an interrupt
can do depends on the statement main has reached inside the driver. So `RemoteInv` has a
disjunct for each phase of main's procedures (`Listening`, `Stopping`, `ToTransmit`,
`Resting`, `Loading`, `Flying`, `Leaving`, `ToReceive`, `Starting`), and each says, statement
by statement, what the radio, its registers and the installed handler can be:

* `Stopping`: `nrf_esb_stop_rx` first clears the shortcuts, so a packet that ends then raises
  no event, then masks the interrupt and removes the handler, and only then disables the
  radio, whose event stays behind, masked.
* `Quiet`: from there to the next start no interrupt is due, so that `reset_fifos` has the
  FIFOs to itself. `Zeroed` says which of its stores have been made: at the end the rings
  are empty and in order whatever they were before.
* `Loading`: `start_tx_transaction` unmasks the interrupt before it installs its handler.
  The event left by `nrf_esb_stop_rx` is taken then, by no handler.
* `Flying` and `Leaving`: the frame is in the air while main waits or has called
  `nrf_esb_disable`; `tx.count <= 1` is what makes its interrupt end the transmission rather
  than start another, with the FIFO reset under it or not. The delays outlast it.

`Unread` (an unread payload is about to be read, or has its event pending) holds at every
statement, since main runs only when no event is due; with it main finds the receive FIFO
empty, so `reset_fifos` throws nothing away. `Executes` reduces the five kinds of
statement to one table (`Effect`); `...Moves` go through the phases, `...Keeps` through the
interrupts, the radio and the application. The lists of statements are handled by
`Suffix` and `Rest`: what is left of a procedure is its i-th statement and what is left then.

**Conversions** (`CodecProofs`): `RemoteRoundTrip` and `SpeedRoundTrip`.

**The motors** (`DriveProofs`): `DriveTypeCorrect` and `BridgesNeverShort`, from an
invariant (`Coming`) over the stores that are still to come: each setting of a pin has
the clearing of its opposite before it. `ControllerBounded`: an integral is kept only when
the output was within its limits, and an output within limits bounds the integral by the
errors. `UltrasoundReload`: what a reload of the counter during a pulse does.
`SteersByStick` and `WaitsStandingStill` need what a whole list of stores leaves behind:
`UnderWay` says that no store to come contradicts the command, and that a pin or PWM value
that is not as commanded has its store still to come; `set_motors` is shown to have a store
for each side on each of its paths (`CommandsUnderWay`). That the pushes then have the
signs of turn and throttle is arithmetic over all 1024 positions of both axes, the norming
of too large speeds included.

Only model-checked is liveness (`RoundsEnd`, `AbandonedCarStops`, `RecoversFromReset`),
which is out of the prover's reach. The properties that the failing runs refute are
proved only where they hold: `NoTornSample` of a pair, `RingsInOrder` of the remote.

## Not modelled

LEDs, logging, and the SDK below and beside `nrf_esb.c`, which is all but a few files of
the repository: headers, drivers, protocol stacks and examples that the firmware does
not call. Acknowledges and retransmissions of `nrf_esb.c`, which its `noack` payloads
never enter. Compiler effects on the flags that are shared without `volatile`.
`slave_test_main.c`, which no project file builds, and the motor exercises of
`rc_unit_test.c`. A lost echo, on which the slave's loop waits for ever. Two pools in
range of each other, which takes four cars.

## Running

    tlc -config pair.cfg MCPair.tla
    tlc -config esb.cfg MCEsb.tla
    tlapm EsbRemoteProofs.tla

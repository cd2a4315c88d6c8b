# Tank Wars: a TLA+ model of the game hardware

Tank Wars is a two-player (or one against the computer) game for an FPGA
board. SystemVerilog modules in `src/Lab8_provided` keep the whole game in
registers; a soft processor runs C code (`src/software/usb_kb`) that reads a USB
keyboard and writes its key codes to one hardware register. The repository holds no
test bench, so the models here are the only place where steps of several modules are
put together.

## The system

| part | source | state | operations |
|---|---|---|---|
| round | `statemachine.sv`, `lab8.sv` | phase Start, Generate, Game, Done | Enter, generation done, Win; reset by KEY[0] at any time or by Enter on the game-over screen |
| bullets | `bullet.sv`, `bullet_collision.sv` | position, motion, direction, in flight | at a frame edge: follow, launch, fly, recall; reset |
| health | `health.sv` | two counters, two hit state machines, Win latch | every clock: rearm, count a hit, latch Win |
| obstacles | `obstacle.sv` (16 of them) | hit counter and its state machine | every clock: count a bullet, vanish at ten |
| obstacle generator | `obstacle_gen.sv` | 16 positions, counter, finish | in Generate: draw a position per clock |
| tanks | `ball.sv` (2 of them), `tankcollision.sv` | position, motion, direction, power-up state and counter | at a frame edge: drive, bounce, be pushed back; every clock: power-up; every sync: its counter |
| pickup | `pickup.sv`, `pickup_gen.sv` | position, counter, finish | taken by a tank, drawn again |
| background, random numbers | `background.sv`, `random.sv` | row, column, Done; shift registers | in Generate: one tile per clock |
| computer player | `Skynet.sv` | none | chase, avoid walls, shoot |
| menu | `Color_Mapper.sv` | one or two players | keys on the start screen |
| keys | `key_reader.sv` | none | decode four codes |
| display | `VGA_controller.sv` | two counters | vertical sync, the frame clock of everything |
| keyboard driver | `main.c`, `usb.c`, `io_handler.c` | enumeration step, data toggle, key codes | enumerate, poll, hot plug |
| host port | `hpi_io_intf.sv` | bus registers | read and write the USB chip |
| audio, sprites, hex display | | not part of the game | |

How they interact. All game registers have the 50 MHz clock; a *frame edge*, found by an
edge detector on the display's vertical sync, is one clock in which tanks and
bullets also move. Every module reads the others' registers of the clock before, through
combinational collision signals. Two things are outside this scheme: the power-up
counters, which the vertical sync itself clocks, and the display, which runs at 25 MHz.
The keyboard is asynchronous to all of it.

What is hard here:

* a collision signal is high for many clocks before the frame edge that ends it, and it is
  consumed by three modules with state machines of their own (bullet, health, obstacle);
* everything moves in one clock, so each module acts on where the others *were*;
* ten-bit unsigned coordinates wrap;
* reset comes at any clock, reaches one module through the old outputs of another, and
  does not reach the power-up counter or the edge detectors;
* the power-up is a handshake of two clock domains on an equality test;
* map generation and enumeration wait for conditions that nothing guarantees;
* the keyboard driver and the USB controller share a memory and one message register, and the
  driver may write a transfer list again while the controller is working on it.

What makes each part correct: a shot costs the player it strikes exactly one point
and ends; health, Win and phase agree; bullets fly straight and on the screen and do not jump
over cover; an obstacle takes ten bullets and is gone; tanks stay on the field; power-ups
last their time and end; generation ends with sixteen obstacles; one press is one shot;
the keyboard's codes reach the register, and it recovers from being pulled out.
`PROJECT.json` lists every hazard found in the code with its line.

## Modules

| module | models |
|---|---|
| `Arena` | players, ten-bit arithmetic, directions, the distance test |
| `Bullet` | the registers of one bullet and each branch of `BULLET_MOTION` |
| `Obstacle` | hit counter, state machine and bullet box of one obstacle |
| `Match` | abstract specification: what a duel promises, shot by shot |
| `Gunnery`, `GunneryProofs` | the duel: bullets, health, obstacles and round wired as in `lab8.sv`; its theorems |
| `Trigger` | one bullet with the shoot key and the key state machine beside it |
| `Tank` | the registers of one tank at a frame edge, collision boxes, the power-up |
| `Skynet` | the key the computer holds |
| `Driving`, `DrivingProofs` | the tanks on the field with keys, menu, computer, pickup, obstacles and both clock domains; its theorems |
| `FieldProofs` | the theorem that a tank on its own stays on the field at the sides |
| `SkynetProofs` | the theorem that the computer keeps off the walls |
| `Layout` | abstract specification: what map generation promises |
| `Setup`, `SetupProofs` | map generation: round, tile counters, obstacle generator and shift registers; its theorems |
| `TransferList`, `TransferListProofs` | the transfer lists `usb.c` writes, request by request; what holds of each |
| `Keyboard`, `KeyboardProofs`, `KeyboardReadyProofs` | the driver with controller and keyboard; its theorems |
| `MCGunnery`, `MCDriving`, `MCTrigger`, `MCSetup`, `MCKeyboard` | the instances for TLC |

### Gunnery

A step is one rising edge of the 50 MHz clock: `ClkTick` without a frame edge,
`FrameTick` with it, `Reset` with `Reset_h`. Each computes all next values from the
registers of before, as nonblocking assignments do. `Clocked` is what happens at
every clock (phase, health, obstacles, corners); `FrameTick` adds the bullets
(`BulletEdge`, one case per branch of `BULLET_MOTION`) and the tanks.

Free inputs, which allow more than the program does: the shoot keys; Enter and
`All_Gen_Done`; the drawn corners outside Game and Done (the position array is a latch
that is open while the generator runs), and in them the corner of an obstacle
drawn below (12, 12), which `obstacle.sv` moves by a random register that never stops; the tanks, which go from one
of the poses `Formations` to another by at most `TankStep` on each axis per frame, and keep
their direction while keys are disabled. Two frame edges may come in consecutive clocks,
which the real display never does. A bullet reset takes the tank's position of *before* the reset,
as the code has it. Poses are on the board; `Driving` shows when a real tank leaves it.

The initial state is the one after KEY[0] was pressed; what the registers hold before the first
reset is not modelled here.

`Match` knows only points, phase, and for each player a shot in the air that has or has not
been paid for. Its steps allow a shot to be fired, to land once, to fly on or end unpaid,
and the round to move on; a shot in the air strikes at most once and, while both are alive, a
landing costs exactly one point. `Gunnery` implements it with `spent` as "in the air
and the opponent's hit state machine is in Hit".

### Driving

`VSync` is the rising edge of the vertical sync, which clocks the power-up counters;
it is followed by a clock in which the edge detector registers it and one, `FrameEdge`,
in which the tanks move; all other clocks are `ClkTick`. `frame` is this
pipeline (`frame_clk_delayed`, `frame_clk_rising_edge`). `TankEdge` has a tank's frame
edge: the position takes the *old* motion register; one key down selects push back,
bounce or drive (`Steered`), none or several only push back or bounce, and leave the
other axis alone (`Coasting`). The power-up state machine runs at every clock, its counter
only at `VSync`, and reset leaves the counter as it is.

The obstacles that stand may change at any clock (`wall`): being shot away, drawn and
displaced are all covered by that. The pickup's own hit counter is held at zero by `regen`
in every clock in which it could count, so the pickup is always armed, and a pickup that
is touched moves at once and goes on moving until it is free and the generators give a
legal position.

The menu is `start` (`Start_sig`) and `auto` (`Status` of `Color_Mapper.sv`), and `Keys` is
the multiplexer of `lab8.sv`: no key in the menu, those of `SkynetKey` for tank 1 if
the computer was chosen, any otherwise. The opponent of a tank on its own may be at
another of the places `Foes` in every frame, so the computer's tank is checked against every
opponent, not against one that drives. `Reset` puts the menu back to two players, as the
code does after every game.

### Setup

A step is a clock of 50 MHz. `RoundClk` is the state machine, `BackgroundClk` the tile
counters with `Done`, `CounterClk` the obstacle counter with its `finish` one clock late, and
`Turn` both shift registers, bit for bit. The positions are *latches* in the code: the one that the
counter points at is open and follows the shift registers while they are drawn from, and is
cleared otherwise (`Latches`); a counter past the end opens none. `Gen_Done2` asks for
every obstacle but the first. Two history variables say what the code does not keep: `drawn`, the
obstacles that were placed in this round, and `seeded`, that there was a reset.

The initial state is power-up, in which the FPGA clears all registers but the shift registers
may hold any of `PowerUp`. From zero they stay at zero and generation never ends; KEY[0] gets
out of that. `Layout` has only phase and map: the map is complete when play
begins and the same to its end.

### Keyboard

The driver is one sequential program, so its state is a place in it (`pc`), the request
it is at (`step`, an index of `Lists`) and what it has read. A step goes from one access that
somebody else may come before to the next: giving the controller a command and waiting for its
answer (`Sie1Init`, `ReadMailbox`: any status bit ends the wait, `main.c:96`), writing the list (`WriteList`, one
step, since a list is complete before it is started), starting it, testing the flag, reading and clearing the
message register (two accesses, `usb.c:539-556`), testing the control byte, waiting
in `UsbGetRetryCnt`, reading the key codes (two), looking at the port. `Lists` gives
each request as the code writes it: address, PID, data bit, length, buffer and next
address of each transfer descriptor.

Controller and keyboard are not in `src/` and are modelled from what the driver's loops allow for:
the controller runs the list it was pointed at, one descriptor per
step, ends it at one that is not acknowledged, writes the control byte, and
raises the flag with a message that replaces the one before. The keyboard is
unplugged and plugged in at any step, counts the data bit, forgets address and
configuration when it is pulled. `events` has what went wrong since the last soft
reset: a refused command, a removal, a keyboard that came, a failed first or later descriptor, a done message
that was lost, one that belongs to another list, a report that was thrown away.

Driver and keyboard each keep a data bit for the reports. The driver's `toggle` turns over where a new
poll is written (`main.c:471`), whatever the last one brought, keeps its value when a poll is written again, and
is reset by nothing. The keyboard's `turn` is cleared by set configuration and turns over with each
report that is acknowledged. So they disagree after a poll that ended without data (`RunNak`, or a failure), after a list that ran
twice, and, half the time, after a keyboard was plugged in again. A report with the other bit is not
acknowledged, and the poll fails; or it is acknowledged all the same (`RunOdd`), and the controller takes it or throws
it away, as a receiver does with what it takes for a repetition. Which of these the controller does is not in the code, and the
model has all of them. Thrown away once, the reports go on being thrown away: both bits turn over with every
poll, until one ends without data.

What the model leaves out of the driver: the length of the poll's descriptor (`data_size`, read at
`main.c:355` from what older lists left there), `UsbPrintMem` and printing. Host port accesses are atomic.

## Runs

| run | question | result |
|---|---|---|
| `duel` | `TypeOK`, `StraightFlight`, `InScreen`, `HitIsThisShot`, `RoundConsistent`, and the refinement `KeepsPromise` | hold |
| `cover` | `CoverCount`, `NoTunnelling` with an obstacle that wanders; `Shortens`, `FlightEnds`, `GameEnds` | hold |
| `driving` | `TypeOK`, `VerticalField`, `HorizontalField`, `AvoidsWalls`, `FreshCount`, `PowerEnds` | hold |
| `setup` | `TypeOK`, `AllDrawn`, the refinement `KeepsLayout`, `Generated` | hold |
| `keyboard` | `TypeOK`, `Ordered`, `Ready`, `ListsHold`, `MessagesKept`, `Untorn`, `Enumerates`, `Released` | hold |
| `carried` | is a resting bullet always with its tank (`bullet.sv:4`)? | no: a resting bullet that touches the opponent or an obstacle is neither carried nor recalled |
| `same_for_both` | are players treated the same (`health.sv:132`)? | no: player 2's branch tests player 1's health |
| `hold` | does a held key fire once (`bullet.sv:39`)? | no: the state machine's output is not used |
| `corner` | does a tank stay between the edges (`ball.sv:40-43`)? | no: coasting in a corner it leaves sideways |
| `both_pick` | is a pickup for the tank that is first (`pickup.sv:6`)? | no: both get it in the same clock |
| `hang` | is a request that was not processed sent again (`main.c:210`)? | no: after the first request the driver reads the same control byte for ever |
| `apart` | are obstacles drawn at random (`random.sv:2`)? | no: the generators repeat after twelve clocks, so four of sixteen obstacles lie on others |

What the keyboard properties allow for says as much as what they state. `Ordered` holds with every
fault but removal. So does the first half of `Ready`, that a polled keyboard has its address; the second, that it is
configured, needs that no later descriptor failed (each step reads the control
byte of the first only) and no answer was taken for another's: a list that finishes between the
test of the flag and the resend runs twice, and its second done message meets the next
request. `Enumerates` accepts a driver that is stuck through a done message it lost
or mistook, and through a failed request after the first (`hang`). `MessagesKept` bounds that: a done message is lost only around a
message about the port, in a list during which the keyboard was pulled or in the first list after it was plugged
in, and the wait of `UsbGetRetryCnt` is entered only after a list that was started twice. `Released` holds with bits out of
step as long as the controller fails such a poll or takes the report, because the next poll then has the bit that the keyboard
uses; it sets aside a report that was thrown away, until keys are pressed again. That loss is the program's: nothing in it brings the bits together.

`Generated` rests on the seeds: the registers reach only twelve values, all of them legal.
`AllDrawn` holds in the first round after power-up because `Gen_Done2` finds the
latches empty, and in later ones, where they hold the last map, only because a row of tiles takes
longer than all obstacles.

`HorizontalField` and `AvoidsWalls` stop at the first pickup. With a power-up that runs out on a corner a
tank can leave the field, the computer's as a player's does in `corner`. Until then one more step than at the
top and the bottom is possible at the sides, because those are tested first: a tank that bounces there keeps its
sideways motion for a frame.

Deadlock is not checked. In the game modules `Reset` is enabled in every state, as KEY[0] is, so the check
would pass whatever the rest does. The keyboard driver really can wait for ever
for a message that nobody sends (`usb.c:543`, `usb.c:569`). That things go on is what the liveness properties say.

Bounds. The duel has both players, a board of 14 by 9, bullets of step 2, two points
each (one in the run with an obstacle), and a handful
of poses: aiming at each other along the board, aiming up and down, and standing
so near that resting bullets touch the other tank. This has every branch of
`BulletEdge`, simultaneous hits, double death, hits after death and resets in flight. Step, size and
margins keep the relations of the source: the edge test is wider than a step, the hit
radius wider than a step, and an obstacle with the bullet's half size on both sides wider than a
step. One obstacle is enough for `CoverCount` and `NoTunnelling`, which speak of each
obstacle alone; its two positions are on the line of fire and over a tank.

Driving keeps the real tank (size 8, steps 1 and 3, the computer's margin of 10 and reach of 19) and shrinks the field and
the power-up, so that a tank with the power-up crosses the bounce zone from both sides and the computer meets
all four edges; its opponents are at the corners, in the middle and so far below that it is in chase at the edge.
The `driving` field is wide enough that
the corner case of the `corner` run, after which the horizontal
register takes all its 1024 values, is not reached before the power-up ends;
the theorems have no such restriction. The `driving` run has no obstacle and no
second tank: with either, `VerticalField` does not hold, because the push back has no edge test.

Setup has a background of 5 by 2 tiles and four obstacles, which keeps a row longer than the obstacles
(80 and 16 in the source), and the real seeds. Two power-up values are
tried, the fixed point and one that takes other ways. `apart` has one row and all sixteen obstacles.

Keyboard: each list is resent at most once before it is answered (`MaxResends`), and a fault is added
only to fewer than `MaxMishaps` of the kinds that an attempt has had, one in the run, and resets start a
new attempt without end. What is recorded of the keyboard for the properties only (that it came back, that it threw
a report away) is no fault and is not counted. One resend is enough for a list that runs twice, and one
fault for each hazard of the list by itself; two reports, one with a key in each word, are enough for a torn reading.

Fairness. In the duel `FrameTick` is weakly fair, in `Driving` `VSync`, `ClkTick` and `FrameEdge`, in `Setup` `Clock`: the oscillator
and the display controller never stop, and the display has no
input but reset. Nothing is assumed about keys, Enter or the generators. `Reset` is not fair
and is allowed for ever, so `GameEnds`, `FlightEnds` and `Generated` accept it as an
outcome, as the program does. In `Keyboard` the program is one loop that does not stop (weak
fairness of `Driver`), the controller works on and answers a command (weak fairness of `Controller`, in which a keyboard that is there
may still refuse or fail only as long as mishaps are left), and a keyboard that is polled again and again does not fail for ever to
deliver a report it has with the bit that the poll expects (strong fairness of `RunReport`). Nothing is assumed
of a report with the other bit.

## Proofs

`GunneryProofs`, for every board, step, radius, health, set of obstacles and corners and set of
poses that the assumptions `BulletAssumption`, `ObstacleAssumption` and
`GunneryAssumption` allow:

* `TypeCorrect`: `Spec => []TypeOK`.
* `Invariance`: `StraightFlight`, `InScreen`, `HitIsThisShot`, `RoundConsistent` and `CoverCount` are
  invariants, stated one by one in `FlightIsStraight`, `FlightOnScreen`, `RoundAgrees` and `CoverStaysGone`. None is inductive alone. `InScreen` needs the motion to be one step
  along one axis, which is `StraightFlight`; `TypeOK` needs the hit counter's bound and `done => Dead`
  to keep health from wrapping; so `IInv` is their conjunction, and each frame edge is a lemma on
  one bullet (`BulletEdge`) with scalar arithmetic kept apart.
* `Refinement`: `Spec => KeepsPromise`. Every step maps to a step of `Match` or a stutter. The point is `HitIsThisShot`: a hit
  state machine that is in Hit during a flight is still touching that very bullet, so
  a launch always starts unspent and a shot is paid for once.
* `FlightShortens`: `Spec => Shortens`, the measure behind `FlightEnds`: each frame edge that does not end a flight
  brings the bullet a step nearer to the end of the screen and not past it. That frame edges go on is what
  the fairness adds.
* `CoverHolds`: `Spec => NoTunnelling`, under `CoverAssumption` (the step is at most the obstacle's side and
  the bullet's half size, and the box does not wrap; 5 <= 8 + 1 in the source). A bullet that would jump over the obstacle stands inside its
  box before the step, and is recalled.

The assumption on steps, `BulletStep <= BullMin + BullSize + 1`, is the margin that
`InScreen` rests on (5 <= 6 in the source).

`DrivingProofs`, under `TankAssumption` and `DrivingAssumption`:

* `DrivingTypeCorrect`: `Spec => []TypeOK`; the counter never passes `PowerFrames`.
* `VerticalOnField`: with no obstacle and one tank, `VerticalField` is an invariant. Its strengthening
  `VerticalIInv` says that the vertical motion is zero or one of the two steps up or
  down, and that a tank which has passed a bounce by a step is not moving further that
  way; a second step in the same direction is possible because the position takes
  the motion of the frame before.
* `FreshStart`: `Spec => FreshCount`, with `PickAssumption`. A reset leaves a stale count behind;
  `FreshIInv` says that until the next sync clears it the tanks are at home, or one step below, where they cannot touch the
  first pickup.

`FieldProofs`, with no obstacle, one tank, and room for four steps beside it (`LoneField`; 8 against 3 * 1 and 639 by 429
against 20 in the source, and the homes far from the edges):

* `HorizontalOnField`: `Spec => []HorizontalField`. The side edges are tested last and a tank without keys keeps its
  motion along an edge, so the sideways registers alone say nothing. `Contained` relates both axes: two
  motions at once come only from a bounce, next to the edge that caused it (`Rebound`); a tank that is at
  the top or the bottom and slides to a side was not yet at that side when it arrived (`Slides`); and one that
  is a step beyond the top or the bottom is on its way back or about to be (`Level`).

`SkynetProofs`, on an open field (`OpenField`: no obstacles, a margin two steps wider than half the tank, a
contact distance within the computer's reach; 10 against 8 + 2 and 16 against 19 in the source):

* `WallsAvoided`: `Spec => []AvoidsWalls`, for every opponent, with the other tank on the field or without. The
  other tank cannot push the computer's: pushes need a key, and the computer lets go of the keys before the tanks are in
  contact (`ContactInReach`). `Steady` says that the tank is not about to leave along either axis and that
  one that coasts along an edge has just come from the margin its motion leads away from.

In both, `FirstPlace` is not among the later places of the pickup, so that `place = FirstPlace` says that it has not been
taken. TLC evaluates both on the `driving` instance, which satisfies the two sets of hypotheses; the inductive
invariants were checked with TLC before they were proved.

`SetupProofs`, under `SetupAssumption` (in it, that a row of tiles is longer than the list of obstacles) and `OrbitAssumption` (what the seeds lead
to is closed and legal, which TLC evaluates for the real seeds):

* `SetupTypeCorrect`, `EveryObstacleDrawn` (`AllDrawn`) and `LayoutKept` (`Spec => KeepsLayout`). `IInv`
  adds where the counter stands in each phase (`Counting`) and that the latches below it are drawn in this round or, without a reset, that those
  above it are empty (`Drawing`).

`KeyboardProofs`, under `KeyboardAssumption`, for any number of resends and mishaps:

* `KeyboardTypeCorrect` and `RequestsInOrder` (`Ordered`). `Answering` says that from the writing of
  a list on, the list in memory is that of the current request, and that an "ok" in its control byte means that the keyboard has
  heard it; `Addressed`, that a keyboard which has heard a later request is at the address that it was given.

`TransferListProofs` has what holds of the lists themselves, list by list: each descriptor names the next (`Linked`), data bits
alternate from the first (`Alternating`, `First`), no buffer lies over a descriptor (`Apart`), and all but the first list go to
address 2 (`ToTwo`).

`KeyboardReadyProofs` adds to them and to `IInv` three parts, together the inductive invariant `Strong`:
`Alone`, that as long as no done message was taken for another list's, one list runs at a time and only while the
driver waits for it, so a list that is written again is the one that runs; `Closed`, that a list which ended with
"ok" has been acted on by the keyboard; and `Told`, that while no keyboard comes or goes the flag stands for a done message, which
is read before it is cleared, and that after a lost one no list runs.

* `ListsHoldTogether` (`ListsHold`): a list that is rewritten under the running controller still leads from descriptor to descriptor.
* `PolledWhenReady` (`Ready`): needs `Addressed` with `Ordered` for the address, and `Closed` for the configuration, since the driver moves on by the control byte and not by the keyboard's state.
* `DoneMessagesKept` (`MessagesKept`): needs `Told`, and `Alone` for the wait of `UsbGetRetryCnt`.
* `ReportsUntorn` (`Untorn`): needs `Alone`, since nothing but the order of accesses keeps the report buffer still between
  its two halves.

Only model-checked: liveness (`FlightEnds`, `GameEnds`, `PowerEnds`, `Generated`, `Enumerates`, `Released`), which is out of the
prover's reach. Every invariant and every action property of the passing runs is also a theorem. The violations are
traces of TLC.

## Not modelled

* Drawing, sprites and colours, the hex display and the audio keep no state of the game.
* `key_reader.sv` is combinational; every combination of keys is a free input.
* `VGA_controller.sv`: how many clocks lie between two frame edges. Every property here holds for any number.
* `hpi_io_intf.sv`: a register pipeline between one processor and the bus, in which what can go wrong is
  set-up and hold time. `tristate.sv` and `random2.sv` are not instantiated.
* Of `pickup_gen.sv`, how often the generators give a legal place; of `background.sv`, which picture a tile shows.
* `Gunnery` with the tanks of `Driving` in place of free poses: the product is out of TLC's reach, and the poses allow every
  position a tank on the field can have.
* Whether the computer reaches an opponent that rests: an obstacle between them holds it for ever, and the code
  promises nothing.
* Generated Quartus and Qsys files, the board support package, and the earlier copies
  of sources kept beside the current ones.

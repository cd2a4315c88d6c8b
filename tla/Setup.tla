------------------------------- MODULE Setup -------------------------------
(***************************************************************************)
(* Map generation: the round's phases, the background's tile counter, the  *)
(* obstacle generator and its two shift registers, one clock of 50 MHz at  *)
(* a time.  The round goes on when background and obstacles are ready in   *)
(* the same clock.                                                         *)
(***************************************************************************)
EXTENDS Integers

CONSTANTS Cols, Rows,        \* tiles of the background
          number_obstacles,
          SeedX, SeedY,      \* what the shift registers are reset to
          Orbit,             \* all they go through from there
          PowerUp,           \* what they may hold before the first reset
          NoMap

Register  == 0 .. 1023
Registers == Register \X Register   \* genx and geny

ASSUME SetupAssumption ==
  /\ Cols \in 1 .. 128 /\ Rows \in 1 .. 64
  /\ number_obstacles \in 2 .. 1021
  /\ number_obstacles < Cols
  /\ PowerUp \subseteq Registers

VARIABLES State,         \* statemachine.sv
          row, column, Done,    \* background.sv
          rand,                 \* the registers genx and geny of obstacle_gen.sv
          objcounter, finish,   \* obstacle_gen.sv
          tl_obj,               \* its latches: the places of the obstacles
          seeded,        \* there has been a reset
          drawn          \* obstacles that got their place in this round

vars == <<State, row, column, Done, rand, objcounter, finish, tl_obj, seeded, drawn>>

Obstacle == 0 .. number_obstacles - 1

----------------------------------------------------------------------------
(* random.sv: the bits are scrambled and the lowest one is fed back.        *)

\* The bit of weight w.
Bit(v, w) == (v \div w) % 2

Shift(v) ==
    512 * Bit(v, 4) + 256 * Bit(v, 32) + 128 * Bit(v, 8) + 64 * Bit(v, 2) + 32 * Bit(v, 64)
  + 16 * Bit(v, 128) + 8 * Bit(v, 1) + 4 * Bit(v, 256) + 2 * Bit(v, 512)
  + ((Bit(v, 8) + Bit(v, 64)) % 2)

Turn(r) == <<Shift(r[1]), Shift(r[2])>>

\* The nine bits of each that obstacle_gen.sv takes, and which of them it takes.
Place(r) == <<r[1] % 512, r[2] % 512>>
Legal(r) == Place(r)[1] > 0 /\ Place(r)[2] > 0 /\ Place(r)[2] < 480

ASSUME OrbitAssumption ==
  /\ Orbit \subseteq Registers /\ <<SeedX, SeedY>> \in Orbit
  /\ \A r \in Orbit : Turn(r) \in Orbit /\ Legal(r)

Nowhere == <<0, 0>>
Places  == (1 .. 511) \X (1 .. 479)

----------------------------------------------------------------------------

Gen == State = "Generate"

\* The first obstacle is not asked for (obstacle_gen.sv:89).
Gen_Done2 == \A i \in Obstacle \ {0} : tl_obj[i] # Nowhere

RoundClk(enter, win) ==
  State' = CASE State = "Start" /\ enter -> "Generate"
             [] State = "Generate" /\ Done /\ Gen_Done2 -> "Game"
             [] State = "Game" /\ win -> "Done"
             [] OTHER -> State

LastRow == row >= Rows - 1
LastColumn == column >= Cols - 1

BackgroundClk ==
  LET counting == Gen /\ ~Done
  IN /\ Done'   = (counting /\ LastColumn /\ LastRow)
     /\ row'    = IF counting /\ LastColumn /\ ~LastRow THEN row + 1 ELSE row
     /\ column' = IF ~counting \/ (LastColumn /\ LastRow) THEN column
                  ELSE IF LastColumn THEN 0 ELSE (column + 1) % 128

\* Mutant: drawing does not stop.
DrawsAlways == Gen /\ Legal(rand)

Draws == Gen /\ Legal(rand) /\ ~finish

\* Mutant: finish comes two obstacles early.
CounterClkEarly ==
  /\ objcounter' = IF Draws THEN objcounter + 1 ELSE objcounter
  /\ finish' = (Gen /\ objcounter >= number_obstacles - 2)

CounterClk ==
  /\ objcounter' = IF Draws THEN objcounter + 1 ELSE objcounter
  /\ finish' = (Gen /\ objcounter >= number_obstacles)

\* Mutant: an index past the end is cut to the array's size.
OpenCut == {objcounter % number_obstacles}

\* The latch that is open; a counter past the end opens none.
Open == {objcounter} \cap Obstacle

\* The open latch follows the shift registers while they are drawn from, and is
\* cleared otherwise, all with the registers' new values.
Latches ==
  /\ tl_obj' = [i \in Obstacle |-> IF i \notin Open' THEN tl_obj[i]
                                   ELSE IF Draws' THEN Place(rand') ELSE Nowhere]
  /\ drawn' = IF Draws' THEN drawn \cup Open' ELSE drawn \ Open'

Init ==
  /\ State = "Start" /\ row = 0 /\ column = 0 /\ Done = FALSE
  /\ rand \in PowerUp
  /\ objcounter = 0 /\ finish = FALSE
  /\ tl_obj = [i \in Obstacle |-> Nowhere]
  /\ seeded = FALSE /\ drawn = {}

Clock ==
  /\ \E enter, win \in BOOLEAN : RoundClk(enter, win)
  /\ BackgroundClk /\ CounterClk
  /\ rand' = Turn(rand)
  /\ Latches
  /\ UNCHANGED seeded

\* Mutant: the generator's counter is not reset.
CounterKept == objcounter' = objcounter /\ finish' = finish

CounterReset == objcounter' = 0 /\ finish' = FALSE

\* KEY[0] at any time, Enter on the game-over screen.  The latches have no reset.
Reset ==
  /\ State' = "Start" /\ row' = 0 /\ column' = 0 /\ Done' = FALSE
  /\ rand' = <<SeedX, SeedY>>
  /\ CounterReset
  /\ tl_obj' = [i \in Obstacle |-> IF i \in Open' THEN Nowhere ELSE tl_obj[i]]
  /\ seeded' = TRUE /\ drawn' = {}

Next == Clock \/ Reset

Spec == Init /\ [][Next]_vars

\* The oscillator does not stop.
LiveSpec == Spec /\ WF_vars(Clock)

----------------------------------------------------------------------------

TypeOK ==
  /\ State \in {"Start", "Generate", "Game", "Done"}
  /\ row \in 0 .. Rows - 1 /\ column \in 0 .. Cols - 1 /\ Done \in BOOLEAN
  /\ rand \in Registers
  /\ objcounter \in 0 .. number_obstacles + 1 /\ finish \in BOOLEAN
  /\ tl_obj \in [Obstacle -> Places \cup {Nowhere}]
  /\ seeded \in BOOLEAN /\ drawn \subseteq Obstacle

\* Play begins, and the game is decided, on a map of which every obstacle was drawn in this round.
\* The code asks neither for the first obstacle nor, from the second round on, for any (the latches
\* keep the last map, obstacle_gen.sv:89): it rests on a row of tiles taking longer than all obstacles.
AllDrawn == State \in {"Game", "Done"} => drawn = Obstacle

\* The map is complete when play begins and is the same to the end, although the latches stay
\* open to the counter (obstacle_gen.sv:45-70) and finish comes a clock late.
Map == INSTANCE Layout WITH
  stage <- State, map <- IF State \in {"Game", "Done"} THEN tl_obj ELSE NoMap

KeepsLayout == Map!Spec

\* The inductive invariant of AllDrawn and KeepsLayout.  The counter has reached the end when play
\* begins: without a reset because the latches it has not reached are empty, afterwards because
\* every clock draws and a row of tiles is longer than the list of obstacles.
Counting ==
  /\ State = "Start" => objcounter = 0 /\ ~finish /\ row = 0 /\ column = 0 /\ ~Done
  /\ finish => objcounter >= number_obstacles
  /\ Gen /\ objcounter > number_obstacles => finish
  /\ State \in {"Game", "Done"} => objcounter >= number_obstacles
  /\ seeded /\ Gen => objcounter >= number_obstacles \/ (row = 0 /\ ~Done /\ column <= objcounter)

Drawing ==
  /\ \A i \in Obstacle : (i < objcounter => i \in drawn) /\ (i > objcounter => i \notin drawn)
  /\ objcounter \in Obstacle => (objcounter \in drawn <=> Draws)
  /\ \A i \in drawn : tl_obj[i] \in Places
  /\ ~seeded => \A i \in Obstacle : tl_obj[i] # Nowhere => i \in drawn

IInv == TypeOK /\ (seeded => rand \in Orbit) /\ Counting /\ Drawing

\* After a reset, generation ends: background.sv's Done is up in every other clock only (lines 46-60), and the
\* generator waits for legal numbers, which the shift registers need not come to.
Generated == seeded /\ State = "Generate" ~> State # "Generate"

\* "to randomize the size and position of any obstacle" (random.sv:1-3): no obstacle is drawn on another.
Apart ==
  State = "Game" =>
    \A i, j \in Obstacle : i # j => tl_obj[i] # tl_obj[j]
=============================================================================

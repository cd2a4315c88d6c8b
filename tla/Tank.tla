-------------------------------- MODULE Tank --------------------------------
(***************************************************************************)
(* ball.sv and tankcollision.sv: the registers of one tank, what they      *)
(* become at a frame edge, and its power-up.  In the source FieldX = 639,  *)
(* FieldY = 429, TankSize = 8, Step = 1, PowerStep = 3, PowerFrames = 300  *)
(* and Contact = 16; the minima are 0.                                     *)
(***************************************************************************)
EXTENDS Arena

CONSTANTS FieldX, FieldY,    \* Ball_X_Max, Ball_Y_Max
          TankSize,          \* Ball_Size
          Step, PowerStep,   \* BallXStep = BallYStep, PowerStep
          PowerFrames,       \* where the power-up counter stops
          Contact            \* Width of tankcollision.sv

ASSUME TankAssumption ==
  /\ FieldX \in Nat /\ FieldY \in Nat /\ TankSize \in Nat /\ Contact \in Nat
  /\ Step \in Nat \ {0} /\ PowerStep \in Nat /\ Step <= PowerStep
  /\ PowerFrames \in 1 .. Word - 1
  /\ 2 * PowerStep <= TankSize            \* two steps fit between a bounce and the edge
  /\ 2 * TankSize + PowerStep < FieldX /\ 2 * TankSize + PowerStep < FieldY
  /\ FieldX + TankSize < Word /\ FieldY + TankSize < Word

Tanks == [x : 0 .. Word - 1, y : 0 .. Word - 1, xm : 0 .. Word - 1, ym : 0 .. Word - 1, dir : Dir]

\* The motion registers for s pixels in direction d.
VecX(d, s) == CASE d = 1 -> s [] d = 3 -> Wrap(-s) [] OTHER -> 0
VecY(d, s) == CASE d = 2 -> s [] d = 0 -> Wrap(-s) [] OTHER -> 0

Back(d) == (d + 2) % 4

\* Mutant: the size is subtracted from the unsigned position.
TopUnsigned(t) == Wrap(t.y - TankSize) <= 0

Bottom(t) == Wrap(t.y + TankSize) >= FieldY
Top(t)    == t.y <= TankSize
Right(t)  == Wrap(t.x + TankSize) >= FieldX

\* Mutant: the tank is turned only when its body has passed the edge.
LeftLate(t) == t.x + Step <= TankSize

Left(t) == t.x <= TankSize

AtEdge(t) == Bottom(t) \/ Top(t) \/ Right(t) \/ Left(t)

\* The direction that leads away from the edge that is tested first.
Inward(t) ==
  CASE Bottom(t)                              -> 0
    [] ~Bottom(t) /\ Top(t)                   -> 2
    [] ~Bottom(t) /\ ~Top(t) /\ Right(t)      -> 3
    [] ~Bottom(t) /\ ~Top(t) /\ ~Right(t)     -> 1

\* One key down: the tank faces its direction d and is pushed back when it is
\* blocked, by a single pixel if that is up or down.
Steered(t, d, blocked, s) ==
  IF blocked THEN <<Back(d), IF d \in {0, 2} THEN 1 ELSE s>>
  ELSE IF AtEdge(t) THEN <<Inward(t), s>>
  ELSE <<d, s>>

\* No key, or several: only the axis of the push or the bounce is written.
Coasting(t, obst, s) ==
  LET d == IF obst THEN Back(t.dir) ELSE Inward(t)
  IN  CASE ~obst /\ ~AtEdge(t) -> <<0, 0>>
        [] (obst \/ AtEdge(t)) /\ d \in {0, 2} -> <<t.xm, VecY(d, s)>>
        [] (obst \/ AtEdge(t)) /\ d \in {1, 3} -> <<VecX(d, s), t.ym>>

\* Mutant: the step is added in more than ten bits.
TankEdgeWide(t, key, obst, collide, s) ==
  LET v == Steered(t, key, obst \/ collide, s)
      m == IF key \in Dir THEN <<VecX(v[1], v[2]), VecY(v[1], v[2])>>
                          ELSE Coasting(t, obst, s)
  IN  [x |-> t.x + t.xm, y |-> t.y + t.ym, xm |-> m[1], ym |-> m[2],
       dir |-> IF key \in Dir THEN key ELSE t.dir]

\* The position takes the motion of the frame before; "key" is 0 .. 3 for a
\* single direction key and 4 for none or several.
TankEdge(t, key, obst, collide, s) ==
  LET v == Steered(t, key, obst \/ collide, s)
      m == IF key \in Dir THEN <<VecX(v[1], v[2]), VecY(v[1], v[2])>>
                          ELSE Coasting(t, obst, s)
  IN  [x |-> Wrap(t.x + t.xm), y |-> Wrap(t.y + t.ym), xm |-> m[1], ym |-> m[2],
       dir |-> IF key \in Dir THEN key ELSE t.dir]

\* Reset reads the step the tank has at that clock.
ResetTank(h, s) == [x |-> h.x, y |-> h.y, xm |-> 0, ym |-> s, dir |-> 0]

\* TANK_COLLISION of obstacle.sv and pickup.sv: a square of side w at corner c.
Touches(t, c, w) ==
  /\ t.x <= Wrap(c.x + w + TankSize) /\ Wrap(t.x + TankSize) >= c.x
  /\ t.y <= Wrap(c.y + w + TankSize) /\ Wrap(t.y + TankSize) >= c.y

Collide(a, b) == Within(Contact, a, b)

----------------------------------------------------------------------------
\* The power-up: State in the 50 MHz domain, the counter in that of VGA_VS.

StepOf(powered) == IF powered THEN PowerStep ELSE Step

\* Mutant: the counter is kept while the power-up is off.
CounterVSKept(powered, counter, pick) ==
  IF counter = PowerFrames \/ pick THEN 0
  ELSE IF powered THEN Wrap(counter + 1) ELSE counter

CounterVS(powered, counter, pick) ==
  IF ~powered \/ counter = PowerFrames \/ pick THEN 0 ELSE Wrap(counter + 1)

\* Mutant: the state machine waits for a count that is never reached.
PowerClkLate(powered, counter, pick) ==
  IF powered THEN counter # PowerFrames + 1 ELSE pick

PowerClk(powered, counter, pick) ==
  IF powered THEN counter # PowerFrames ELSE pick
=============================================================================

------------------------------- MODULE Bullet -------------------------------
(***************************************************************************)
(* bullet.sv: the registers of one bullet and what they become at a frame  *)
(* edge.  The board is a parameter, as it is in the source; the source's   *)
(* own values are XMax = 639, YMax = 479, BullMin = 2, BullSize = 3 and    *)
(* BulletStep = 5.                                                         *)
(***************************************************************************)
EXTENDS Arena

CONSTANTS XMax, YMax,   \* Bull_X_Max, Bull_Y_Max
          BullMin,      \* Bull_X_Min = Bull_Y_Min
          BullSize,     \* Bull_Size
          BulletStep    \* Bullet_Step

ASSUME BulletAssumption ==
  /\ XMax \in Nat /\ YMax \in Nat /\ BullMin \in Nat /\ BullSize \in Nat
  /\ BulletStep \in Nat \ {0}
  /\ BulletStep <= BullMin + BullSize + 1     \* a step never jumps past 0
  /\ XMax + BulletStep + BullSize < Word      \* nor past the register's top
  /\ YMax + BulletStep + BullSize < Word

\* The registers of bullet.sv; "shot" is is_shot, "dir" is Direc.
Bullets == [x : 0 .. Word - 1, y : 0 .. Word - 1, xm : 0 .. Word - 1,
            ym : 0 .. Word - 1, dir : Dir, shot : BOOLEAN]

\* Reset: the bullet takes the tank's position register as it is at that clock.
ResetBullet(t) ==
  [x |-> t.x, y |-> t.y, xm |-> 0, ym |-> 0, dir |-> 0, shot |-> FALSE]

\* Mutant: the edge tests of the left and the top with < for <=.
OffScreenStrict(b) ==
  \/ Wrap(b.y + BullSize) >= YMax
  \/ b.y < BullMin + BullSize
  \/ Wrap(b.x + BullSize) >= XMax
  \/ b.x < BullMin + BullSize

OffScreen(b) ==
  \/ Wrap(b.y + BullSize) >= YMax
  \/ b.y <= BullMin + BullSize
  \/ Wrap(b.x + BullSize) >= XMax
  \/ b.x <= BullMin + BullSize

\* Mutant: the vertical motion is not cleared.
RecallDrifting(b, t) ==
  [x |-> t.x, y |-> t.y, xm |-> 0, ym |-> b.ym, dir |-> b.dir, shot |-> FALSE]

\* Back to the tank, at rest.  The direction register is kept.
Recall(b, t) ==
  [x |-> t.x, y |-> t.y, xm |-> 0, ym |-> 0, dir |-> b.dir, shot |-> FALSE]

\* The motion registers take a step in direction d, an unused one is kept.
StepX(d, old) ==
  CASE d = 1 -> BulletStep [] d = 3 -> Wrap(-BulletStep) [] OTHER -> old
StepY(d, old) ==
  CASE d = 2 -> BulletStep [] d = 0 -> Wrap(-BulletStep) [] OTHER -> old

\* Mutant: no case for a shot upwards.
LaunchNoUp(b, d) ==
  [x |-> b.x, y |-> b.y, xm |-> StepX(d, b.xm), ym |-> IF d = 0 THEN b.ym ELSE StepY(d, b.ym),
   dir |-> d, shot |-> TRUE]

\* The position does not change in the frame of the launch.
Launch(b, d) ==
  [x |-> b.x, y |-> b.y, xm |-> StepX(d, b.xm), ym |-> StepY(d, b.ym),
   dir |-> d, shot |-> TRUE]

\* Mutant: the sum is kept in more than ten bits.
FlyWide(b) ==
  [x |-> b.x + b.xm, y |-> b.y + b.ym, xm |-> b.xm, ym |-> b.ym, dir |-> b.dir, shot |-> TRUE]

Fly(b) ==
  [x |-> Wrap(b.x + b.xm), y |-> Wrap(b.y + b.ym), xm |-> b.xm, ym |-> b.ym,
   dir |-> b.dir, shot |-> TRUE]

\* A resting bullet follows its tank.
Follow(b, t) ==
  [x |-> t.x, y |-> t.y, xm |-> b.xm, ym |-> b.ym, dir |-> b.dir, shot |-> FALSE]

\* A shot from the edge of the screen: the bullet turns but stays at rest.
Turn(t) ==
  [x |-> t.x, y |-> t.y, xm |-> 0, ym |-> 0, dir |-> t.dir, shot |-> FALSE]

\* The bullet after a frame edge: t is its tank, "shoot" the gated trigger and
\* "struck" is hittank || hitobj.  A resting bullet that is struck stays put.
BulletEdge(b, t, shoot, struck) ==
  CASE b.shot /\ (struck \/ OffScreen(b))                   -> Recall(b, t)
    [] b.shot /\ ~struck /\ ~OffScreen(b)                   -> Fly(b)
    [] ~b.shot /\ struck                                    -> b
    [] ~b.shot /\ ~struck /\ ~shoot                         -> Follow(b, t)
    [] ~b.shot /\ ~struck /\ shoot /\ OffScreen(b)          -> Turn(t)
    [] ~b.shot /\ ~struck /\ shoot /\ ~OffScreen(b)         -> Launch(b, t.dir)

----------------------------------------------------------------------------
\* What bullet.sv relies on about its own registers.

\* In the air the motion is along the axis of fire only; at rest it is zero.
Straight(b) ==
  IF b.shot
  THEN \/ b.dir = 0 /\ b.xm = 0 /\ b.ym = Word - BulletStep
       \/ b.dir = 1 /\ b.xm = BulletStep /\ b.ym = 0
       \/ b.dir = 2 /\ b.xm = 0 /\ b.ym = BulletStep
       \/ b.dir = 3 /\ b.xm = Word - BulletStep /\ b.ym = 0
  ELSE b.xm = 0 /\ b.ym = 0

\* At most a step outside the board: never on the far side of a wrapped register.
OnScreen(b) == b.x <= XMax + BulletStep /\ b.y <= YMax + BulletStep
=============================================================================

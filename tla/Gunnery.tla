------------------------------ MODULE Gunnery ------------------------------
(***************************************************************************)
(* The duel: two bullets (bullet.sv), what they strike                     *)
(* (bullet_collision.sv, obstacle.sv), the health bars (health.sv) and the *)
(* round (statemachine.sv), wired as lab8.sv wires them.  Every register   *)
(* has the same clock.  A step is one rising edge of Clk: ClkTick without  *)
(* and FrameTick with frame_clk_rising_edge, Reset with Reset_h.  What     *)
(* ball.sv, the keys and the map generators feed in is chosen freely.      *)
(***************************************************************************)
EXTENDS Bullet, Obstacle

CONSTANTS HP,           \* health_init (10)
          HitRadius,    \* TankSize + BullSize of bullet_collision.sv (11)
          Cover,        \* the obstacles (16 of them)
          Corners,      \* positions the generator may give a corner
          Drift,        \* those of an obstacle generated below (12, 12)
          Formations,   \* joint tank poses that ball.sv may reach
          TankStep,     \* the most a tank moves on an axis in a frame (PowerStep, 3)
          Home          \* the formation after reset

Poses == [x : 0 .. XMax, y : 0 .. YMax, dir : Dir]

ASSUME GunneryAssumption ==
  /\ HP \in 1 .. 15 /\ HitRadius \in Nat /\ TankStep \in Nat
  /\ Corners \subseteq [x : 0 .. Word - 1, y : 0 .. Word - 1]
  /\ Drift \subseteq Corners
  /\ Formations \subseteq [Player -> Poses]
  /\ Home \in Formations

\* What keeps a bullet from jumping over cover (5 <= 9 in the source), and the
\* sums of obstacle.sv from wrapping.
ASSUME CoverAssumption ==
  /\ BulletStep <= CoverSize + BullHalf
  /\ XMax + BulletStep + CoverSize + BullHalf < Word
  /\ YMax + BulletStep + CoverSize + BullHalf < Word

VARIABLES phase,    \* State of statemachine.sv
          hp, done, \* hp_p1, hp_p2 and the Win latch of health.sv
          hit,      \* State1, State2 of health.sv: TRUE is Hit
          bul,      \* both bullets
          tank,     \* both tanks, the outputs of ball.sv
          obst,     \* hit counter and state of every obstacle
          corner    \* tl_corner_x, tl_corner_y of every obstacle

vars == <<phase, hp, done, hit, bul, tank, obst, corner>>

----------------------------------------------------------------------------
\* Combinational signals.

\* hittank1, hittank2: the opponent's bullet is within reach of tank q.
Hittank(q) == Within(HitRadius, tank[q], bul[Other(q)])

\* hitobj1, hitobj2: some standing obstacle covers p's bullet.
Hitobj(p) == \E o \in Cover : Covers(obst[o], corner[o], bul[p])

\* Mutant: each bullet is wired to its own tank's hittank signal.
StruckSwapped(p) == Hittank(p) \/ Hitobj(p)

Struck(p) == Hittank(Other(p)) \/ Hitobj(p)

\* Mutant: the start screen does not disable the keys.
EnabledEarly == ~done

\* The signal "stop" of lab8.sv, which enables keys and triggers.
Enabled == ~done /\ phase # "Start"

Dead == hp[1] = 0 \/ hp[2] = 0

\* Mutant: damage by level, without the hit state machine.
DamagedByLevel(q) ==
  hp[1] # 0 /\ hp[q] # 0 /\ Hittank(q) /\ bul[Other(q)].shot

\* CALCULATE_HIT: both players' branches test player 1's health first.
Damaged(q) ==
  /\ ~hit[q] /\ hp[1] # 0 /\ hp[q] # 0
  /\ Hittank(q) /\ bul[Other(q)].shot

----------------------------------------------------------------------------
\* The next value of each register, frame edge or not.

RoundClk ==
  \/ phase = "Start"    /\ phase' \in {"Start", "Generate"}   \* Enter_key
  \/ phase = "Generate" /\ phase' \in {"Generate", "Game"}    \* All_Gen_Done
  \/ phase = "Game"     /\ phase' = (IF done THEN "Done" ELSE "Game")
  \/ phase = "Done"     /\ phase' = "Done"

\* Mutant: only player 1's death ends the game.
HealthClkOneSided ==
  /\ hp'   = [q \in Player |-> IF Damaged(q) THEN (hp[q] + 15) % 16 ELSE hp[q]]
  /\ done' = (done \/ hp[1] = 0)
  /\ hit'  = [q \in Player |-> Hittank(q)]

HealthClk ==
  /\ hp'   = [q \in Player |-> IF Damaged(q) THEN (hp[q] + 15) % 16 ELSE hp[q]]
  /\ done' = (done \/ Dead)
  /\ hit'  = [q \in Player |-> Hittank(q)]

ObstacleStep ==
  obst' = [o \in Cover |->
             ObstacleClk(obst[o], \E p \in Player : Covers(obst[o], corner[o], bul[p]))]

\* The corner array is a latch, transparent while the generator is at an entry.
\* A corner below (12, 12) is displaced by a random offset, a new one every clock.
CornerStep ==
  /\ corner' \in [Cover -> Corners]
  /\ phase \in {"Game", "Done"} => \A o \in Cover :
        corner'[o] = corner[o] \/ (corner[o] \in Drift /\ corner'[o] \in Drift)

Clocked == RoundClk /\ HealthClk /\ ObstacleStep /\ CornerStep

----------------------------------------------------------------------------
Init ==
  /\ phase = "Start" /\ done = FALSE
  /\ hp   = [q \in Player |-> HP]
  /\ hit  = [q \in Player |-> FALSE]
  /\ tank = Home
  /\ bul  = [p \in Player |-> ResetBullet(Home[p])]
  /\ obst = [o \in Cover |-> ResetObstacle]
  /\ corner \in [Cover -> Corners]

\* ball.sv adds each motion register once per frame, and a tank without keys
\* keeps its direction.
Near(a, b) == a - b <= TankStep /\ b - a <= TankStep
Drive(f) ==
  \A p \in Player :
    /\ Near(f[p].x, tank[p].x) /\ Near(f[p].y, tank[p].y)
    /\ Enabled \/ f[p].dir = tank[p].dir

ClkTick == Clocked /\ UNCHANGED <<bul, tank>>

\* "trigger" is the set of players whose shoot key is down.
FrameTick ==
  /\ Clocked
  /\ \E f \in Formations : Drive(f) /\ tank' = f
  /\ \E trigger \in SUBSET Player :
       bul' = [p \in Player |->
                 BulletEdge(bul[p], tank[p], p \in trigger /\ Enabled, Struck(p))]

\* KEY[0] at any time, Enter on the game-over screen.  The bullets take the
\* tanks' positions of before the reset, which the tanks leave at that clock.
Reset ==
  /\ phase' = "Start" /\ done' = FALSE
  /\ hp'   = [q \in Player |-> HP]
  /\ hit'  = [q \in Player |-> FALSE]
  /\ tank' = Home
  /\ bul'  = [p \in Player |-> ResetBullet(tank[p])]
  /\ obst' = [o \in Cover |-> ResetObstacle]
  /\ corner' \in [Cover -> Corners]

Next == ClkTick \/ FrameTick \/ Reset

Spec == Init /\ [][Next]_vars

\* The display controller never stops, and each of its frame edges is a clock.
Fairness == WF_vars(FrameTick)

LiveSpec == Spec /\ Fairness
----------------------------------------------------------------------------
\* Properties.

TypeOK ==
  /\ phase \in {"Start", "Generate", "Game", "Done"}
  /\ hp \in [Player -> 0 .. HP] /\ done \in BOOLEAN
  /\ hit \in [Player -> BOOLEAN]
  /\ bul \in [Player -> Bullets] /\ tank \in Formations
  /\ obst \in [Cover -> Obstacles] /\ corner \in [Cover -> Corners]

(* A bullet in the air moves along the axis it was fired on, in the         *)
(* direction it was fired in, and a bullet at rest has no motion left over  *)
(* from an earlier flight (bullet.sv writes one motion register per launch  *)
(* and relies on the other being zero).                                     *)
StraightFlight == \A p \in Player : Straight(bul[p])

(* The edge tests of bullet.sv catch every bullet before its ten-bit        *)
(* position wraps to the opposite side of the screen.                       *)
InScreen == \A p \in Player : OnScreen(bul[p])

(* A health state machine is in Hit during the opponent's flight only for   *)
(* as long as that very bullet touches the tank: it is rearmed when the     *)
(* next shot starts, so no landing is swallowed by an earlier one.          *)
HitIsThisShot ==
  \A p \in Player : bul[p].shot /\ hit[Other(p)] => Hittank(Other(p))

(* Win is only announced when somebody is dead, and the game-over screen is *)
(* only reached with Win; at the start screen both players are whole,       *)
(* nobody has won and nothing is in the air, whatever the last game left.   *)
RoundConsistent ==
  /\ done => Dead
  /\ phase = "Done" => done
  /\ phase = "Start" =>
       /\ ~done /\ hp = [q \in Player |-> HP]
       /\ \A p \in Player : ~bul[p].shot

(* The hit counter stops at MaxHits: an obstacle that is gone does not come *)
(* back by its counter running on, and the counter never wraps.             *)
CoverCount ==
  \A o \in Cover : obst[o].hits <= MaxHits /\ (obst[o].st = "Hit" => Standing(obst[o]))

\* The bullet goes from one side of the corner's square to the other, along
\* one axis, in one step.
Across(a, a2, c) == (a < c /\ a2 >= c + CoverSize) \/ (a2 < c /\ a >= c + CoverSize)
Beside(a, c) == a \in c .. c + CoverSize - 1
Tunnels(b, b2, c) ==
  \/ Beside(b.y, c.y) /\ b2.y = b.y /\ Across(b.x, b2.x, c.x)
  \/ Beside(b.x, c.x) /\ b2.x = b.x /\ Across(b.y, b2.y, c.y)

(* A bullet never jumps over a standing obstacle between two frames: the    *)
(* step is short enough for the square that its position is tested against. *)
NoTunnelling ==
  [][\A p \in Player, o \in Cover :
       bul[p].shot /\ bul'[p].shot /\ Standing(obst[o])
         => ~Tunnels(bul[p], bul'[p], corner[o])]_vars

\* The duel keeps the promises of the abstract match.
Promise == INSTANCE Match WITH
  stage <- phase, points <- hp, over <- done,
  flying <- [p \in Player |-> bul[p].shot],
  spent  <- [p \in Player |-> bul[p].shot /\ hit[Other(p)]]

(* The inductive invariant: the six together are preserved by every step.   *)
IInv ==
  TypeOK /\ StraightFlight /\ InScreen /\ HitIsThisShot /\ RoundConsistent /\ CoverCount

(* Every step of the hardware is a step of the abstract match: in           *)
(* particular one flight costs at most one point (two state machines in     *)
(* health.sv), and a landing in an open match always costs it.              *)
KeepsPromise == Promise!Spec

\* How far a bullet in the air is from the end of the screen that it flies at.
Ahead(b) ==
  IF b.dir = 0 THEN b.y
  ELSE IF b.dir = 1 THEN XMax + BulletStep - b.x
  ELSE IF b.dir = 2 THEN YMax + BulletStep - b.y
  ELSE b.x

(* Every frame edge ends a flight or brings the bullet nearer to the end of *)
(* the screen, and never past it: a flight is over, at the latest, when the *)
(* distance is used up, whatever the tanks, the obstacles and the keys do.  *)
Shortens ==
  [][\A p \in Player :
       bul[p].shot /\ bul'[p].shot /\ FrameTick => Ahead(bul'[p]) \in 0 .. Ahead(bul[p]) - 1]_vars

(* A shot comes to its end - at an obstacle, a tank or the edge - so the    *)
(* player is never left with a bullet that flies for ever.                  *)
FlightEnds == \A p \in Player : bul[p].shot ~> ~bul[p].shot

(* A game in which somebody is dead reaches the game-over screen (or is     *)
(* reset), though the shots still in the air may go on hitting.             *)
GameEnds == (phase = "Game" /\ Dead) ~> (phase \in {"Done", "Start"})

(* "To keep the bullet at the center of the tank" (bullet.sv:4): during     *)
(* play, a bullet that is not in the air is after a frame edge where its    *)
(* tank was before it.                                                      *)
Carried ==
  [][FrameTick /\ Enabled => \A p \in Player :
       ~bul[p].shot /\ ~bul'[p].shot
         => bul'[p].x = tank[p].x /\ bul'[p].y = tank[p].y]_vars

(* "same as above" (health.sv:132): player 2's branch treats a landing as   *)
(* player 1's does, a live player who is hit loses a point.                 *)
SameForBoth ==
  [][\A q \in Player :
       (/\ phase # "Start" /\ phase' # "Start"
        /\ ~hit[q] /\ Hittank(q) /\ bul[Other(q)].shot /\ hp[q] # 0)
       => hp'[q] # hp[q]]_vars
=============================================================================

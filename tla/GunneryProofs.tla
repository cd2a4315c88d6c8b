--------------------------- MODULE GunneryProofs ---------------------------
(***************************************************************************)
(* The invariants of Gunnery for every board, health, set of obstacles and *)
(* set of tank formations that the assumptions allow.                      *)
(***************************************************************************)
EXTENDS Gunnery, TLAPS

(* The opponent of the opponent is the player.                             *)
LEMMA OtherPlayer == \A p \in Player : Other(p) \in Player /\ Other(Other(p)) = p
  BY DEF Player, Other

(* The registers of a bullet, one by one.                                  *)
LEMMA BulletFields ==
  ASSUME NEW b \in Bullets
  PROVE  /\ b.x \in 0 .. Word - 1 /\ b.y \in 0 .. Word - 1 /\ b.xm \in 0 .. Word - 1
         /\ b.ym \in 0 .. Word - 1 /\ b.dir \in Dir /\ b.shot \in BOOLEAN
  BY DEF Bullets

(* A tank's position is in range for a bullet register.                    *)
LEMMA OnBoard ==
  ASSUME NEW x \in 0 .. XMax, NEW y \in 0 .. YMax
  PROVE  /\ x \in 0 .. Word - 1 /\ y \in 0 .. Word - 1
         /\ x <= XMax + BulletStep /\ y <= YMax + BulletStep
  BY BulletAssumption DEF Word

(* The outputs of a tank, one by one.                                      *)
LEMMA PoseFields ==
  ASSUME NEW t \in Poses
  PROVE  /\ t.x \in 0 .. XMax /\ t.y \in 0 .. YMax /\ t.dir \in Dir
  BY DEF Poses

(* A bullet put back to its tank is sound.                                 *)
LEMMA RestSound ==
  ASSUME NEW x \in 0 .. XMax, NEW y \in 0 .. YMax, NEW d \in Dir
  PROVE  LET c == [x |-> x, y |-> y, xm |-> 0, ym |-> 0, dir |-> d, shot |-> FALSE]
         IN  c \in Bullets /\ Straight(c) /\ OnScreen(c)
<1> DEFINE c == [x |-> x, y |-> y, xm |-> 0, ym |-> 0, dir |-> d, shot |-> FALSE]
<1>1. c \in Bullets
  BY OnBoard DEF Bullets, Word
<1>2. Straight(c)
  BY DEF Straight
<1>3. OnScreen(c)
  BY OnBoard DEF OnScreen
<1> QED BY <1>1, <1>2, <1>3

(* The ten-bit sums of a flight: a motion register that holds 2^10 - step   *)
(* subtracts the step, and no sum leaves the board by more than a step.     *)
LEMMA FlyArith ==
  ASSUME NEW max \in {XMax, YMax}, NEW x \in 0 .. Word - 1,
         BullMin + BullSize < x, x + BullSize < max
  PROVE  /\ Wrap(x + 0) = x /\ Wrap(x + BulletStep) = x + BulletStep
         /\ Wrap(x + (Word - BulletStep)) = x - BulletStep
         /\ x - BulletStep \in 0 .. Word - 1 /\ x + BulletStep \in 0 .. Word - 1
         /\ x + BulletStep <= max + BulletStep
         /\ x <= max + BulletStep /\ x - BulletStep <= max + BulletStep
  BY BulletAssumption DEF Wrap, Word

(* What it means on the board that the edge tests of bullet.sv fail.        *)
LEMMA Inside ==
  ASSUME NEW x \in 0 .. Word - 1
  PROVE  /\ x <= XMax + BulletStep /\ ~(Wrap(x + BullSize) >= XMax) => x + BullSize < XMax
         /\ x <= YMax + BulletStep /\ ~(Wrap(x + BullSize) >= YMax) => x + BullSize < YMax
         /\ ~(x <= BullMin + BullSize) => BullMin + BullSize < x
  BY BulletAssumption DEF Wrap, Word

(* One frame of flight away from the edges.                                *)
LEMMA FlySound ==
  ASSUME NEW b \in Bullets, Straight(b), OnScreen(b), b.shot, ~OffScreen(b)
  PROVE  Fly(b) \in Bullets /\ Straight(Fly(b)) /\ OnScreen(Fly(b))
<1>1. /\ BullMin + BullSize < b.x /\ b.x + BullSize < XMax
      /\ BullMin + BullSize < b.y /\ b.y + BullSize < YMax
  BY BulletFields, Inside DEF OnScreen, OffScreen
<1>2. /\ Fly(b).x = Wrap(b.x + b.xm) /\ Fly(b).y = Wrap(b.y + b.ym) /\ Fly(b).xm = b.xm
      /\ Fly(b).ym = b.ym /\ Fly(b).dir = b.dir /\ Fly(b).shot = TRUE
  BY DEF Fly
<1>3. /\ Fly(b).x \in 0 .. Word - 1 /\ Fly(b).x <= XMax + BulletStep
      /\ Fly(b).y \in 0 .. Word - 1 /\ Fly(b).y <= YMax + BulletStep
  <2>1. b.xm \in {0, BulletStep, Word - BulletStep} /\ b.ym \in {0, BulletStep, Word - BulletStep}
    BY DEF Straight
  <2>2. /\ Wrap(b.x + b.xm) \in 0 .. Word - 1 /\ Wrap(b.x + b.xm) <= XMax + BulletStep
    BY <1>1, <2>1, FlyArith, BulletFields
  <2>3. /\ Wrap(b.y + b.ym) \in 0 .. Word - 1 /\ Wrap(b.y + b.ym) <= YMax + BulletStep
    BY <1>1, <2>1, FlyArith, BulletFields
  <2> QED BY <1>2, <2>2, <2>3
<1>4. Fly(b) \in Bullets
  <2>1. Wrap(b.x + b.xm) \in 0 .. Word - 1 /\ Wrap(b.y + b.ym) \in 0 .. Word - 1
    BY <1>2, <1>3
  <2> QED BY <2>1, BulletFields DEF Fly, Bullets
<1>5. Straight(Fly(b))
  BY <1>2 DEF Straight
<1>6. OnScreen(Fly(b))
  BY <1>2, <1>3 DEF OnScreen
<1> QED BY <1>4, <1>5, <1>6

(* A launch from rest sets exactly one motion register.                     *)
LEMMA LaunchSound ==
  ASSUME NEW b \in Bullets, Straight(b), OnScreen(b), ~b.shot, NEW d \in Dir
  PROVE  Launch(b, d) \in Bullets /\ Straight(Launch(b, d)) /\ OnScreen(Launch(b, d))
<1>1. Wrap(-BulletStep) = Word - BulletStep /\ BulletStep \in 0 .. Word - 1
      /\ Word - BulletStep \in 0 .. Word - 1
  BY BulletAssumption DEF Wrap, Word
<1>2. b.xm = 0 /\ b.ym = 0
  BY DEF Straight
<1>3. /\ StepX(d, b.xm) = IF d = 1 THEN BulletStep ELSE IF d = 3 THEN Word - BulletStep ELSE 0
      /\ StepY(d, b.ym) = IF d = 2 THEN BulletStep ELSE IF d = 0 THEN Word - BulletStep ELSE 0
  BY <1>1, <1>2 DEF StepX, StepY
<1>4. Launch(b, d) \in Bullets
  <2>1. StepX(d, b.xm) \in 0 .. Word - 1 /\ StepY(d, b.ym) \in 0 .. Word - 1
    BY <1>1, <1>3 DEF Word
  <2> QED BY <2>1, BulletFields DEF Launch, Bullets
<1>5. Straight(Launch(b, d))
  BY <1>3 DEF Launch, Straight, Dir
<1>6. OnScreen(Launch(b, d))
  BY DEF Launch, OnScreen
<1> QED BY <1>4, <1>5, <1>6

(* Whatever a frame edge does to a bullet, its registers stay in range, its *)
(* motion on one axis and its position on the screen.                      *)
LEMMA BulletEdgeSound ==
  ASSUME NEW b \in Bullets, Straight(b), OnScreen(b),
         NEW t \in Poses, NEW shoot \in BOOLEAN, NEW struck \in BOOLEAN
  PROVE  /\ BulletEdge(b, t, shoot, struck) \in Bullets
         /\ Straight(BulletEdge(b, t, shoot, struck))
         /\ OnScreen(BulletEdge(b, t, shoot, struck))
<1>1. /\ Recall(b, t) \in Bullets /\ Straight(Recall(b, t)) /\ OnScreen(Recall(b, t))
      /\ Turn(t) \in Bullets /\ Straight(Turn(t)) /\ OnScreen(Turn(t))
  BY RestSound, PoseFields, BulletFields DEF Recall, Turn
<1>2. CASE b.shot /\ (struck \/ OffScreen(b))
  BY <1>1, <1>2 DEF BulletEdge
<1>3. CASE b.shot /\ ~struck /\ ~OffScreen(b)
  BY <1>3, FlySound DEF BulletEdge
<1>4. CASE ~b.shot /\ struck
  BY <1>4 DEF BulletEdge
<1>5. CASE ~b.shot /\ ~struck /\ ~shoot
  <2>1. Follow(b, t) = Recall(b, t)
    BY <1>5 DEF Follow, Recall, Straight
  <2> QED BY <1>1, <1>5, <2>1 DEF BulletEdge
<1>6. CASE ~b.shot /\ ~struck /\ shoot /\ OffScreen(b)
  BY <1>1, <1>6 DEF BulletEdge
<1>7. CASE ~b.shot /\ ~struck /\ shoot /\ ~OffScreen(b)
  BY <1>7, LaunchSound, PoseFields DEF BulletEdge
<1> QED BY <1>2, <1>3, <1>4, <1>5, <1>6, <1>7

(* A bullet that is struck is not in the air after the frame edge, and a   *)
(* resting bullet stays at rest without a trigger.                         *)
LEMMA NotInAir ==
  ASSUME NEW b \in Bullets, NEW t \in Poses, NEW shoot \in BOOLEAN, NEW struck \in BOOLEAN,
         struck \/ (~b.shot /\ ~shoot)
  PROVE  ~BulletEdge(b, t, shoot, struck).shot
<1>1. CASE b.shot /\ struck
  BY <1>1 DEF BulletEdge, Recall
<1>2. CASE ~b.shot /\ struck
  BY <1>2 DEF BulletEdge
<1>3. CASE ~b.shot /\ ~struck /\ ~shoot
  BY <1>3 DEF BulletEdge, Follow
<1> QED BY <1>1, <1>2, <1>3 DEF Bullets

----------------------------------------------------------------------------

(* The values that a reset gives an obstacle and the health registers.      *)
LEMMA FreshObstacle == ResetObstacle \in Obstacles
  BY DEF ResetObstacle, Obstacles

LEMMA FreshHealth ==
  /\ [q \in Player |-> HP] \in [Player -> 0 .. HP]
  /\ [q \in Player |-> FALSE] \in [Player -> BOOLEAN]
<1>1. HP \in 0 .. HP
  BY GunneryAssumption
<1> QED BY <1>1

(* After a reset the invariant holds, whatever state it interrupted.       *)
LEMMA InitInvariant == Init => IInv
<1> SUFFICES ASSUME Init PROVE IInv
  OBVIOUS
<1> USE GunneryAssumption, ObstacleAssumption
<1>1. Home \in [Player -> Poses]
  OBVIOUS
<1>2. \A p \in Player : /\ bul[p] \in Bullets /\ Straight(bul[p]) /\ OnScreen(bul[p])
                        /\ ~bul[p].shot
  <2> TAKE p \in Player
  <2>1. bul[p] = [x |-> Home[p].x, y |-> Home[p].y, xm |-> 0, ym |-> 0, dir |-> 0, shot |-> FALSE]
    BY DEF Init, ResetBullet
  <2>2. Home[p].x \in 0 .. XMax /\ Home[p].y \in 0 .. YMax /\ 0 \in Dir
    BY <1>1, PoseFields DEF Dir
  <2> QED BY <2>1, <2>2, RestSound
<1>3. TypeOK
  <2>1. bul \in [Player -> Bullets]
    BY <1>2 DEF Init
  <2>2. obst \in [Cover -> Obstacles]
    BY FreshObstacle DEF Init
  <2>3. hp \in [Player -> 0 .. HP] /\ hit \in [Player -> BOOLEAN]
    BY FreshHealth DEF Init
  <2>4. corner \in [Cover -> Corners] /\ tank \in Formations /\ done \in BOOLEAN
        /\ phase \in {"Start", "Generate", "Game", "Done"}
    BY DEF Init
  <2> QED BY <2>1, <2>2, <2>3, <2>4 DEF TypeOK
<1>4. CoverCount
  BY DEF Init, CoverCount, ResetObstacle, Standing
<1>5. StraightFlight /\ InScreen /\ HitIsThisShot /\ RoundConsistent
  BY <1>2 DEF Init, StraightFlight, InScreen, HitIsThisShot, RoundConsistent
<1> QED BY <1>3, <1>4, <1>5 DEF IInv

(* health.sv: the points stay in range, a decided match stays decided.     *)
LEMMA HealthStep ==
  ASSUME TypeOK, HealthClk
  PROVE  /\ hp' \in [Player -> 0 .. HP] /\ done' \in BOOLEAN /\ hit' \in [Player -> BOOLEAN]
         /\ Dead => Dead'
         /\ \A q \in Player : hp'[q] = IF Damaged(q) THEN hp[q] - 1 ELSE hp[q]
<1>1. ASSUME NEW q \in Player
      PROVE  hp'[q] \in 0 .. HP /\ hp'[q] = IF Damaged(q) THEN hp[q] - 1 ELSE hp[q]
  <2>1. hp[q] \in 0 .. HP /\ hp'[q] = IF Damaged(q) THEN (hp[q] + 15) % 16 ELSE hp[q]
    BY DEF TypeOK, HealthClk
  <2>2. CASE Damaged(q)
    <3>1. hp[q] # 0
      BY <2>2 DEF Damaged
    <3> QED BY <2>1, <2>2, <3>1, GunneryAssumption
  <2>3. CASE ~Damaged(q)
    BY <2>1, <2>3
  <2> QED BY <2>2, <2>3
<1>2. hp' \in [Player -> 0 .. HP]
  BY <1>1 DEF HealthClk
<1>3. done' \in BOOLEAN /\ hit' \in [Player -> BOOLEAN]
  BY DEF HealthClk, TypeOK, Hittank, Within
<1>4. Dead => Dead'
  BY <1>1 DEF Dead, Damaged, Player
<1> QED BY <1>1, <1>2, <1>3, <1>4

(* obstacle.sv: the hit counter of every obstacle.                         *)
LEMMA CoverStep ==
  ASSUME TypeOK, CoverCount, ObstacleStep
  PROVE  obst' \in [Cover -> Obstacles] /\ CoverCount'
<1>1. ASSUME NEW o \in Cover
      PROVE  /\ obst'[o] \in Obstacles
             /\ obst'[o].hits <= MaxHits /\ (obst'[o].st = "Hit" => obst'[o].hits < MaxHits)
  <2> DEFINE s == \E p \in Player : Covers(obst[o], corner[o], bul[p])
  <2>1. obst'[o] = ObstacleClk(obst[o], s)
    BY DEF ObstacleStep
  <2>2. /\ obst[o].hits \in 0 .. 15 /\ obst[o].st \in {"Not_Hit", "Hit", "Hit_1"}
        /\ obst[o].hits <= MaxHits /\ (obst[o].st = "Hit" => obst[o].hits < MaxHits)
    BY DEF TypeOK, Obstacles, CoverCount, Standing
  <2>3. s => obst[o].hits < MaxHits
    BY DEF Covers, Standing
  <2> HIDE DEF s
  <2>4. CASE obst[o].st = "Hit"
    <3>1. obst'[o] = [hits |-> obst[o].hits + 1, st |-> "Hit_1"]
      BY <2>1, <2>2, <2>4, ObstacleAssumption DEF ObstacleClk
    <3>2. obst[o].hits + 1 \in 0 .. 15 /\ obst[o].hits + 1 <= MaxHits
      BY <2>2, <2>4, ObstacleAssumption
    <3> QED BY <3>1, <3>2 DEF Obstacles
  <2>5. CASE obst[o].st # "Hit"
    <3>1. /\ obst'[o].hits = obst[o].hits
          /\ obst'[o] = [hits |-> obst[o].hits, st |-> obst'[o].st]
          /\ obst'[o].st \in {"Not_Hit", "Hit", "Hit_1"}
          /\ obst'[o].st = "Hit" => s
      BY <2>1, <2>2, <2>5 DEF ObstacleClk
    <3>2. obst'[o] \in Obstacles
      BY <3>1, <2>2 DEF Obstacles
    <3> QED BY <3>1, <3>2, <2>2, <2>3
  <2> QED BY <2>4, <2>5
<1>2. obst' \in [Cover -> Obstacles]
  BY <1>1 DEF ObstacleStep
<1> QED BY <1>1, <1>2 DEF CoverCount, Standing

(* The part of the invariant that depends only on what every clock does.   *)
LEMMA ClockedStep ==
  ASSUME IInv, Clocked
  PROVE  /\ phase' \in {"Start", "Generate", "Game", "Done"}
         /\ hp' \in [Player -> 0 .. HP] /\ done' \in BOOLEAN /\ hit' \in [Player -> BOOLEAN]
         /\ obst' \in [Cover -> Obstacles] /\ corner' \in [Cover -> Corners] /\ CoverCount'
         /\ done' => Dead'
         /\ phase' = "Done" => done'
         /\ phase' = "Start" =>
              ~done' /\ hp' = [q \in Player |-> HP] /\ (\A p \in Player : ~bul[p].shot) /\ ~Enabled
<1> USE DEF IInv, Clocked
<1>1. phase' \in {"Start", "Generate", "Game", "Done"}
  BY DEF RoundClk
<1>2. corner' \in [Cover -> Corners]
  BY DEF CornerStep, TypeOK
<1>3. done' => Dead'
  BY HealthStep DEF HealthClk, RoundConsistent
<1>4. phase' = "Done" => done'
  BY DEF RoundClk, HealthClk, RoundConsistent
<1>5. ASSUME phase' = "Start"
      PROVE  ~done' /\ hp' = [q \in Player |-> HP] /\ (\A p \in Player : ~bul[p].shot) /\ ~Enabled
  <2>1. phase = "Start"
    BY <1>5 DEF RoundClk
  <2>2. ~done /\ hp = [q \in Player |-> HP] /\ \A p \in Player : ~bul[p].shot
    BY <2>1 DEF RoundConsistent
  <2>3. ~done'
    <3>1. hp[1] = HP /\ hp[2] = HP
      BY <2>2 DEF Player
    <3>2. HP # 0
      BY GunneryAssumption
    <3>3. ~Dead
      BY <3>1, <3>2 DEF Dead
    <3>4. done' = (done \/ Dead)
      BY DEF HealthClk
    <3> QED BY <2>2, <3>3, <3>4
  <2>4. \A q \in Player : ~Damaged(q)
    BY <2>2, OtherPlayer DEF Damaged
  <2>5. hp' = [q \in Player |-> HP]
    BY <2>2, <2>4 DEF HealthClk
  <2> QED BY <2>1, <2>2, <2>3, <2>5 DEF Enabled
<1> QED BY <1>1, <1>2, <1>3, <1>4, <1>5, HealthStep, CoverStep

(* Every clock preserves the invariant.                                    *)
LEMMA NextInvariant == IInv /\ [Next]_vars => IInv'
<1> SUFFICES ASSUME IInv, [Next]_vars PROVE IInv'
  OBVIOUS
<1>1. CASE ClkTick
  <2>1. Clocked /\ bul' = bul /\ tank' = tank
    BY <1>1 DEF ClkTick
  <2>2. TypeOK'
    BY <2>1, ClockedStep DEF IInv, TypeOK
  <2>3. StraightFlight' /\ InScreen'
    BY <2>1 DEF IInv, StraightFlight, InScreen
  <2>4. HitIsThisShot'
    <3> SUFFICES ASSUME NEW p \in Player, hit'[Other(p)] PROVE Hittank(Other(p))'
      BY DEF HitIsThisShot
    <3>1. Hittank(Other(p))
      BY <2>1, OtherPlayer DEF Clocked, HealthClk
    <3> QED BY <2>1, <3>1 DEF Hittank
  <2>5. RoundConsistent'
    BY <2>1, ClockedStep DEF RoundConsistent
  <2> QED BY <2>1, <2>2, <2>3, <2>4, <2>5, ClockedStep DEF IInv
<1>2. CASE FrameTick
  <2>1. Clocked
    BY <1>2 DEF FrameTick
  <2>2. PICK trigger \in SUBSET Player :
          bul' = [p \in Player |->
                    BulletEdge(bul[p], tank[p], p \in trigger /\ Enabled, Struck(p))]
    BY <1>2 DEF FrameTick
  <2>3. \A p \in Player : /\ bul[p] \in Bullets /\ Straight(bul[p]) /\ OnScreen(bul[p])
                          /\ tank[p] \in Poses
    BY GunneryAssumption DEF IInv, TypeOK, StraightFlight, InScreen
  <2>4. \A p \in Player : Struck(p) \in BOOLEAN /\ (p \in trigger /\ Enabled) \in BOOLEAN
    BY DEF Struck
  <2>5. \A p \in Player : bul'[p] \in Bullets /\ Straight(bul'[p]) /\ OnScreen(bul'[p])
    BY <2>2, <2>3, <2>4, BulletEdgeSound
  <2>6. TypeOK'
    <3>1. bul' \in [Player -> Bullets]
      BY <2>2, <2>5
    <3>2. tank' \in Formations
      BY <1>2 DEF FrameTick
    <3> QED BY <2>1, <3>1, <3>2, ClockedStep DEF IInv, TypeOK
  <2>7. StraightFlight' /\ InScreen'
    BY <2>5 DEF StraightFlight, InScreen
  <2>8. HitIsThisShot'
    <3> SUFFICES ASSUME NEW p \in Player, bul'[p].shot PROVE ~hit'[Other(p)]
      BY DEF HitIsThisShot
    <3>1. ~Struck(p)
      BY <2>2, <2>3, <2>4, NotInAir
    <3> QED BY <2>1, <3>1, OtherPlayer DEF Struck, Clocked, HealthClk
  <2>9. RoundConsistent'
    <3>1. phase' = "Start" => \A p \in Player : ~bul'[p].shot
      BY <2>1, <2>2, <2>3, <2>4, ClockedStep, NotInAir
    <3> QED BY <2>1, <3>1, ClockedStep DEF RoundConsistent
  <2> QED BY <2>1, <2>6, <2>7, <2>8, <2>9, ClockedStep DEF IInv
<1>3. CASE Reset
  <2>1. \A p \in Player : /\ bul'[p] \in Bullets /\ Straight(bul'[p]) /\ OnScreen(bul'[p])
                          /\ ~bul'[p].shot
    <3> TAKE p \in Player
    <3>1. bul'[p] = [x |-> tank[p].x, y |-> tank[p].y, xm |-> 0, ym |-> 0, dir |-> 0, shot |-> FALSE]
      BY <1>3 DEF Reset, ResetBullet
    <3>2. tank[p].x \in 0 .. XMax /\ tank[p].y \in 0 .. YMax /\ 0 \in Dir
      BY GunneryAssumption, PoseFields DEF IInv, TypeOK, Dir
    <3> QED BY <3>1, <3>2, RestSound
  <2>2. TypeOK'
    <3>1. bul' \in [Player -> Bullets]
      BY <1>3, <2>1 DEF Reset
    <3>2. obst' \in [Cover -> Obstacles]
      BY <1>3, FreshObstacle DEF Reset
    <3>3. hp' \in [Player -> 0 .. HP] /\ hit' \in [Player -> BOOLEAN]
      BY <1>3, FreshHealth DEF Reset
    <3>4. corner' \in [Cover -> Corners] /\ tank' \in Formations /\ done' \in BOOLEAN
          /\ phase' \in {"Start", "Generate", "Game", "Done"}
      BY <1>3, GunneryAssumption DEF Reset
    <3> QED BY <3>1, <3>2, <3>3, <3>4 DEF TypeOK
  <2>3. CoverCount'
    BY <1>3, ObstacleAssumption DEF Reset, CoverCount, ResetObstacle, Standing
  <2>4. StraightFlight' /\ InScreen' /\ HitIsThisShot' /\ RoundConsistent'
    BY <1>3, <2>1 DEF Reset, StraightFlight, InScreen, HitIsThisShot, RoundConsistent
  <2> QED BY <2>2, <2>3, <2>4 DEF IInv
<1>4. CASE UNCHANGED vars
  BY <1>4 DEF vars, IInv, TypeOK, StraightFlight, InScreen, HitIsThisShot, RoundConsistent,
     CoverCount, Hittank, Dead
<1> QED BY <1>1, <1>2, <1>3, <1>4 DEF Next

(* The registers of the duel stay in range: no health underflow, no wrapped *)
(* coordinate, no overrun of a hit counter.                                 *)
THEOREM TypeCorrect == Spec => []TypeOK
<1>1. IInv => TypeOK
  BY DEF IInv
<1> QED BY InitInvariant, NextInvariant, <1>1, PTL DEF Spec

(* Bullets fly straight and are caught before they wrap; each landing is    *)
(* that of the shot in the air; the round, Win and the points agree; an     *)
(* obstacle takes no more than its hits.                                    *)
THEOREM Invariance ==
  Spec => [](StraightFlight /\ InScreen /\ HitIsThisShot /\ RoundConsistent /\ CoverCount)
<1>1. IInv => StraightFlight /\ InScreen /\ HitIsThisShot /\ RoundConsistent /\ CoverCount
  BY DEF IInv
<1> QED BY InitInvariant, NextInvariant, <1>1, PTL DEF Spec

(* Bullets fly along one axis, on the register of that axis only.           *)
THEOREM FlightIsStraight == Spec => []StraightFlight
BY Invariance, PTL

(* No bullet's position wraps to the other side of the screen.              *)
THEOREM FlightOnScreen == Spec => []InScreen
BY Invariance, PTL

(* Health, the Win latch and the phase of the round agree.                  *)
THEOREM RoundAgrees == Spec => []RoundConsistent
BY Invariance, PTL

(* An obstacle that took its hits stays gone.                               *)
THEOREM CoverStaysGone == Spec => []CoverCount
BY Invariance, PTL

----------------------------------------------------------------------------

(* On one axis: a bullet beside the cover on the other axis, which would be *)
(* past it after a step, is within the box of BULLET_COLLISION before it.   *)
LEMMA AcrossArith ==
  ASSUME NEW max \in {XMax, YMax}, NEW x \in 0 .. Word - 1, NEW c \in 0 .. Word - 1,
         NEW x2 \in {x, x + BulletStep, x - BulletStep}, x + BullSize < max,
         Across(x, x2, c)
  PROVE  x < Wrap(c + CoverSize + BullHalf) /\ Wrap(x + BullHalf) >= c
<1>1. /\ max \in Nat /\ BulletStep \in Nat /\ CoverSize \in Nat /\ BullHalf \in Nat /\ BullSize \in Nat
      /\ max + BulletStep + CoverSize + BullHalf < Word /\ BulletStep <= CoverSize + BullHalf
  BY BulletAssumption, ObstacleAssumption, CoverAssumption
<1>2. x < c + CoverSize + BullHalf /\ x + BullHalf >= c
  BY <1>1 DEF Across, Word
<1>3. c + CoverSize + BullHalf < Word /\ x + BullHalf < Word
  BY <1>1 DEF Across, Word
<1> QED BY <1>1, <1>2, <1>3 DEF Wrap, Word

LEMMA StillArith == \A a, c \in 0 .. Word - 1 : ~Across(a, a, c)
BY ObstacleAssumption DEF Across, Word

LEMMA BesideArith ==
  ASSUME NEW max \in {XMax, YMax}, NEW x \in 0 .. Word - 1, NEW c \in 0 .. Word - 1,
         x + BullSize < max, Beside(x, c)
  PROVE  x < Wrap(c + CoverSize + BullHalf) /\ Wrap(x + BullHalf) >= c
<1>1. /\ max \in Nat /\ BulletStep \in Nat /\ CoverSize \in Nat /\ BullHalf \in Nat /\ BullSize \in Nat
      /\ max + BulletStep + CoverSize + BullHalf < Word
  BY BulletAssumption, ObstacleAssumption, CoverAssumption
<1> QED BY <1>1 DEF Beside, Wrap, Word

(* A bullet that is not struck does not jump over a standing cover.         *)
LEMMA FlyBeside ==
  ASSUME NEW b \in Bullets, Straight(b), OnScreen(b), b.shot, ~OffScreen(b),
         NEW c \in [x : 0 .. Word - 1, y : 0 .. Word - 1],
         NEW o, Standing(o), ~Covers(o, c, b)
  PROVE  ~Tunnels(b, Fly(b), c)
<1>1. /\ BullMin + BullSize < b.x /\ b.x + BullSize < XMax
      /\ BullMin + BullSize < b.y /\ b.y + BullSize < YMax
  BY BulletFields, Inside DEF OnScreen, OffScreen
<1>2. /\ Fly(b).x \in {b.x, b.x + BulletStep, b.x - BulletStep}
      /\ Fly(b).y \in {b.y, b.y + BulletStep, b.y - BulletStep}
  <2>1. b.xm \in {0, BulletStep, Word - BulletStep} /\ b.ym \in {0, BulletStep, Word - BulletStep}
    BY DEF Straight
  <2>2. Wrap(b.x + b.xm) \in {b.x, b.x + BulletStep, b.x - BulletStep}
    BY <1>1, <2>1, FlyArith, BulletFields
  <2>3. Wrap(b.y + b.ym) \in {b.y, b.y + BulletStep, b.y - BulletStep}
    BY <1>1, <2>1, FlyArith, BulletFields
  <2> QED BY <2>2, <2>3 DEF Fly
<1>3. b.x \in 0 .. Word - 1 /\ b.y \in 0 .. Word - 1 /\ c.x \in 0 .. Word - 1 /\ c.y \in 0 .. Word - 1
  BY BulletFields
<1>4. ASSUME Beside(b.y, c.y), Across(b.x, Fly(b).x, c.x) PROVE FALSE
  BY <1>1, <1>2, <1>3, <1>4, AcrossArith, BesideArith DEF Covers
<1>5. ASSUME Beside(b.x, c.x), Across(b.y, Fly(b).y, c.y) PROVE FALSE
  BY <1>1, <1>2, <1>3, <1>5, AcrossArith, BesideArith DEF Covers
<1> QED BY <1>4, <1>5 DEF Tunnels

(* A bullet never jumps over a standing obstacle, for every step that is    *)
(* not longer than the obstacle and the bullet's half size.                 *)
THEOREM CoverHolds == Spec => NoTunnelling
<1>1. ASSUME IInv, [Next]_vars, NEW p \in Player, NEW o \in Cover,
             bul[p].shot, bul'[p].shot, Standing(obst[o])
      PROVE  ~Tunnels(bul[p], bul'[p], corner[o])
  <2>1. /\ bul[p] \in Bullets /\ Straight(bul[p]) /\ OnScreen(bul[p]) /\ tank[p] \in Poses
        /\ corner[o] \in [x : 0 .. Word - 1, y : 0 .. Word - 1]
    BY <1>1, GunneryAssumption DEF IInv, TypeOK, StraightFlight, InScreen
  <2>2. CASE bul' = bul
    <3>1. bul[p].x \in 0 .. Word - 1 /\ bul[p].y \in 0 .. Word - 1
      BY <2>1, BulletFields
    <3>2. corner[o].x \in 0 .. Word - 1 /\ corner[o].y \in 0 .. Word - 1
      BY <2>1
    <3>3. ~Across(bul[p].x, bul[p].x, corner[o].x) /\ ~Across(bul[p].y, bul[p].y, corner[o].y)
      BY <3>1, <3>2, StillArith
    <3> QED BY <2>2, <3>3 DEF Tunnels
  <2>3. CASE FrameTick
    <3>1. PICK trigger \in SUBSET Player :
            bul' = [r \in Player |->
                      BulletEdge(bul[r], tank[r], r \in trigger /\ Enabled, Struck(r))]
      BY <2>3 DEF FrameTick
    <3>2. bul'[p] = BulletEdge(bul[p], tank[p], p \in trigger /\ Enabled, Struck(p))
      BY <3>1
    <3>3. ~Struck(p) /\ ~OffScreen(bul[p])
      BY <1>1, <3>2 DEF BulletEdge, Recall
    <3>4. bul'[p] = Fly(bul[p])
      BY <1>1, <3>2, <3>3 DEF BulletEdge
    <3>5. ~Covers(obst[o], corner[o], bul[p])
      BY <3>3 DEF Struck, Hitobj
    <3> QED BY <1>1, <2>1, <3>3, <3>4, <3>5, FlyBeside
  <2>4. ~Reset
    BY <1>1 DEF Reset, ResetBullet
  <2> QED BY <1>1, <2>2, <2>3, <2>4 DEF Next, ClkTick, vars
<1>2. IInv /\ [Next]_vars =>
        [\A p \in Player, o \in Cover :
           bul[p].shot /\ bul'[p].shot /\ Standing(obst[o])
             => ~Tunnels(bul[p], bul'[p], corner[o])]_vars
  BY <1>1
<1> QED BY InitInvariant, NextInvariant, <1>2, PTL DEF Spec, NoTunnelling

----------------------------------------------------------------------------

(* A bullet that is not at an edge gets one step nearer to the one ahead.   *)
LEMMA FlyCloser ==
  ASSUME NEW b \in Bullets, Straight(b), OnScreen(b), b.shot, ~OffScreen(b)
  PROVE  Ahead(Fly(b)) \in 0 .. Ahead(b) - 1
<1>1. /\ BullMin + BullSize < b.x /\ b.x + BullSize < XMax
      /\ BullMin + BullSize < b.y /\ b.y + BullSize < YMax
  BY BulletFields, Inside DEF OnScreen, OffScreen
<1>2. /\ Fly(b).x = Wrap(b.x + b.xm) /\ Fly(b).y = Wrap(b.y + b.ym) /\ Fly(b).dir = b.dir
  BY DEF Fly
<1>3. b.x \in 0 .. Word - 1 /\ b.y \in 0 .. Word - 1
  BY BulletFields
<1> USE BulletAssumption
<1>4. CASE b.dir = 0 /\ b.ym = Word - BulletStep
  <2>1. Fly(b).y = b.y - BulletStep /\ b.y - BulletStep \in 0 .. Word - 1
    BY <1>1, <1>2, <1>3, <1>4, FlyArith
  <2> QED BY <1>2, <1>3, <1>4, <2>1 DEF Ahead
<1>5. CASE b.dir = 1 /\ b.xm = BulletStep
  <2>1. Fly(b).x = b.x + BulletStep /\ b.x + BulletStep <= XMax + BulletStep
    BY <1>1, <1>2, <1>3, <1>5, FlyArith
  <2> QED BY <1>2, <1>3, <1>5, <2>1 DEF Ahead
<1>6. CASE b.dir = 2 /\ b.ym = BulletStep
  <2>1. Fly(b).y = b.y + BulletStep /\ b.y + BulletStep <= YMax + BulletStep
    BY <1>1, <1>2, <1>3, <1>6, FlyArith
  <2> QED BY <1>2, <1>3, <1>6, <2>1 DEF Ahead
<1>7. CASE b.dir = 3 /\ b.xm = Word - BulletStep
  <2>1. Fly(b).x = b.x - BulletStep /\ b.x - BulletStep \in 0 .. Word - 1
    BY <1>1, <1>2, <1>3, <1>7, FlyArith
  <2> QED BY <1>2, <1>3, <1>7, <2>1 DEF Ahead
<1> QED BY <1>4, <1>5, <1>6, <1>7 DEF Straight

(* A bullet in the air gets nearer to the end of the screen at every frame  *)
(* edge, and never past it: the measure behind the end of every flight.     *)
THEOREM FlightShortens == Spec => Shortens
<1>1. ASSUME IInv, FrameTick, NEW p \in Player, bul[p].shot, bul'[p].shot
      PROVE  Ahead(bul'[p]) \in 0 .. Ahead(bul[p]) - 1
  <2>1. bul[p] \in Bullets /\ Straight(bul[p]) /\ OnScreen(bul[p])
    BY <1>1 DEF IInv, TypeOK, StraightFlight, InScreen
  <2>2. PICK trigger \in SUBSET Player :
          bul' = [r \in Player |->
                    BulletEdge(bul[r], tank[r], r \in trigger /\ Enabled, Struck(r))]
    BY <1>1 DEF FrameTick
  <2>3. bul'[p] = BulletEdge(bul[p], tank[p], p \in trigger /\ Enabled, Struck(p))
    BY <2>2
  <2>4. ~Struck(p) /\ ~OffScreen(bul[p])
    BY <1>1, <2>3 DEF BulletEdge, Recall
  <2>5. bul'[p] = Fly(bul[p])
    BY <1>1, <2>3, <2>4 DEF BulletEdge
  <2> QED BY <1>1, <2>1, <2>4, <2>5, FlyCloser
<1>2. IInv /\ [Next]_vars =>
        [\A p \in Player :
           bul[p].shot /\ bul'[p].shot /\ FrameTick => Ahead(bul'[p]) \in 0 .. Ahead(bul[p]) - 1]_vars
  BY <1>1
<1> QED BY InitInvariant, NextInvariant, <1>2, PTL DEF Spec, Shortens

----------------------------------------------------------------------------

(* One clock of one player's shot, as the abstract match sees it.  All that *)
(* it needs of bullet.sv is that a new shot starts during play and clear of *)
(* the opponent.                                                           *)
LEMMA ShotStep ==
  ASSUME IInv, HealthClk, NEW p \in Player,
         bul[p].shot \in BOOLEAN, bul'[p].shot \in BOOLEAN,
         bul'[p].shot /\ ~bul[p].shot => Enabled /\ ~Hittank(Other(p))
  PROVE  Promise!Shot(p)
<1> DEFINE q == Other(p)
<1>1. q \in Player /\ Other(q) = p
  BY OtherPlayer
<1>2. hit'[q] = Hittank(q) /\ hit[q] \in BOOLEAN /\ hit'[q] \in BOOLEAN
  BY <1>1 DEF HealthClk, IInv, TypeOK, Hittank, Within
<1>3. hp[q] \in 0 .. HP /\ hp'[q] = IF Damaged(q) THEN hp[q] - 1 ELSE hp[q]
  BY <1>1, HealthStep DEF IInv, TypeOK
<1>4. Damaged(q) <=> ~hit[q] /\ hp[1] # 0 /\ hp[q] # 0 /\ hit'[q] /\ bul[p].shot
  BY <1>1, <1>2 DEF Damaged
<1>5. bul[p].shot /\ hit[q] => hit'[q]
  BY <1>2 DEF IInv, HitIsThisShot
<1>6. Promise!Decided <=> hp[1] = 0 \/ hp[2] = 0
  BY DEF Promise!Decided, Player
<1>7. Promise!Other(p) = q
  BY DEF Promise!Other, Other
<1> HIDE DEF q
<1> USE DEF Promise!Unharmed, Promise!Rest, Promise!Fire, Promise!Land, Promise!LandLate,
            Promise!Fly, Promise!End, Promise!Shot
<1>8. CASE ~bul[p].shot /\ ~bul'[p].shot
  <2>1. Promise!Rest(p)
    BY <1>3, <1>4, <1>7, <1>8
  <2> QED BY <2>1
<1>9. CASE ~bul[p].shot /\ bul'[p].shot
  <2>1. Promise!Fire(p)
    BY <1>2, <1>3, <1>4, <1>7, <1>9 DEF Enabled, q
  <2> QED BY <2>1
<1>10. CASE bul[p].shot /\ hit'[q] /\ ~hit[q]
  <2>1. CASE hp[1] # 0 /\ hp[q] # 0
    <3>1. Damaged(q)
      BY <1>4, <1>10, <2>1
    <3>2. hp[q] > 0 /\ hp'[q] = hp[q] - 1
      BY <1>3, <2>1, <3>1, GunneryAssumption
    <3>3. Promise!Land(p)
      BY <1>7, <1>10, <3>2 DEF q
    <3> QED BY <3>3
  <2>2. CASE hp[1] = 0 \/ hp[q] = 0
    <3>1. Promise!Decided
      BY <1>1, <1>6, <2>2 DEF Player
    <3>2. Promise!LandLate(p)
      BY <1>3, <1>4, <1>7, <1>10, <2>2, <3>1 DEF q
    <3> QED BY <3>2
  <2> QED BY <2>1, <2>2
<1>11. CASE bul[p].shot /\ ~(hit'[q] /\ ~hit[q]) /\ bul'[p].shot
  <2>1. hit'[q] = hit[q]
    BY <1>2, <1>5, <1>11
  <2>2. Promise!Fly(p)
    BY <1>3, <1>4, <1>7, <1>11, <2>1 DEF q
  <2> QED BY <2>2
<1>12. CASE bul[p].shot /\ ~(hit'[q] /\ ~hit[q]) /\ ~bul'[p].shot
  <2>1. Promise!End(p)
    BY <1>3, <1>4, <1>7, <1>12
  <2> QED BY <2>1
<1> QED BY <1>8, <1>9, <1>10, <1>11, <1>12

(* One clock of the round, as the abstract match sees it.                  *)
LEMMA RoundStep ==
  ASSUME IInv, Clocked, \A p \in Player : Promise!Shot(p)
  PROVE  Promise!Play
<1>1. Promise!Decided <=> Dead
  BY DEF Promise!Decided, Dead, Player
<1>2. done' = (done \/ Dead)
  BY DEF Clocked, HealthClk
<1>3. done' = (done \/ Promise!Decided)
  BY <1>1, <1>2 DEF Promise!Decided, Dead
<1>4. Promise!Advance
  BY DEF Promise!Advance, Clocked, RoundClk
<1> QED BY <1>3, <1>4 DEF Promise!Play

(* Every step of the duel is a step of the abstract match, or a stutter.   *)
LEMMA StepRefines ==
  IInv /\ IInv' /\ [Next]_vars => [Promise!Next]_(Promise!matchVars)
<1> SUFFICES ASSUME IInv, IInv', [Next]_vars PROVE [Promise!Next]_(Promise!matchVars)
  OBVIOUS
<1>1. \A p \in Player : bul[p].shot \in BOOLEAN /\ bul'[p].shot \in BOOLEAN
  BY BulletFields DEF IInv, TypeOK
<1>2. CASE ClkTick
  <2>1. Clocked /\ HealthClk /\ bul' = bul
    BY <1>2 DEF ClkTick, Clocked
  <2>2. \A p \in Player : Promise!Shot(p)
    BY <1>1, <2>1, ShotStep
  <2> QED BY <2>1, <2>2, RoundStep DEF Promise!Next
<1>3. CASE FrameTick
  <2>1. Clocked /\ HealthClk
    BY <1>3 DEF FrameTick, Clocked
  <2>2. ASSUME NEW p \in Player, bul'[p].shot, ~bul[p].shot
        PROVE  Enabled /\ ~Hittank(Other(p))
    <3>1. PICK trigger \in SUBSET Player :
            bul' = [r \in Player |->
                      BulletEdge(bul[r], tank[r], r \in trigger /\ Enabled, Struck(r))]
      BY <1>3 DEF FrameTick
    <3>2. bul[p] \in Bullets /\ tank[p] \in Poses /\ Struck(p) \in BOOLEAN
      BY GunneryAssumption DEF IInv, TypeOK, Struck
    <3>3. ~Struck(p) /\ p \in trigger /\ Enabled
      BY <2>2, <3>1, <3>2, NotInAir
    <3> QED BY <3>3 DEF Struck
  <2>3. \A p \in Player : Promise!Shot(p)
    BY <1>1, <2>1, <2>2, ShotStep
  <2> QED BY <2>1, <2>3, RoundStep DEF Promise!Next
<1>4. CASE Reset
  <2>1. \A p \in Player : ~bul'[p].shot
    BY <1>4 DEF Reset, ResetBullet
  <2>2. Promise!NewMatch
    BY <1>1, <1>4, <2>1 DEF Reset, Promise!NewMatch
  <2> QED BY <2>2 DEF Promise!Next
<1>5. CASE UNCHANGED vars
  BY <1>5 DEF vars, Promise!matchVars
<1> QED BY <1>2, <1>3, <1>4, <1>5 DEF Next

(* The duel implements the abstract match: a flight costs at most a point,  *)
(* a landing in an open match always does, nothing is fired before play or  *)
(* after the announcement, and only a reset gives points back.              *)
THEOREM Refinement == Spec => KeepsPromise
<1>1. Init => Promise!Init
  <2> SUFFICES ASSUME Init PROVE Promise!Init
    OBVIOUS
  <2>1. \A p \in Player : ~bul[p].shot
    BY DEF Init, ResetBullet
  <2> QED BY <2>1, InitInvariant, BulletFields DEF Init, Promise!Init, IInv, TypeOK
<1> QED BY <1>1, InitInvariant, NextInvariant, StepRefines, PTL DEF Spec, KeepsPromise, Promise!Spec
=============================================================================

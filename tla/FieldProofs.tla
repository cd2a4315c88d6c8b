---------------------------- MODULE FieldProofs ----------------------------
(***************************************************************************)
(* A tank on its own in the open is turned back at the sides before it has  *)
(* gone three steps past the bounce, whatever keys are down, until the      *)
(* first power-up: the edges of ball.sv that are tested first do not carry  *)
(* it out along them.                                                      *)
(***************************************************************************)
EXTENDS DrivingProofs

(* What HorizontalField needs of the constants: no obstacles, no other tank, *)
(* a tank that is three steps wide from its centre, a field four steps wider *)
(* than the tank, and a home from which the first step, which a reset may   *)
(* leave three pixels long, does not end beyond the bounce.  FirstPlace is  *)
(* not among the later places of the pickup: while place = FirstPlace       *)
(* nobody has taken it since the reset.  In the source                     *)
(* TankSize = 8 and Step = 1, and the homes are 189 pixels from the edge.   *)
LoneField ==
  /\ Walls = {} /\ Crew # Player /\ FirstPlace \notin Places
  /\ 3 * Step <= TankSize
  /\ 2 * TankSize + 4 * Step <= FieldX /\ 2 * TankSize + 4 * Step <= FieldY
  /\ \A p \in Crew : Homes[p].y + PowerStep < FieldY - TankSize + Step

ContainedAt(x, xm, y, ym) ==
  /\ xm \in {0, Step, Word - Step} /\ Level(y, ym)
  /\ Slides(x, xm = Word - Step, y, ym)
  /\ Slides(FieldX - x, xm = Step, y, ym)
  /\ Rebound(x, xm, y, ym)

(* What the motion registers may become inside the field.                   *)
Steers(x, y, m, n) ==
  /\ Inside(x, y) /\ m \in {0, Step, Word - Step} /\ n \in {0, Step, Word - Step}
  /\ m = 0 \/ n = 0

----------------------------------------------------------------------------
(* Arithmetic of one frame.                                                *)

LEMMA SlideMoves ==
  ASSUME LoneField, NEW x \in 0 .. Word - 1, NEW xm, NEW y, NEW ym, ContainedAt(x, xm, y, ym)
  PROVE  /\ x <= FieldX
         /\ xm = 0 => Wrap(x + xm) = x
         /\ xm = Step => Wrap(x + xm) = x + Step
         /\ xm = Word - Step => Wrap(x + xm) = x - Step
<1> USE TankAssumption DEF LoneField
<1>1. /\ x > TankSize - 3 * Step /\ FieldX - x > TankSize - 3 * Step
      /\ xm = Word - Step => x > TankSize - 2 * Step
      /\ xm = Step => FieldX - x > TankSize - 2 * Step
  BY DEF ContainedAt, Slides
<1> QED BY <1>1 DEF Wrap, Word

LEMMA LevelMoves ==
  ASSUME LoneField, NEW y \in 0 .. Word - 1, NEW ym, Level(y, ym)
  PROVE  /\ y <= FieldY
         /\ ym = 0 => Wrap(y + ym) = y
         /\ ym = Step => Wrap(y + ym) = y + Step
         /\ ym = Word - Step => Wrap(y + ym) = y - Step
<1> USE TankAssumption DEF LoneField
<1>1. /\ y > TankSize - 2 * Step /\ y < FieldY - TankSize + 2 * Step
      /\ ym = Word - Step => y > TankSize - Step
      /\ ym = Step => y < FieldY - TankSize + Step
  BY DEF Level
<1> QED BY <1>1 DEF Wrap, Word

(* A key inside the field, or none, leaves the tank contained.              *)
LEMMA SteersContained ==
  ASSUME LoneField, NEW x \in 0 .. Word - 1, NEW xm, NEW y \in 0 .. Word - 1, NEW ym,
         ContainedAt(x, xm, y, ym), NEW m, NEW n, Steers(x, y, m, n)
  PROVE  ContainedAt(Wrap(x + xm), m, Wrap(y + ym), n)
<1> DEFINE x2 == Wrap(x + xm)
           y2 == Wrap(y + ym)
<1>1. /\ xm \in {0, Step, Word - Step} /\ ym \in {0, Step, Word - Step}
      /\ Rebound(x, xm, y, ym)
  BY DEF ContainedAt, Level
<1>2. /\ xm = 0 => x2 = x
      /\ xm = Step => x2 = x + Step
      /\ xm = Word - Step => x2 = x - Step
  BY SlideMoves
<1>3. /\ ym = 0 => y2 = y
      /\ ym = Step => y2 = y + Step
      /\ ym = Word - Step => y2 = y - Step
  BY LevelMoves DEF ContainedAt
<1>4. /\ x > TankSize /\ x < FieldX - TankSize /\ y > TankSize /\ y < FieldY - TankSize
      /\ m \in {0, Step, Word - Step} /\ n \in {0, Step, Word - Step} /\ (m = 0 \/ n = 0)
  BY DEF Steers, Inside
<1> HIDE DEF x2, y2
<1> USE TankAssumption DEF LoneField
<1>5. Level(y2, n)
  BY <1>1, <1>2, <1>3, <1>4 DEF Level, Beyond, Word
<1>6. Slides(x2, m = Word - Step, y2, n)
  BY <1>1, <1>2, <1>3, <1>4 DEF Slides, Rebound, AtEnd, Beyond, Word
<1>7. Slides(FieldX - x2, m = Step, y2, n)
  BY <1>1, <1>2, <1>3, <1>4 DEF Slides, Rebound, AtEnd, Beyond, Word
<1>8. Rebound(x2, m, y2, n)
  BY <1>4 DEF Rebound
<1> QED BY <1>4, <1>5, <1>6, <1>7, <1>8 DEF ContainedAt, x2, y2

(* So does a bounce.                                                        *)
LEMMA BouncedContained ==
  ASSUME LoneField, NEW x \in 0 .. Word - 1, NEW xm, NEW y \in 0 .. Word - 1, NEW ym,
         ContainedAt(x, xm, y, ym), NEW m, NEW n, Bounced(x, y, xm, ym, m, n)
  PROVE  ContainedAt(Wrap(x + xm), m, Wrap(y + ym), n)
<1> DEFINE x2 == Wrap(x + xm)
           y2 == Wrap(y + ym)
<1>1. /\ xm \in {0, Step, Word - Step} /\ ym \in {0, Step, Word - Step}
      /\ Rebound(x, xm, y, ym) /\ Level(y, ym)
      /\ Slides(x, xm = Word - Step, y, ym)
      /\ Slides(FieldX - x, xm = Step, y, ym)
  BY DEF ContainedAt, Level
<1>2. /\ xm = 0 => x2 = x
      /\ xm = Step => x2 = x + Step
      /\ xm = Word - Step => x2 = x - Step
  BY SlideMoves
<1>3. /\ ym = 0 => y2 = y
      /\ ym = Step => y2 = y + Step
      /\ ym = Word - Step => y2 = y - Step
  BY LevelMoves DEF ContainedAt
<1>4. m \in {0, Step, Word - Step} /\ n \in {0, Step, Word - Step}
  BY <1>1 DEF Bounced
<1> HIDE DEF x2, y2
<1> USE TankAssumption DEF LoneField
<1>5. Level(y2, n)
  BY <1>1, <1>2, <1>3 DEF Bounced, Level, Beyond, Word
<1>6. Slides(x2, m = Word - Step, y2, n)
  BY <1>1, <1>2, <1>3 DEF Bounced, Slides, Rebound, Level, AtEnd, Beyond, Word
<1>7. Slides(FieldX - x2, m = Step, y2, n)
  BY <1>1, <1>2, <1>3 DEF Bounced, Slides, Rebound, Level, AtEnd, Beyond, Word
<1>8. Rebound(x2, m, y2, n)
  <2>1. CASE n = 0 \/ m = 0
    BY <2>1 DEF Rebound
  <2>2. CASE y >= FieldY - TankSize /\ n = Word - Step
    BY <1>1, <1>2, <1>3, <2>2 DEF Rebound, Word
  <2>3. CASE y <= TankSize /\ n = Step
    BY <1>1, <1>2, <1>3, <2>3 DEF Rebound, Word
  <2>4. CASE x >= FieldX - TankSize /\ m = Word - Step
    BY <1>1, <1>2, <1>3, <2>4 DEF Rebound, Word
  <2>5. CASE x <= TankSize /\ m = Step
    BY <1>1, <1>2, <1>3, <2>5 DEF Rebound, Word
  <2> QED BY <2>1, <2>2, <2>3, <2>4, <2>5 DEF Bounced
<1> QED BY <1>4, <1>5, <1>6, <1>7, <1>8 DEF ContainedAt, x2, y2

----------------------------------------------------------------------------
(* One frame of a tank that nothing blocks.                                *)
LEMMA ContainedFrame ==
  ASSUME LoneField, NEW t \in Tanks, Contained(t), NEW key \in 0 .. 4
  PROVE  Contained(TankEdge(t, key, FALSE, FALSE, Step))
<1> DEFINE t2 == TankEdge(t, key, FALSE, FALSE, Step)
<1>1. t2.x = Wrap(t.x + t.xm) /\ t2.y = Wrap(t.y + t.ym)
  BY DEF TankEdge
<1>2. ContainedAt(t.x, t.xm, t.y, t.ym) /\ Level(t.y, t.ym)
  BY DEF Contained, ContainedAt
<1>3. t.x \in 0 .. Word - 1 /\ t.y \in 0 .. Word - 1
  BY TankFields
<1>4. t.x <= FieldX /\ t.y <= FieldY
  BY <1>2, <1>3, SlideMoves, LevelMoves
<1>5. Moved(t, key, t2)
  BY <1>4, FrameMotion
<1> HIDE DEF t2
<1>6. Bounced(t.x, t.y, t.xm, t.ym, t2.xm, t2.ym) \/ Steers(t.x, t.y, t2.xm, t2.ym)
  BY <1>5, UnitVec DEF Moved, Steers, Dir
<1>7. ContainedAt(t2.x, t2.xm, t2.y, t2.ym)
  BY <1>1, <1>2, <1>3, <1>6, BouncedContained, SteersContained
<1> QED BY <1>7 DEF Contained, ContainedAt, t2

(* From its home a tank takes one step down, which the reset may leave      *)
(* three pixels long.                                                      *)
LEMMA FirstFrame ==
  ASSUME LoneField, NEW p \in Crew, NEW t \in Tanks, t.x = Homes[p].x, t.y = Homes[p].y,
         t.xm = 0, t.ym \in {Step, PowerStep}, NEW key \in 0 .. 4
  PROVE  Contained(TankEdge(t, key, FALSE, FALSE, Step))
<1> DEFINE t2 == TankEdge(t, key, FALSE, FALSE, Step)
<1>1. t2.x = Wrap(t.x + t.xm) /\ t2.y = Wrap(t.y + t.ym)
  BY DEF TankEdge
<1>2. /\ t.x \in TankSize + 1 .. FieldX - TankSize - 1
      /\ t.y \in TankSize + 1 .. FieldY - TankSize - 1
      /\ t.y + PowerStep < FieldY - TankSize + Step
  BY DrivingAssumption DEF LoneField
<1>3. t.x <= FieldX /\ t.y <= FieldY /\ Inside(t.x, t.y)
  BY <1>2, TankAssumption DEF Inside
<1>4. Moved(t, key, t2)
  BY <1>3, FrameMotion
<1>5. t2.x = t.x /\ t2.y = t.y + t.ym
  <2>1. \A x \in TankSize + 1 .. FieldX - TankSize - 1 : Wrap(x + 0) = x
    BY TankAssumption DEF Wrap, Word
  <2>2. \A y \in TankSize + 1 .. FieldY - TankSize - 1, s \in {Step, PowerStep} : Wrap(y + s) = y + s
    BY TankAssumption DEF Wrap, Word
  <2> QED BY <1>1, <1>2, <2>1, <2>2
<1> HIDE DEF t2
<1>6. Steers(t.x, t.y, t2.xm, t2.ym)
  <2>1. ~Bounced(t.x, t.y, t.xm, t.ym, t2.xm, t2.ym)
    BY <1>2, TankAssumption DEF Bounced
  <2> QED BY <1>4, <2>1, UnitVec DEF Moved, Steers, Dir
<1>7. /\ t2.x > TankSize /\ FieldX - t2.x > TankSize
      /\ t2.y > TankSize /\ t2.y < FieldY - TankSize + Step
  BY <1>2, <1>5, TankAssumption
<1>8. /\ t2.xm \in {0, Step, Word - Step} /\ t2.ym \in {0, Step, Word - Step}
      /\ t2.xm = 0 \/ t2.ym = 0
  BY <1>6 DEF Steers
<1>9. t2.x \in Int /\ t2.y \in Int
  BY <1>2, <1>5, TankAssumption
<1>10. Level(t2.y, t2.ym)
  BY <1>7, <1>8, <1>9, TankAssumption DEF Level, Beyond, Word
<1>11. /\ Slides(t2.x, t2.xm = Word - Step, t2.y, t2.ym)
       /\ Slides(FieldX - t2.x, t2.xm = Step, t2.y, t2.ym)
  BY <1>7, <1>9, TankAssumption DEF Slides
<1>12. Rebound(t2.x, t2.xm, t2.y, t2.ym)
  BY <1>8 DEF Rebound
<1> QED BY <1>8, <1>10, <1>11, <1>12 DEF Contained, t2

LEMMA HorizontalNext ==
  ASSUME LoneField
  PROVE  TypeOK /\ HorizontalIInv /\ [Next]_vars => HorizontalIInv'
<1> SUFFICES ASSUME TypeOK, HorizontalIInv, [Next]_vars, place' = FirstPlace, NEW p \in Crew
             PROVE  ~powered'[p] /\ (AtHome(p)' \/ Contained(tank'[p]))
  BY DEF HorizontalIInv
<1>1. tank[p] \in Tanks
  BY DEF TypeOK
<1>2. ASSUME Clocked
      PROVE  place = FirstPlace /\ ~powered'[p]
  <2>1. place = FirstPlace /\ ~Pick(p)
    BY <1>2 DEF Clocked, LoneField
  <2>2. powered'[p] = PowerClk(powered[p], counter[p], Pick(p)) /\ ~powered[p]
    BY <1>2, <2>1 DEF Clocked, HorizontalIInv
  <2> QED BY <2>1, <2>2 DEF PowerClk
<1>3. CASE FrameEdge
  <2>1. place = FirstPlace /\ ~powered'[p]
    BY <1>2, <1>3 DEF FrameEdge
  <2>2. PICK key \in [Crew -> 0 .. 4] :
          tank' = [q \in Crew |->
                     TankEdge(tank[q], key[q], IsObst(q), Colliding, StepOf(powered[q]))]
    BY <1>3 DEF FrameEdge
  <2>3. IsObst(p) = FALSE /\ Colliding = FALSE /\ StepOf(powered[p]) = Step
    BY <2>1 DEF IsObst, Colliding, StepOf, HorizontalIInv, LoneField, TypeOK
  <2>4. tank'[p] = TankEdge(tank[p], key[p], FALSE, FALSE, Step) /\ key[p] \in 0 .. 4
    BY <2>2, <2>3
  <2>5. CASE AtHome(p)
    BY <1>1, <2>1, <2>4, <2>5, FirstFrame DEF AtHome
  <2>6. CASE Contained(tank[p])
    BY <1>1, <2>1, <2>4, <2>6, ContainedFrame
  <2> QED BY <2>1, <2>5, <2>6 DEF HorizontalIInv
<1>4. CASE Reset
  <2>1. tank'[p] = ResetTank(Homes[p], StepOf(powered[p])) /\ ~powered'[p]
    BY <1>4 DEF Reset
  <2> QED BY <2>1 DEF AtHome, ResetTank, StepOf
<1>5. CASE ClkTick
  <2>1. tank' = tank
    BY <1>5 DEF ClkTick
  <2> QED BY <1>2, <1>5, <2>1 DEF ClkTick, HorizontalIInv, AtHome
<1>6. CASE VSync \/ UNCHANGED vars
  <2>1. UNCHANGED <<tank, powered, place>>
    BY <1>6 DEF VSync, vars
  <2> QED BY <2>1 DEF HorizontalIInv, AtHome
<1> QED BY <1>3, <1>4, <1>5, <1>6 DEF Next

(* A tank on its own in the open stays on the field at the sides until the  *)
(* first pickup is taken, for every sequence of keys and resets, although   *)
(* ball.sv tests the top and the bottom first.                             *)
THEOREM HorizontalOnField ==
  ASSUME LoneField
  PROVE  Spec => []HorizontalField
<1>1. Init => HorizontalIInv
  <2> SUFFICES ASSUME Init, NEW p \in Crew PROVE ~powered[p] /\ AtHome(p)
    BY DEF HorizontalIInv
  <2>1. tank[p] = ResetTank(Homes[p], Step) /\ ~powered[p]
    BY DEF Init
  <2> QED BY <2>1 DEF AtHome, ResetTank
<1>2. TypeOK /\ HorizontalIInv => HorizontalField
  <2> SUFFICES ASSUME TypeOK, NEW p \in Crew, AtHome(p) \/ Contained(tank[p])
               PROVE  tank[p].x \in TankSize + 1 - 3 * Step .. FieldX - TankSize - 1 + 3 * Step
    BY DEF HorizontalIInv, HorizontalField
  <2>1. tank[p].x \in 0 .. Word - 1
    BY TankFields DEF TypeOK
  <2>2. CASE AtHome(p)
    <3>1. tank[p].x \in TankSize + 1 .. FieldX - TankSize - 1
      BY <2>2, DrivingAssumption DEF AtHome
    <3> QED BY <3>1, TankAssumption
  <2>3. CASE Contained(tank[p])
    <3>1. tank[p].x > TankSize - 3 * Step /\ FieldX - tank[p].x > TankSize - 3 * Step
      BY <2>3 DEF Contained, Slides
    <3> QED BY <2>1, <3>1, TankAssumption
  <2> QED BY <2>2, <2>3
<1> QED BY <1>1, <1>2, HorizontalNext, DrivingInitType, DrivingNextType, PTL DEF Spec
=============================================================================

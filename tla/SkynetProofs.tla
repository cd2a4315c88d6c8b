---------------------------- MODULE SkynetProofs ----------------------------
(***************************************************************************)
(* The tank that the computer drives keeps its whole body on an open field, *)
(* wherever its opponent goes, whatever the size of the field and of the    *)
(* tank, as long as the margin of Skynet.sv is two steps wider than half    *)
(* the tank (what is turned at the margin moves on for a frame) and the     *)
(* computer lets go of the keys before the tanks are in contact (a tank     *)
(* with a key down is pushed back by the other, wherever that leads).      *)
(***************************************************************************)
EXTENDS DrivingProofs

(* What AvoidsWalls needs of the constants: no obstacles, a home inside the *)
(* margins and a field that is not all margin; the other tank may be there. *)
(* FirstPlace is not among the later places of the pickup, so that place =  *)
(* FirstPlace says that nobody has taken it since the reset.                *)
(* In the source TankSize + 2 * Step = Margin, Contact = 16 and Reach = 19, *)
(* the field has 639 by 429 pixels, and tank 1 is at home at (213, 240).    *)
OpenField ==
  /\ 1 \in Crew /\ Walls = {} /\ FirstPlace \notin Places
  /\ TankSize + 2 * Step <= Margin /\ Contact <= Reach
  /\ 2 * Margin + 2 * Step <= FieldX /\ 2 * Margin + 2 * Step <= FieldY
  /\ Homes[1].x \in Margin .. FieldX - Margin
  /\ Homes[1].y \in Margin .. FieldY - Margin - PowerStep

SteadyAt(x, xm, y, ym) ==
  /\ AxisSound(x, xm, FieldX) /\ AxisSound(y, ym, FieldY)
  /\ AlongEdge(x, xm, FieldX, y, ym, FieldY)
  /\ AlongEdge(y, ym, FieldY, x, xm, FieldX)

(* What the motion registers may become at (x, y): nothing is held or the   *)
(* key of Skynet.sv is taken inside the field; at an edge the tank is       *)
(* turned inwards, and without a key it keeps its motion along the edge.    *)
Amid(a, max) == a >= Margin /\ a + Margin <= max

Driven(x, y, m, n) ==
  /\ Inside(x, y)
  /\ \/ m = 0 /\ n = 0
     \/ m = 0 /\ n = Word - Step /\ (y + Margin > FieldY \/ (Amid(x, FieldX) /\ Amid(y, FieldY)))
     \/ m = Word - Step /\ n = 0 /\ (x + Margin > FieldX \/ (Amid(x, FieldX) /\ Amid(y, FieldY)))
     \/ m = 0 /\ n = Step /\ (y < Margin \/ (Amid(x, FieldX) /\ Amid(y, FieldY)))
     \/ m = Step /\ n = 0 /\ (x < Margin \/ (Amid(x, FieldX) /\ Amid(y, FieldY)))

----------------------------------------------------------------------------
(* Arithmetic along one axis.                                              *)

LEMMA AxisMoves ==
  ASSUME NEW max \in {FieldX, FieldY}, NEW a, NEW m, AxisSound(a, m, max)
  PROVE  /\ m = 0 => Wrap(a + m) = a
         /\ m = Step => Wrap(a + m) = a + Step /\ a + Step <= max - TankSize
         /\ m = Word - Step => Wrap(a + m) = a - Step /\ a - Step >= TankSize
<1>1. a \in TankSize .. max - TankSize /\ max < Word
  BY TankAssumption DEF AxisSound, Word
<1>2. CASE m = 0
  BY <1>1, <1>2, TankAssumption DEF AxisSound, Wrap, Word
<1>3. CASE m = Step
  BY <1>1, <1>3, TankAssumption DEF AxisSound, Wrap, Word
<1>4. CASE m = Word - Step
  BY <1>1, <1>4, TankAssumption DEF AxisSound, Wrap, Word
<1> QED BY <1>2, <1>3, <1>4 DEF AxisSound

(* A key that is taken inside the field leaves the tank steady.             *)
LEMMA DrivenSteady ==
  ASSUME OpenField, NEW x, NEW y, NEW xm, NEW ym, SteadyAt(x, xm, y, ym),
         NEW m, NEW n, Driven(x, y, m, n)
  PROVE  SteadyAt(Wrap(x + xm), m, Wrap(y + ym), n)
<1> DEFINE x2 == Wrap(x + xm)
           y2 == Wrap(y + ym)
<1>1. /\ x \in Int /\ y \in Int /\ xm \in {0, Step, Word - Step} /\ ym \in {0, Step, Word - Step}
      /\ x > TankSize /\ x < FieldX - TankSize /\ y > TankSize /\ y < FieldY - TankSize
  BY TankAssumption DEF SteadyAt, AxisSound, Driven, Inside
<1>2. /\ xm = 0 => x2 = x
      /\ xm = Step => x2 = x + Step /\ x + Step <= FieldX - TankSize
      /\ xm = Word - Step => x2 = x - Step /\ x - Step >= TankSize
  BY AxisMoves DEF SteadyAt
<1>3. /\ ym = 0 => y2 = y
      /\ ym = Step => y2 = y + Step /\ y + Step <= FieldY - TankSize
      /\ ym = Word - Step => y2 = y - Step /\ y - Step >= TankSize
  BY AxisMoves DEF SteadyAt
<1> HIDE DEF x2, y2
<1>4. AxisSound(x2, m, FieldX) /\ AxisSound(y2, n, FieldY)
  BY <1>1, <1>2, <1>3, TankAssumption DEF OpenField, Driven, Amid, AxisSound, Word, Margin
<1>5. AlongEdge(x2, m, FieldX, y2, n, FieldY)
  BY <1>1, <1>2, <1>3, TankAssumption DEF OpenField, Driven, Amid, AlongEdge, Word, Margin
<1>6. AlongEdge(y2, n, FieldY, x2, m, FieldX)
  BY <1>1, <1>2, <1>3, TankAssumption DEF OpenField, Driven, Amid, AlongEdge, Word, Margin
<1> QED BY <1>4, <1>5, <1>6 DEF SteadyAt, x2, y2

(* So does a bounce.                                                        *)
LEMMA BouncedSteady ==
  ASSUME OpenField, NEW x, NEW y, NEW xm, NEW ym, SteadyAt(x, xm, y, ym),
         NEW m, NEW n, Bounced(x, y, xm, ym, m, n)
  PROVE  SteadyAt(Wrap(x + xm), m, Wrap(y + ym), n)
<1> DEFINE x2 == Wrap(x + xm)
           y2 == Wrap(y + ym)
<1>1. /\ x \in TankSize .. FieldX - TankSize /\ xm \in {0, Step, Word - Step}
      /\ y \in TankSize .. FieldY - TankSize /\ ym \in {0, Step, Word - Step}
  BY DEF SteadyAt, AxisSound
<1>2. /\ xm = 0 => x2 = x
      /\ xm = Step => x2 = x + Step /\ x + Step <= FieldX - TankSize
      /\ xm = Word - Step => x2 = x - Step /\ x - Step >= TankSize
  BY AxisMoves DEF SteadyAt
<1>3. /\ ym = 0 => y2 = y
      /\ ym = Step => y2 = y + Step /\ y + Step <= FieldY - TankSize
      /\ ym = Word - Step => y2 = y - Step /\ y - Step >= TankSize
  BY AxisMoves DEF SteadyAt
<1>4. AlongEdge(x, xm, FieldX, y, ym, FieldY) /\ AlongEdge(y, ym, FieldY, x, xm, FieldX)
  BY DEF SteadyAt
<1> HIDE DEF x2, y2
<1>5. AxisSound(x2, m, FieldX)
  BY <1>1, <1>2, <1>4, TankAssumption DEF OpenField, Bounced, AxisSound, AlongEdge, Word, Margin
<1>6. AxisSound(y2, n, FieldY)
  BY <1>1, <1>3, <1>4, TankAssumption DEF OpenField, Bounced, AxisSound, AlongEdge, Word, Margin
<1>7. AlongEdge(x2, m, FieldX, y2, n, FieldY)
  BY <1>1, <1>2, <1>3, <1>4, TankAssumption DEF OpenField, Bounced, AlongEdge, Word, Margin
<1>8. AlongEdge(y2, n, FieldY, x2, m, FieldX)
  BY <1>1, <1>2, <1>3, <1>4, TankAssumption DEF OpenField, Bounced, AlongEdge, Word, Margin
<1> QED BY <1>5, <1>6, <1>7, <1>8 DEF SteadyAt, x2, y2

----------------------------------------------------------------------------
(* The registers of ball.sv at a frame edge.                               *)

LEMMA SteadyFields ==
  ASSUME NEW t \in Tanks, Steady(t)
  PROVE  /\ SteadyAt(t.x, t.xm, t.y, t.ym)
         /\ t.x \in Int /\ t.y \in Int
         /\ t.x >= TankSize /\ t.x <= FieldX - TankSize /\ t.y >= TankSize /\ t.y <= FieldY - TankSize
BY TankFields, TankAssumption DEF Steady, SteadyAt, AxisSound

(* The key of Skynet.sv, as conditions on the position.                     *)
LEMMA KeyAtMargin ==
  ASSUME NEW t \in Tanks, NEW o, OpenField
  PROVE  \/ SkynetKey(t, o) = 4
         \/ SkynetKey(t, o) = 0 /\ (t.y + Margin > FieldY \/ (Amid(t.x, FieldX) /\ Amid(t.y, FieldY)))
         \/ SkynetKey(t, o) = 3 /\ (t.x + Margin > FieldX \/ (Amid(t.x, FieldX) /\ Amid(t.y, FieldY)))
         \/ SkynetKey(t, o) = 2 /\ (t.y < Margin \/ (Amid(t.x, FieldX) /\ Amid(t.y, FieldY)))
         \/ SkynetKey(t, o) = 1 /\ (t.x < Margin \/ (Amid(t.x, FieldX) /\ Amid(t.y, FieldY)))
<1>1. t.x \in Int /\ t.y \in Int /\ FieldX \in Int /\ FieldY \in Int
  BY TankFields, TankAssumption
<1>2. Chase(t, o) \in {0, 1, 2, 3, 4}
  BY DEF Chase
<1>3. CASE Within(Reach, t, o)
  BY <1>3 DEF SkynetKey
<1>4. CASE ~Within(Reach, t, o) /\ Amid(t.x, FieldX) /\ Amid(t.y, FieldY)
  <2>1. SkynetKey(t, o) = Chase(t, o)
    BY <1>1, <1>4 DEF SkynetKey, Amid, Margin
  <2> QED BY <1>2, <1>4, <2>1
<1>5. CASE ~Within(Reach, t, o) /\ ~(Amid(t.x, FieldX) /\ Amid(t.y, FieldY))
  BY <1>1, <1>5 DEF SkynetKey, Amid, Margin
<1> QED BY <1>3, <1>4, <1>5

(* Without a key the other tank makes no difference.                        *)
LEMMA LetGo ==
  ASSUME NEW t, NEW s
  PROVE  TankEdge(t, 4, FALSE, TRUE, s) = TankEdge(t, 4, FALSE, FALSE, s)
<1>1. 4 \notin Dir
  BY DEF Dir
<1> QED BY <1>1 DEF TankEdge

(* Tanks in contact are within the computer's reach.                        *)
LEMMA ContactInReach ==
  ASSUME OpenField, NEW a \in Tanks, NEW b \in Tanks, Collide(a, b)
  PROVE  SkynetKey(a, b) = 4
<1> DEFINE d == (a.x - b.x) * (a.x - b.x) + (a.y - b.y) * (a.y - b.y)
<1>1. d <= Contact * Contact /\ d \in Int
  BY TankFields DEF Collide, Within
<1>2. Contact * Contact <= Reach * Reach /\ Contact * Contact \in Int /\ Reach * Reach \in Int
  <2>1. \A c \in 0 .. 19 : c * c <= 19 * 19 /\ c * c \in Int
    OBVIOUS
  <2>2. Contact \in 0 .. 19
    BY TankAssumption DEF OpenField, Reach
  <2> QED BY <2>1, <2>2 DEF Reach
<1> HIDE DEF d
<1>3. d <= Reach * Reach
  BY <1>1, <1>2
<1> QED BY <1>3 DEF SkynetKey, Within, d

(* One frame of the tank of the computer.                                  *)
LEMMA SkynetFrame ==
  ASSUME OpenField, NEW t \in Tanks, Steady(t), NEW key,
         key = 4 \/ \E o : key = SkynetKey(t, o)
  PROVE  Steady(TankEdge(t, key, FALSE, FALSE, Step))
<1> DEFINE t2 == TankEdge(t, key, FALSE, FALSE, Step)
<1>1. t2.x = Wrap(t.x + t.xm) /\ t2.y = Wrap(t.y + t.ym)
  BY DEF TankEdge
<1>2. SteadyAt(t.x, t.xm, t.y, t.ym)
  BY SteadyFields
<1>3. key \in 0 .. 4
  BY KeyAtMargin
<1>4. Moved(t, key, t2)
  <2>1. t.x <= FieldX /\ t.y <= FieldY
    BY SteadyFields, TankAssumption
  <2> QED BY <1>3, <2>1, FrameMotion
<1> HIDE DEF t2
<1>5. Driven(t.x, t.y, t2.xm, t2.ym) \/ Bounced(t.x, t.y, t.xm, t.ym, t2.xm, t2.ym)
  <2>1. CASE Inside(t.x, t.y) /\ key = 4 /\ t2.xm = 0 /\ t2.ym = 0
    BY <2>1 DEF Driven
  <2>2. CASE Inside(t.x, t.y) /\ key \in Dir /\ t2.xm = VecX(key, Step) /\ t2.ym = VecY(key, Step)
    <3>1. PICK o : key = SkynetKey(t, o)
      BY <2>2 DEF Dir
    <3>2. CASE key = 0
      <4>1. t.y + Margin > FieldY \/ (Amid(t.x, FieldX) /\ Amid(t.y, FieldY))
        BY <3>1, <3>2, KeyAtMargin
      <4> QED BY <2>2, <3>2, <4>1, UnitVec DEF Driven
    <3>3. CASE key = 3
      <4>1. t.x + Margin > FieldX \/ (Amid(t.x, FieldX) /\ Amid(t.y, FieldY))
        BY <3>1, <3>3, KeyAtMargin
      <4> QED BY <2>2, <3>3, <4>1, UnitVec DEF Driven
    <3>4. CASE key = 2
      <4>1. t.y < Margin \/ (Amid(t.x, FieldX) /\ Amid(t.y, FieldY))
        BY <3>1, <3>4, KeyAtMargin
      <4> QED BY <2>2, <3>4, <4>1, UnitVec DEF Driven
    <3>5. CASE key = 1
      <4>1. t.x < Margin \/ (Amid(t.x, FieldX) /\ Amid(t.y, FieldY))
        BY <3>1, <3>5, KeyAtMargin
      <4> QED BY <2>2, <3>5, <4>1, UnitVec DEF Driven
    <3> QED BY <2>2, <3>2, <3>3, <3>4, <3>5 DEF Dir
  <2> QED BY <1>4, <2>1, <2>2 DEF Moved
<1>6. SteadyAt(t2.x, t2.xm, t2.y, t2.ym)
  BY <1>1, <1>2, <1>5, DrivenSteady, BouncedSteady
<1> QED BY <1>6 DEF SteadyAt, Steady, t2

----------------------------------------------------------------------------

(* From its home the tank takes one step down, which the reset may leave    *)
(* three pixels long, and goes on inside the margins.                       *)
LEMMA HomeFrame ==
  ASSUME OpenField, NEW t \in Tanks, t.x = Homes[1].x, t.y = Homes[1].y, t.xm = 0,
         t.ym \in {Step, PowerStep}, NEW key, key = 4 \/ \E o : key = SkynetKey(t, o)
  PROVE  Steady(TankEdge(t, key, FALSE, FALSE, Step))
<1> DEFINE t2 == TankEdge(t, key, FALSE, FALSE, Step)
<1>1. t2.x = Wrap(t.x + t.xm) /\ t2.y = Wrap(t.y + t.ym)
  BY DEF TankEdge
<1>2. /\ t.x \in Margin .. FieldX - Margin /\ t.y \in Margin .. FieldY - Margin - PowerStep
  BY DEF OpenField
<1>3. /\ t.x >= TankSize /\ t.x <= FieldX - TankSize /\ t.y >= TankSize /\ t.y <= FieldY - TankSize
      /\ Inside(t.x, t.y)
  BY <1>2, TankAssumption DEF OpenField, Margin, Inside
<1>4. key \in 0 .. 4
  BY KeyAtMargin
<1>5. Moved(t, key, t2)
  <2>1. t.x <= FieldX /\ t.y <= FieldY
    BY <1>2, TankAssumption DEF Margin
  <2> QED BY <1>4, <2>1, FrameMotion
<1>6. t2.xm \in {0, Step, Word - Step} /\ t2.ym \in {0, Step, Word - Step}
  <2>1. ~Bounced(t.x, t.y, t.xm, t.ym, t2.xm, t2.ym)
    <3>1. t.x \in Int /\ t.y \in Int
      BY TankFields
    <3> HIDE DEF t2
    <3> QED BY <1>3, <3>1, TankAssumption DEF Bounced, Inside
  <2> HIDE DEF t2
  <2> QED BY <1>5, <2>1, UnitVec DEF Moved, Dir
<1>7. t2.x = t.x /\ t2.y = t.y + t.ym
  <2>1. \A x \in Margin .. FieldX - Margin : Wrap(x + 0) = x
    BY TankAssumption DEF Wrap, Word, Margin
  <2>2. \A y \in Margin .. FieldY - Margin - PowerStep, s \in {Step, PowerStep} : Wrap(y + s) = y + s
    BY TankAssumption DEF Wrap, Word, Margin
  <2> QED BY <1>1, <1>2, <2>1, <2>2
<1> HIDE DEF t2
<1>8. AxisSound(t2.x, t2.xm, FieldX) /\ AxisSound(t2.y, t2.ym, FieldY)
  BY <1>2, <1>6, <1>7, TankAssumption DEF OpenField, AxisSound, Margin, Word
<1>9. /\ AlongEdge(t2.x, t2.xm, FieldX, t2.y, t2.ym, FieldY)
      /\ AlongEdge(t2.y, t2.ym, FieldY, t2.x, t2.xm, FieldX)
  BY <1>2, <1>7, TankAssumption DEF OpenField, AlongEdge, Margin
<1> QED BY <1>8, <1>9 DEF Steady, t2

LEMMA AvoidsNext ==
  ASSUME OpenField
  PROVE  TypeOK /\ AvoidsIInv /\ [Next]_vars => AvoidsIInv'
<1> SUFFICES ASSUME TypeOK, AvoidsIInv, [Next]_vars, place' = FirstPlace
             PROVE  ~powered'[1] /\ (start' \/ auto' => AtHome(1)' \/ Steady(tank'[1]))
  BY DEF AvoidsIInv
<1>1. 1 \in Crew /\ \A p \in Crew : tank[p] \in Tanks
  BY DEF OpenField, TypeOK
<1>2. ASSUME Clocked
      PROVE  place = FirstPlace /\ ~powered'[1] /\ (start' \/ auto' => start \/ auto)
  <2>1. place = FirstPlace /\ ~Pick(1)
    BY <1>1, <1>2 DEF Clocked, OpenField
  <2>2. powered'[1] = PowerClk(powered[1], counter[1], Pick(1)) /\ ~powered[1]
    BY <1>1, <1>2, <2>1 DEF Clocked, AvoidsIInv
  <2>3. start' \/ auto' => start \/ auto
    BY <1>2 DEF Clocked, MenuClk
  <2> QED BY <2>1, <2>2, <2>3 DEF PowerClk
<1>3. CASE FrameEdge
  <2>1. place = FirstPlace /\ ~powered'[1] /\ (start' \/ auto' => start \/ auto)
    BY <1>2, <1>3 DEF FrameEdge
  <2>2. ASSUME start \/ auto PROVE Steady(tank'[1])
    <3>1. PICK key \in [Crew -> 0 .. 4] :
            /\ \A p \in Crew : key[p] \in Keys(p)
            /\ tank' = [p \in Crew |->
                          TankEdge(tank[p], key[p], IsObst(p), Colliding, StepOf(powered[p]))]
      BY <1>3 DEF FrameEdge
    <3>2. IsObst(1) = FALSE /\ Colliding \in BOOLEAN /\ StepOf(powered[1]) = Step
      BY <1>1, <2>1 DEF IsObst, Colliding, StepOf, AvoidsIInv, OpenField, TypeOK
    <3>3. key[1] = 4 \/ \E o : key[1] = SkynetKey(tank[1], o)
      BY <1>1, <2>2, <3>1 DEF Keys
    <3>4. tank'[1] = TankEdge(tank[1], key[1], FALSE, FALSE, Step)
      <4>1. ASSUME Colliding PROVE key[1] = 4
        <5>1. 2 \in Crew /\ Collide(tank[1], tank[2])
          BY <4>1 DEF Colliding, Player
        <5>2. SkynetKey(tank[1], tank[2]) = 4
          BY <1>1, <5>1, ContactInReach
        <5>3. Opponent = {tank[2]}
          BY <5>1 DEF Opponent
        <5> QED BY <1>1, <2>2, <3>1, <5>2, <5>3 DEF Keys
      <4>2. tank'[1] = TankEdge(tank[1], key[1], FALSE, Colliding, Step)
        BY <1>1, <3>1, <3>2
      <4>3. CASE Colliding
        <5>1. Colliding = TRUE
          BY <4>3
        <5> QED BY <4>1, <4>2, <4>3, <5>1, LetGo
      <4>4. CASE ~Colliding
        <5>1. Colliding = FALSE
          BY <4>4
        <5> QED BY <4>2, <5>1
      <4> QED BY <4>3, <4>4
    <3>5. CASE AtHome(1)
      BY <1>1, <3>3, <3>4, <3>5, HomeFrame DEF AtHome
    <3>6. CASE Steady(tank[1])
      BY <1>1, <3>3, <3>4, <3>6, SkynetFrame
    <3> QED BY <2>1, <2>2, <3>5, <3>6 DEF AvoidsIInv
  <2> QED BY <2>1, <2>2
<1>4. CASE Reset
  <2>1. tank'[1] = ResetTank(Homes[1], StepOf(powered[1])) /\ ~powered'[1]
    BY <1>1, <1>4 DEF Reset
  <2>2. AtHome(1)'
    BY <1>1, <2>1 DEF AtHome, ResetTank, StepOf
  <2> QED BY <2>1, <2>2
<1>5. CASE ClkTick
  <2>1. tank' = tank
    BY <1>5 DEF ClkTick
  <2> QED BY <1>2, <1>5, <2>1 DEF ClkTick, AvoidsIInv, AtHome
<1>6. CASE VSync \/ UNCHANGED vars
  <2>1. UNCHANGED <<tank, powered, place, start, auto>>
    BY <1>6 DEF VSync, vars
  <2> QED BY <2>1 DEF AvoidsIInv, AtHome
<1> QED BY <1>3, <1>4, <1>5, <1>6 DEF Next

(* The computer's tank keeps the whole of its body on an open field until   *)
(* the first pickup is taken, with the other tank on the field or without,  *)
(* wherever that goes and whatever resets there are (Skynet.sv:30-42).      *)
THEOREM WallsAvoided ==
  ASSUME OpenField
  PROVE  Spec => []AvoidsWalls
<1>1. Init => AvoidsIInv
  <2> SUFFICES ASSUME Init PROVE ~powered[1] /\ AtHome(1)
    BY DEF AvoidsIInv
  <2>0. 1 \in Crew
    BY DEF OpenField
  <2>1. tank[1] = ResetTank(Homes[1], Step) /\ ~powered[1]
    BY <2>0 DEF Init
  <2> QED BY <2>1 DEF AtHome, ResetTank
<1>2. TypeOK /\ AvoidsIInv => AvoidsWalls
  <2> SUFFICES ASSUME TypeOK, AtHome(1) \/ Steady(tank[1])
               PROVE  /\ tank[1].x \in TankSize .. FieldX - TankSize
                      /\ tank[1].y \in TankSize .. FieldY - TankSize
    BY DEF AvoidsIInv, AvoidsWalls
  <2>1. CASE AtHome(1)
    BY <2>1, TankAssumption DEF AtHome, OpenField, Margin
  <2>2. CASE Steady(tank[1])
    BY <2>2 DEF Steady, AxisSound
  <2> QED BY <2>1, <2>2
<1> QED BY <1>1, <1>2, AvoidsNext, DrivingInitType, DrivingNextType, PTL DEF Spec
=============================================================================

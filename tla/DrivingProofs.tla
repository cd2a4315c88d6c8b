--------------------------- MODULE DrivingProofs ---------------------------
(***************************************************************************)
(* The registers of the tanks stay in range, and a tank on its own in the  *)
(* open stays on the field vertically, for every field, tank size, step    *)
(* and length of the power-up that the assumptions allow.                  *)
(***************************************************************************)
EXTENDS Driving, TLAPS

(* A sum of coordinates is taken modulo 2^10.                              *)
LEMMA WrapRange == \A n \in Int : Wrap(n) \in 0 .. Word - 1
  BY DEF Wrap, Word

LEMMA WrapSame == \A n \in 0 .. Word - 1 : Wrap(n) = n
  BY DEF Wrap, Word

(* The registers of a tank, one by one.                                    *)
LEMMA TankFields ==
  ASSUME NEW t \in Tanks
  PROVE  /\ t.x \in 0 .. Word - 1 /\ t.y \in 0 .. Word - 1 /\ t.xm \in 0 .. Word - 1
         /\ t.ym \in 0 .. Word - 1 /\ t.dir \in Dir
  BY DEF Tanks

(* The step is one of the two constants, and small.                        *)
LEMMA StepRange ==
  \A on \in BOOLEAN : StepOf(on) \in {Step, PowerStep} /\ StepOf(on) \in 1 .. Word - 1
  BY TankAssumption DEF StepOf, Word

(* A motion vector is a pair of register values.                           *)
LEMMA VecRange ==
  ASSUME NEW d, NEW s \in 1 .. Word - 1
  PROVE  VecX(d, s) \in 0 .. Word - 1 /\ VecY(d, s) \in 0 .. Word - 1
<1>1. s \in 0 .. Word - 1 /\ Wrap(-s) \in 0 .. Word - 1 /\ 0 \in 0 .. Word - 1
  BY WrapRange DEF Word
<1>2. /\ VecX(d, s) = IF d = 1 THEN s ELSE IF d = 3 THEN Wrap(-s) ELSE 0
      /\ VecY(d, s) = IF d = 2 THEN s ELSE IF d = 0 THEN Wrap(-s) ELSE 0
  BY DEF VecX, VecY
<1> QED BY <1>1, <1>2

(* What a frame edge does to a tank leaves its registers in range.         *)
LEMMA TankEdgeType ==
  ASSUME NEW t \in Tanks, NEW key \in 0 .. 4, NEW obst \in BOOLEAN, NEW collide \in BOOLEAN,
         NEW s \in 1 .. Word - 1
  PROVE  TankEdge(t, key, obst, collide, s) \in Tanks
<1> DEFINE blocked == obst \/ collide
           v == Steered(t, key, blocked, s)
           m == IF key \in Dir THEN <<VecX(v[1], v[2]), VecY(v[1], v[2])>>
                               ELSE Coasting(t, obst, s)
<1>1. v[2] \in 1 .. Word - 1
  BY DEF Steered, Word
<1>2. m[1] \in 0 .. Word - 1 /\ m[2] \in 0 .. Word - 1
  <2>1. CASE key \in Dir
    <3>1. VecX(v[1], v[2]) \in 0 .. Word - 1 /\ VecY(v[1], v[2]) \in 0 .. Word - 1
      BY <1>1, VecRange
    <3> QED BY <2>1, <3>1
  <2>2. CASE key \notin Dir
    <3> DEFINE d == IF obst THEN Back(t.dir) ELSE Inward(t)
    <3>1. VecX(d, s) \in 0 .. Word - 1 /\ VecY(d, s) \in 0 .. Word - 1
      BY VecRange
    <3>2. t.xm \in 0 .. Word - 1 /\ t.ym \in 0 .. Word - 1 /\ 0 \in 0 .. Word - 1
      BY TankFields DEF Word
    <3>3. obst \/ AtEdge(t) => d \in {0, 1, 2, 3}
      <4>1. Back(t.dir) \in {0, 1, 2, 3}
        BY TankFields DEF Back, Dir
      <4>2. ~obst /\ AtEdge(t) => Inward(t) \in {0, 1, 2, 3}
        BY DEF Inward, AtEdge
      <4> QED BY <4>1, <4>2
    <3> QED BY <2>2, <3>1, <3>2, <3>3 DEF Coasting
  <2> QED BY <2>1, <2>2
<1>3. Wrap(t.x + t.xm) \in 0 .. Word - 1 /\ Wrap(t.y + t.ym) \in 0 .. Word - 1
  <2>1. t.x \in Int /\ t.xm \in Int /\ t.y \in Int /\ t.ym \in Int
    BY TankFields
  <2>2. t.x + t.xm \in Int /\ t.y + t.ym \in Int
    BY <2>1
  <2> QED BY <2>2, WrapRange
<1>4. (IF key \in Dir THEN key ELSE t.dir) \in Dir
  BY TankFields
<1>5. TankEdge(t, key, obst, collide, s) =
        [x |-> Wrap(t.x + t.xm), y |-> Wrap(t.y + t.ym), xm |-> m[1], ym |-> m[2],
         dir |-> IF key \in Dir THEN key ELSE t.dir]
  BY DEF TankEdge
<1> HIDE DEF m
<1> QED BY <1>2, <1>3, <1>4, <1>5 DEF Tanks

(* The field fits into the coordinate registers.                           *)
LEMMA FieldRange ==
  ASSUME NEW max \in {FieldX, FieldY}, NEW n \in TankSize + 1 .. max - TankSize - 1
  PROVE  n \in 0 .. Word - 1
  BY TankAssumption DEF Word

(* After a reset the registers are in range.                               *)
LEMMA ResetTankType ==
  ASSUME NEW p \in Crew, NEW s \in 1 .. Word - 1
  PROVE  ResetTank(Homes[p], s) \in Tanks
<1>1. /\ Homes[p].x \in TankSize + 1 .. FieldX - TankSize - 1
      /\ Homes[p].y \in TankSize + 1 .. FieldY - TankSize - 1
  BY DrivingAssumption
<1>2. Homes[p].x \in 0 .. Word - 1 /\ Homes[p].y \in 0 .. Word - 1
  BY <1>1, FieldRange
<1>3. s \in 0 .. Word - 1 /\ 0 \in 0 .. Word - 1 /\ 0 \in Dir
  BY DEF Word, Dir
<1> QED BY <1>2, <1>3 DEF ResetTank, Tanks

LEMMA DrivingInitType == Init => TypeOK
<1> SUFFICES ASSUME Init PROVE TypeOK
  OBVIOUS
<1>1. tank \in [Crew -> Tanks]
  BY ResetTankType, TankAssumption DEF Init, Word
<1>2. counter \in [Crew -> 0 .. PowerFrames]
  BY TankAssumption DEF Init, Word
<1> QED BY <1>1, <1>2, DrivingAssumption DEF Init, TypeOK

(* Every step of the tanks' clocks keeps the registers in range; the power- *)
(* up counter stops before it would run past PowerFrames.                  *)
LEMMA DrivingNextType == TypeOK /\ [Next]_vars => TypeOK'
<1> SUFFICES ASSUME TypeOK, [Next]_vars PROVE TypeOK'
  OBVIOUS
<1>1. ASSUME Clocked
      PROVE  /\ powered' \in [Crew -> BOOLEAN] /\ wall' \in SUBSET Walls
             /\ place' \in Corner /\ placed' \in BOOLEAN
             /\ start' \in BOOLEAN /\ auto' \in BOOLEAN
  <2>1. \A p \in Crew : PowerClk(powered[p], counter[p], Pick(p)) \in BOOLEAN
    BY DEF PowerClk, Pick, Touches, TypeOK
  <2>2. powered' \in [Crew -> BOOLEAN]
    BY <1>1, <2>1 DEF Clocked
  <2>3. start' \in BOOLEAN /\ auto' \in BOOLEAN
    BY <1>1 DEF Clocked, MenuClk, TypeOK
  <2> QED BY <1>1, <2>2, <2>3, DrivingAssumption DEF Clocked, TypeOK
<1>2. \A p \in Crew : StepOf(powered[p]) \in 1 .. Word - 1
  BY StepRange DEF TypeOK
<1>3. CASE VSync
  <2>1. \A p \in Crew : CounterVS(powered[p], counter[p], Pick(p)) \in 0 .. PowerFrames
    <3> TAKE p \in Crew
    <3>1. counter[p] \in 0 .. PowerFrames
      BY DEF TypeOK
    <3>2. counter[p] # PowerFrames => Wrap(counter[p] + 1) \in 0 .. PowerFrames
      BY <3>1, TankAssumption DEF Wrap, Word
    <3>3. 0 \in 0 .. PowerFrames
      BY TankAssumption
    <3> QED BY <3>2, <3>3 DEF CounterVS
  <2>2. counter' \in [Crew -> 0 .. PowerFrames]
    BY <1>3, <2>1 DEF VSync
  <2> QED BY <1>3, <2>2 DEF VSync, TypeOK
<1>4. CASE ClkTick
  BY <1>1, <1>4 DEF ClkTick, TypeOK
<1>5. CASE FrameEdge
  <2>1. PICK key \in [Crew -> 0 .. 4] :
          tank' = [p \in Crew |->
                     TankEdge(tank[p], key[p], IsObst(p), Colliding, StepOf(powered[p]))]
    BY <1>5 DEF FrameEdge
  <2>2. \A p \in Crew : IsObst(p) \in BOOLEAN /\ Colliding \in BOOLEAN
    BY DEF IsObst, Colliding
  <2>3. \A p \in Crew : tank[p] \in Tanks /\ key[p] \in 0 .. 4
    BY DEF TypeOK
  <2>4. tank' \in [Crew -> Tanks]
    BY <1>2, <2>1, <2>2, <2>3, TankEdgeType
  <2> QED BY <1>1, <1>5, <2>4 DEF FrameEdge, TypeOK
<1>6. CASE Reset
  <2>1. tank' \in [Crew -> Tanks]
    BY <1>2, <1>6, ResetTankType DEF Reset
  <2> QED BY <1>6, <2>1, DrivingAssumption DEF Reset, TypeOK
<1>7. CASE UNCHANGED vars
  BY <1>7 DEF vars, TypeOK
<1> QED BY <1>3, <1>4, <1>5, <1>6, <1>7 DEF Next

(* Both tanks' registers and power-up counters stay in range, whatever the  *)
(* obstacles and the pickup do.                                            *)
THEOREM DrivingTypeCorrect == Spec => []TypeOK
  BY DrivingInitType, DrivingNextType, PTL DEF Spec

----------------------------------------------------------------------------

(* The vertical register after a frame, and why it may take any motion that *)
(* points inwards at the top and the bottom.                               *)
LEMMA VerticalStep ==
  ASSUME NEW y \in 0 .. Word - 1, NEW m, NEW m2 \in Upwards \cup Downwards \cup {0},
         VerticalSound(y, m),
         y <= TankSize => m2 \in Downwards,
         y >= FieldY - TankSize => m2 \in Upwards
  PROVE  VerticalSound(Wrap(y + m), m2)
<1> USE TankAssumption
<1>1. CASE m \in Upwards
  <2>1. PICK s \in {Step, PowerStep} : m = Word - s
    BY <1>1 DEF Upwards
  <2>2. y > TankSize - PowerStep /\ s \in 1 .. PowerStep
    BY <1>1, <2>1 DEF VerticalSound
  <2>3. Wrap(y + m) = y - s
    BY <2>1, <2>2 DEF Wrap, Word
  <2> QED BY <2>2, <2>3 DEF VerticalSound, Upwards, Downwards, Word
<1>2. CASE m \in Downwards
  <2>1. m \in 1 .. PowerStep /\ y < FieldY - TankSize + PowerStep
    BY <1>2 DEF Downwards, VerticalSound
  <2>2. Wrap(y + m) = y + m
    BY <2>1 DEF Wrap, Word
  <2> QED BY <2>1, <2>2 DEF VerticalSound, Upwards, Downwards, Word
<1>3. CASE m = 0
  <2>1. Wrap(y + m) = y
    BY <1>3 DEF Wrap, Word
  <2> QED BY <2>1 DEF VerticalSound, Upwards, Downwards, Word
<1> QED BY <1>1, <1>2, <1>3 DEF VerticalSound

(* A vertical motion by one of the steps, as a register value.             *)
LEMMA VerticalVec ==
  ASSUME NEW d, NEW s \in {Step, PowerStep}
  PROVE  /\ VecY(d, s) \in Upwards \cup Downwards \cup {0}
         /\ d = 0 => VecY(d, s) \in Upwards
         /\ d = 2 => VecY(d, s) \in Downwards
<1>1. Wrap(-s) = Word - s
  BY TankAssumption DEF Wrap, Word
<1>2. VecY(d, s) = IF d = 2 THEN s ELSE IF d = 0 THEN Word - s ELSE 0
  BY <1>1 DEF VecY
<1> QED BY <1>2 DEF Upwards, Downwards

(* What the edge tests of ball.sv mean on the field.                        *)
LEMMA VerticalEdges ==
  ASSUME NEW t \in Tanks, VerticalSound(t.y, t.ym)
  PROVE  /\ Bottom(t) <=> t.y >= FieldY - TankSize
         /\ Top(t) <=> t.y <= TankSize
         /\ ~(Bottom(t) /\ Top(t))
         /\ Bottom(t) => AtEdge(t) /\ Inward(t) = 0
         /\ Top(t) => AtEdge(t) /\ Inward(t) = 2
<1>1. t.y \in 0 .. Word - 1 /\ t.y <= FieldY - TankSize - 1 + 2 * PowerStep
  BY TankFields, TankAssumption DEF VerticalSound
<1>2. Wrap(t.y + TankSize) = t.y + TankSize
  <2>1. \A y \in 0 .. Word - 1 : y <= FieldY - TankSize - 1 + 2 * PowerStep
          => y + TankSize \in 0 .. Word - 1
    BY TankAssumption DEF Word
  <2>2. t.y + TankSize \in 0 .. Word - 1
    BY <1>1, <2>1
  <2> QED BY <2>2, WrapSame
<1>3. Bottom(t) <=> t.y >= FieldY - TankSize
  BY <1>1, <1>2, TankAssumption DEF Bottom
<1>4. Top(t) <=> t.y <= TankSize
  BY DEF Top
<1>5. ~(Bottom(t) /\ Top(t))
  BY <1>1, <1>3, <1>4, TankAssumption
<1>6. Bottom(t) => AtEdge(t) /\ Inward(t) = 0
  BY <1>5 DEF AtEdge, Inward
<1>7. Top(t) => AtEdge(t) /\ Inward(t) = 2
  BY <1>5 DEF AtEdge, Inward
<1> QED BY <1>3, <1>4, <1>5, <1>6, <1>7

(* One frame of a tank that nothing blocks.                                *)
LEMMA VerticalEdge ==
  ASSUME NEW t \in Tanks, VerticalSound(t.y, t.ym), NEW key \in 0 .. 4, NEW s \in {Step, PowerStep}
  PROVE  VerticalSound(TankEdge(t, key, FALSE, FALSE, s).y, TankEdge(t, key, FALSE, FALSE, s).ym)
<1> DEFINE d  == IF AtEdge(t) THEN Inward(t) ELSE key
           m2 == TankEdge(t, key, FALSE, FALSE, s).ym
<1>1. TankEdge(t, key, FALSE, FALSE, s).y = Wrap(t.y + t.ym)
  BY DEF TankEdge
<1>2. t.ym \in Upwards \cup Downwards \cup {0}
  BY DEF VerticalSound
<1>3. ASSUME m2 \in Upwards \cup Downwards \cup {0},
             Bottom(t) => m2 \in Upwards, Top(t) => m2 \in Downwards
      PROVE  VerticalSound(TankEdge(t, key, FALSE, FALSE, s).y, m2)
  <2> HIDE DEF m2
  <2> QED BY <1>1, <1>3, TankFields, VerticalEdges, VerticalStep
<1>4. CASE key \in Dir
  <2>1. m2 = VecY(d, s)
    BY <1>4 DEF TankEdge, Steered
  <2>2. m2 \in Upwards \cup Downwards \cup {0}
    BY <2>1, VerticalVec
  <2>3. (Bottom(t) => m2 \in Upwards) /\ (Top(t) => m2 \in Downwards)
    BY <2>1, VerticalVec, VerticalEdges
  <2> QED BY <2>2, <2>3, <1>3
<1>5. CASE key \notin Dir
  <2> DEFINE c == Coasting(t, FALSE, s)
  <2>1. m2 = c[2]
    BY <1>5 DEF TankEdge
  <2>2. CASE Bottom(t) \/ Top(t)
    <3>1. AtEdge(t) /\ Inward(t) \in {0, 2}
      BY <2>2, VerticalEdges
    <3>2. c = <<t.xm, VecY(Inward(t), s)>>
      BY <3>1 DEF Coasting
    <3>3. m2 = VecY(Inward(t), s)
      <4> HIDE DEF c, m2
      <4> QED BY <2>1, <3>2
    <3>4. (Bottom(t) => m2 \in Upwards) /\ (Top(t) => m2 \in Downwards)
      BY <3>3, VerticalVec, VerticalEdges
    <3> QED BY <3>3, <3>4, VerticalVec, <1>3
  <2>3. CASE ~Bottom(t) /\ ~Top(t)
    <3>1. AtEdge(t) => Inward(t) \in {1, 3}
      BY <2>3 DEF AtEdge, Inward
    <3>2. CASE AtEdge(t)
      <4>1. c = <<VecX(Inward(t), s), t.ym>>
        BY <3>1, <3>2 DEF Coasting
      <4> HIDE DEF c
      <4>2. m2 = t.ym
        BY <2>1, <4>1
      <4> QED BY <1>2, <2>3, <4>2, <1>3
    <3>3. CASE ~AtEdge(t)
      <4>1. c = <<0, 0>>
        BY <3>3 DEF Coasting
      <4> HIDE DEF c
      <4>2. m2 = 0
        BY <2>1, <4>1
      <4> QED BY <2>3, <4>2, <1>3
    <3> QED BY <3>2, <3>3
  <2> QED BY <2>2, <2>3
<1> QED BY <1>4, <1>5

(* After a reset a tank is clear of the edges, moving one step down.        *)
LEMMA VerticalReset ==
  ASSUME NEW p \in Crew, NEW s \in {Step, PowerStep}
  PROVE  VerticalSound(ResetTank(Homes[p], s).y, ResetTank(Homes[p], s).ym)
<1>1. Homes[p].y \in TankSize + 1 .. FieldY - TankSize - 1
  BY DrivingAssumption
<1>2. ResetTank(Homes[p], s).y = Homes[p].y /\ ResetTank(Homes[p], s).ym = s
  BY DEF ResetTank
<1>3. \A y \in TankSize + 1 .. FieldY - TankSize - 1 : VerticalSound(y, s)
  BY TankAssumption DEF VerticalSound, Upwards, Downwards, Word
<1> QED BY <1>1, <1>2, <1>3

(* Without obstacles and without the other tank, the vertical registers     *)
(* stay sound.                                                             *)
LEMMA VerticalNext ==
  ASSUME Walls = {}, Crew # Player
  PROVE  VerticalIInv /\ TypeOK' /\ [Next]_vars => VerticalIInv'
<1> SUFFICES ASSUME VerticalIInv, TypeOK', [Next]_vars PROVE VerticalIInv'
  OBVIOUS
<1>1. \A p \in Crew : /\ tank[p] \in Tanks /\ StepOf(powered[p]) \in {Step, PowerStep}
                      /\ VerticalSound(tank[p].y, tank[p].ym)
  BY StepRange DEF VerticalIInv, TypeOK
<1>2. CASE FrameEdge
  <2>1. PICK key \in [Crew -> 0 .. 4] :
          tank' = [p \in Crew |->
                     TankEdge(tank[p], key[p], IsObst(p), Colliding, StepOf(powered[p]))]
    BY <1>2 DEF FrameEdge
  <2>2. \A p \in Crew : IsObst(p) = FALSE /\ Colliding = FALSE
    BY DEF IsObst, Colliding, VerticalIInv, TypeOK
  <2>3. ASSUME NEW p \in Crew PROVE VerticalSound(tank'[p].y, tank'[p].ym)
    <3>1. tank'[p] = TankEdge(tank[p], key[p], FALSE, FALSE, StepOf(powered[p])) /\ key[p] \in 0 .. 4
      BY <2>1, <2>2
    <3> QED BY <1>1, <3>1, VerticalEdge
  <2> QED BY <2>3 DEF VerticalIInv
<1>3. CASE Reset
  <2>1. ASSUME NEW p \in Crew PROVE VerticalSound(tank'[p].y, tank'[p].ym)
    <3>1. tank'[p] = ResetTank(Homes[p], StepOf(powered[p]))
      BY <1>3 DEF Reset
    <3> QED BY <1>1, <3>1, VerticalReset
  <2> QED BY <2>1 DEF VerticalIInv
<1>4. CASE VSync \/ ClkTick \/ UNCHANGED vars
  <2>1. tank' = tank
    BY <1>4 DEF VSync, ClkTick, vars
  <2> QED BY <2>1 DEF VerticalIInv
<1> QED BY <1>2, <1>3, <1>4 DEF Next

(* A tank on its own in the open never leaves the field at the top or the   *)
(* bottom, for every sequence of keys, power-ups and resets.               *)
THEOREM VerticalOnField ==
  ASSUME Walls = {}, Crew # Player
  PROVE  Spec => []VerticalField
<1>1. Init => VerticalIInv
  <2> SUFFICES ASSUME Init PROVE VerticalIInv
    OBVIOUS
  <2>1. ASSUME NEW p \in Crew PROVE VerticalSound(tank[p].y, tank[p].ym)
    BY VerticalReset DEF Init
  <2> QED BY <2>1, DrivingInitType DEF VerticalIInv
<1>2. VerticalIInv /\ [Next]_vars => VerticalIInv'
  BY VerticalNext, DrivingNextType DEF VerticalIInv
<1>3. VerticalIInv => VerticalField
  BY DEF VerticalIInv, VerticalField, VerticalSound
<1> QED BY <1>1, <1>2, <1>3, PTL DEF Spec

----------------------------------------------------------------------------
(* The registers of ball.sv at a frame edge, along both axes.              *)

Inside(x, y) ==
  x > TankSize /\ x < FieldX - TankSize /\ y > TankSize /\ y < FieldY - TankSize

(* What a bounce leaves of the motion: the edge that is tested first turns  *)
(* the tank inwards, and without a key it keeps its motion along the edge. *)
Bounced(x, y, xm, ym, m, n) ==
  \/ y >= FieldY - TankSize /\ n = Word - Step /\ m \in {0, xm}
  \/ y <= TankSize /\ n = Step /\ m \in {0, xm}
  \/ y > TankSize /\ y < FieldY - TankSize /\ x >= FieldX - TankSize /\ m = Word - Step /\ n \in {0, ym}
  \/ y > TankSize /\ y < FieldY - TankSize /\ x <= TankSize /\ m = Step /\ n \in {0, ym}

(* The edge tests of ball.sv on the field, and which edge is tested first.  *)
LEMMA EdgeTests ==
  ASSUME NEW t \in Tanks,
         t.x <= FieldX, t.y <= FieldY
  PROVE  /\ AtEdge(t) <=> ~Inside(t.x, t.y)
         /\ AtEdge(t) =>
              \/ Inward(t) = 0 /\ t.y >= FieldY - TankSize
              \/ Inward(t) = 2 /\ t.y <= TankSize
              \/ Inward(t) = 3 /\ t.y > TankSize /\ t.y < FieldY - TankSize /\ t.x >= FieldX - TankSize
              \/ Inward(t) = 1 /\ t.y > TankSize /\ t.y < FieldY - TankSize /\ t.x <= TankSize
<1>1. t.x \in 0 .. Word - 1 /\ t.y \in 0 .. Word - 1
  BY TankFields
<1>2. t.x + TankSize \in 0 .. Word - 1 /\ t.y + TankSize \in 0 .. Word - 1
  <2>1. \A max \in {FieldX, FieldY}, a \in 0 .. Word - 1 :
          a <= max => a + TankSize \in 0 .. Word - 1
    BY TankAssumption DEF Word
  <2> QED BY <1>1, <2>1
<1>3. Wrap(t.x + TankSize) = t.x + TankSize /\ Wrap(t.y + TankSize) = t.y + TankSize
  BY <1>2, WrapSame
<1>4. /\ Bottom(t) <=> t.y >= FieldY - TankSize
      /\ Right(t) <=> t.x >= FieldX - TankSize
      /\ Top(t) <=> t.y <= TankSize
      /\ Left(t) <=> t.x <= TankSize
  BY <1>1, <1>3, TankAssumption DEF Bottom, Right, Top, Left
<1>5. AtEdge(t) <=> ~Inside(t.x, t.y)
  BY <1>1, <1>4, TankAssumption DEF AtEdge, Inside
<1>6. Inward(t) = IF Bottom(t) THEN 0 ELSE IF Top(t) THEN 2 ELSE IF Right(t) THEN 3 ELSE 1
  BY DEF Inward
<1>7. AtEdge(t) =>
        \/ Bottom(t) /\ Inward(t) = 0
        \/ ~Bottom(t) /\ Top(t) /\ Inward(t) = 2
        \/ ~Bottom(t) /\ ~Top(t) /\ Right(t) /\ Inward(t) = 3
        \/ ~Bottom(t) /\ ~Top(t) /\ Left(t) /\ Inward(t) = 1
  BY <1>6 DEF AtEdge
<1>8. /\ ~Bottom(t) => t.y < FieldY - TankSize
      /\ ~Top(t) => t.y > TankSize
  BY <1>1, <1>4, TankAssumption
<1> QED BY <1>4, <1>5, <1>7, <1>8

(* The motion vectors of one step.                                         *)
LEMMA UnitVec ==
  /\ VecX(0, Step) = 0 /\ VecY(0, Step) = Word - Step
  /\ VecX(1, Step) = Step /\ VecY(1, Step) = 0
  /\ VecX(2, Step) = 0 /\ VecY(2, Step) = Step
  /\ VecX(3, Step) = Word - Step /\ VecY(3, Step) = 0
<1>1. Wrap(-Step) = Word - Step
  BY TankAssumption DEF Wrap, Word
<1>2. \A d : /\ VecX(d, Step) = IF d = 1 THEN Step ELSE IF d = 3 THEN Wrap(-Step) ELSE 0
             /\ VecY(d, Step) = IF d = 2 THEN Step ELSE IF d = 0 THEN Wrap(-Step) ELSE 0
  BY DEF VecX, VecY
<1> QED BY <1>1, <1>2

(* What one frame makes of a tank that nothing blocks, one pixel at a time:  *)
(* it bounces, stops or follows the key.                                   *)
Moved(t, key, u) ==
  \/ Bounced(t.x, t.y, t.xm, t.ym, u.xm, u.ym)
  \/ Inside(t.x, t.y) /\ key = 4 /\ u.xm = 0 /\ u.ym = 0
  \/ Inside(t.x, t.y) /\ key \in Dir /\ u.xm = VecX(key, Step) /\ u.ym = VecY(key, Step)

LEMMA FrameMotion ==
  ASSUME NEW t \in Tanks, t.x <= FieldX, t.y <= FieldY, NEW key \in 0 .. 4
  PROVE  Moved(t, key, TankEdge(t, key, FALSE, FALSE, Step))
<1> DEFINE t2 == TankEdge(t, key, FALSE, FALSE, Step)
<1> SUFFICES Moved(t, key, t2)
  OBVIOUS
<1>1. /\ AtEdge(t) <=> ~Inside(t.x, t.y)
      /\ AtEdge(t) =>
           \/ Inward(t) = 0 /\ t.y >= FieldY - TankSize
           \/ Inward(t) = 2 /\ t.y <= TankSize
           \/ Inward(t) = 3 /\ t.y > TankSize /\ t.y < FieldY - TankSize /\ t.x >= FieldX - TankSize
           \/ Inward(t) = 1 /\ t.y > TankSize /\ t.y < FieldY - TankSize /\ t.x <= TankSize
  BY EdgeTests
<1>2. CASE key = 4
  <2> DEFINE c == Coasting(t, FALSE, Step)
  <2>1. t2.xm = c[1] /\ t2.ym = c[2]
    BY <1>2 DEF TankEdge, Dir
  <2>2. CASE ~AtEdge(t)
    <3>1. c = <<0, 0>>
      BY <2>2 DEF Coasting
    <3> HIDE DEF c, t2
    <3>2. t2.xm = 0 /\ t2.ym = 0
      BY <2>1, <3>1
    <3> QED BY <1>1, <1>2, <2>2, <3>2 DEF Moved
  <2>3. CASE AtEdge(t) /\ Inward(t) \in {0, 2}
    <3>1. c = <<t.xm, VecY(Inward(t), Step)>>
      BY <2>3 DEF Coasting
    <3> HIDE DEF c, t2
    <3>2. t2.xm = t.xm /\ t2.ym = VecY(Inward(t), Step)
      BY <2>1, <3>1
    <3> QED BY <1>1, <2>3, <3>2, UnitVec DEF Moved, Bounced
  <2>4. CASE AtEdge(t) /\ Inward(t) \in {1, 3}
    <3>1. c = <<VecX(Inward(t), Step), t.ym>>
      BY <2>4 DEF Coasting
    <3> HIDE DEF c, t2
    <3>2. t2.xm = VecX(Inward(t), Step) /\ t2.ym = t.ym
      BY <2>1, <3>1
    <3> QED BY <1>1, <2>4, <3>2, UnitVec DEF Moved, Bounced
  <2> QED BY <1>1, <2>2, <2>3, <2>4
<1>3. CASE key \in Dir /\ AtEdge(t)
  <2>1. t2.xm = VecX(Inward(t), Step) /\ t2.ym = VecY(Inward(t), Step)
    BY <1>3 DEF TankEdge, Steered
  <2> HIDE DEF t2
  <2> QED BY <1>1, <1>3, <2>1, UnitVec DEF Moved, Bounced
<1>4. CASE key \in Dir /\ ~AtEdge(t)
  <2>1. t2.xm = VecX(key, Step) /\ t2.ym = VecY(key, Step)
    BY <1>4 DEF TankEdge, Steered
  <2> HIDE DEF t2
  <2> QED BY <1>1, <1>4, <2>1 DEF Moved
<1>5. key = 4 \/ key \in Dir
  BY DEF Dir
<1> HIDE DEF t2
<1> QED BY <1>2, <1>3, <1>4, <1>5

----------------------------------------------------------------------------

(* While a counter is stale no tank touches the pickup.                     *)
LEMMA StaleNoPick ==
  ASSUME FreshIInv, StaleCount
  PROVE  \A p \in Crew : ~Pick(p)
<1> SUFFICES ASSUME NEW p \in Crew PROVE ~Pick(p)
  OBVIOUS
<1>1. Homes[p].x \in Int /\ Homes[p].y \in Int
  BY DrivingAssumption
<1>2. place = FirstPlace /\ tank[p].x = Homes[p].x
  BY DEF FreshIInv, Parked, AtHome, Rolled
<1>3. PICK s \in {0, Step, PowerStep} : tank[p].y = Homes[p].y + s
  BY <1>1 DEF FreshIInv, Parked, AtHome, Rolled
<1> DEFINE h == [x |-> Homes[p].x, y |-> Homes[p].y + s]
<1>4. ~Touches(h, FirstPlace, PickSize)
  BY PickAssumption
<1>5. h.x = tank[p].x /\ h.y = tank[p].y
  BY <1>2, <1>3
<1> HIDE DEF h
<1> QED BY <1>2, <1>4, <1>5 DEF Pick, Touches

(* A clock leaves a counter stale only if it was.                           *)
LEMMA StaleBefore ==
  ASSUME TypeOK, Clocked, UNCHANGED counter, StaleCount'
  PROVE  StaleCount
<1>1. PICK p \in Crew : ~powered'[p] /\ counter[p] \notin {0, PowerFrames}
  BY DEF StaleCount
<1>2. powered'[p] = PowerClk(powered[p], counter[p], Pick(p)) /\ powered[p] \in BOOLEAN
  BY DEF Clocked, TypeOK
<1>3. ~powered[p]
  BY <1>1, <1>2 DEF PowerClk
<1> QED BY <1>1, <1>3 DEF StaleCount

(* A parked tank takes one step down in its first frame.                    *)
LEMMA RollDown ==
  ASSUME TypeOK, Parked, FrameEdge
  PROVE  Rolled'
<1>1. PICK key \in [Crew -> 0 .. 4] :
        tank' = [p \in Crew |->
                   TankEdge(tank[p], key[p], IsObst(p), Colliding, StepOf(powered[p]))]
  BY DEF FrameEdge
<1> SUFFICES ASSUME NEW p \in Crew
             PROVE  /\ tank'[p].x = Homes[p].x
                    /\ \E s \in {Step, PowerStep} : tank'[p].y = Homes[p].y + s
  BY DEF Rolled
<1>2. tank'[p].x = Wrap(tank[p].x + tank[p].xm) /\ tank'[p].y = Wrap(tank[p].y + tank[p].ym)
  BY <1>1 DEF TankEdge
<1>3. /\ Homes[p].x \in TankSize + 1 .. FieldX - TankSize - 1
      /\ Homes[p].y \in TankSize + 1 .. FieldY - TankSize - 1
  BY DrivingAssumption
<1>4. \A x \in TankSize + 1 .. FieldX - TankSize - 1 : Wrap(x + 0) = x
  BY TankAssumption DEF Wrap, Word
<1>5. \A y \in TankSize + 1 .. FieldY - TankSize - 1, s \in {Step, PowerStep} : Wrap(y + s) = y + s
  BY TankAssumption DEF Wrap, Word
<1>6. tank[p].x = Homes[p].x /\ tank[p].y = Homes[p].y
      /\ tank[p].xm = 0 /\ tank[p].ym \in {Step, PowerStep}
  BY DEF Parked, AtHome
<1> QED BY <1>2, <1>3, <1>4, <1>5, <1>6

LEMMA FreshNext == TypeOK /\ FreshIInv /\ [Next]_vars => FreshIInv'
<1> SUFFICES ASSUME TypeOK, FreshIInv, [Next]_vars, StaleCount' PROVE FreshIInv'
  BY DEF FreshIInv
<1>1. ASSUME Clocked, UNCHANGED counter
      PROVE  StaleCount /\ place' = FirstPlace /\ placed' = TRUE
  <2>1. StaleCount
    BY <1>1, StaleBefore
  <2>2. place' = place /\ placed' = TRUE
    BY <1>1, <2>1, StaleNoPick DEF FreshIInv, Clocked
  <2> QED BY <2>1, <2>2 DEF FreshIInv
<1>2. CASE VSync
  <2>1. PICK p \in Crew : ~powered[p] /\ counter'[p] \notin {0, PowerFrames}
    BY <1>2 DEF StaleCount, VSync
  <2>2. counter'[p] = 0
    BY <1>2, <2>1 DEF VSync, CounterVS
  <2> QED BY <2>1, <2>2
<1>3. CASE ClkTick
  <2>1. /\ StaleCount /\ place' = FirstPlace /\ placed' = TRUE
        /\ tank' = tank
    BY <1>1, <1>3 DEF ClkTick
  <2>2. frame = "low" /\ frame' = "low"
    BY <1>3, <2>1 DEF ClkTick, FreshIInv
  <2> QED BY <2>1, <2>2 DEF FreshIInv, Parked, AtHome, Rolled
<1>4. CASE FrameEdge
  <2>1. StaleCount /\ place' = FirstPlace /\ placed' = TRUE
    BY <1>1, <1>4 DEF FrameEdge
  <2>2. Parked /\ frame' = "low"
    BY <1>4, <2>1 DEF FrameEdge, FreshIInv
  <2> QED BY <1>4, <2>1, <2>2, RollDown DEF FreshIInv
<1>5. CASE Reset
  <2>1. Parked'
    <3> SUFFICES ASSUME NEW p \in Crew
                 PROVE  /\ tank'[p].x = Homes[p].x /\ tank'[p].y = Homes[p].y
                        /\ tank'[p].xm = 0 /\ tank'[p].ym \in {Step, PowerStep}
      BY DEF Parked, AtHome
    <3>1. tank'[p] = ResetTank(Homes[p], StepOf(powered[p]))
      BY <1>5 DEF Reset
    <3> QED BY <3>1 DEF ResetTank, StepOf
  <2>2. frame' \in {"low", "rising"} /\ place' = FirstPlace /\ placed' = TRUE
    BY <1>5 DEF Reset
  <2> QED BY <2>1, <2>2 DEF FreshIInv
<1>6. CASE UNCHANGED vars
  BY <1>6 DEF vars, FreshIInv, StaleCount, Parked, AtHome, Rolled
<1> QED BY <1>2, <1>3, <1>4, <1>5, <1>6 DEF Next

(* A power-up starts with a counter that is zero, or in the frame in which  *)
(* the last one ran out, whatever resets came before.                      *)
THEOREM FreshStart == Spec => FreshCount
<1>1. Init => FreshIInv
  BY DEF Init, FreshIInv, StaleCount
<1>2. TypeOK /\ FreshIInv /\ [Next]_vars =>
        [\A p \in Crew : ~powered[p] /\ powered'[p] => counter[p] \in {0, PowerFrames}]_vars
  <2> SUFFICES ASSUME TypeOK, FreshIInv, Next, NEW p \in Crew, ~powered[p], powered'[p]
               PROVE  counter[p] \in {0, PowerFrames}
    OBVIOUS
  <2>1. Clocked
    BY DEF Next, VSync, ClkTick, FrameEdge, Reset
  <2>2. Pick(p)
    BY <2>1 DEF Clocked, PowerClk
  <2> QED BY <2>2, StaleNoPick DEF StaleCount
<1> QED BY <1>1, <1>2, FreshNext, DrivingInitType, DrivingNextType, PTL DEF Spec, FreshCount
=============================================================================

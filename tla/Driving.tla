------------------------------ MODULE Driving ------------------------------
(***************************************************************************)
(* The tanks on the field: ball.sv for each, tankcollision.sv, the cover   *)
(* that obstacle.sv still stands for, the pickup (pickup.sv,               *)
(* pickup_gen.sv), the keys that reach the tanks (lab8.sv) and the menu    *)
(* that gives tank 1 to the computer (Color_Mapper.sv).  VSync is the      *)
(* rising edge of VGA_VS, which clocks the power-up counters; two clocks   *)
(* later FrameEdge moves the tanks; every other clock of the 50 MHz domain *)
(* is a ClkTick.                                                           *)
(***************************************************************************)
EXTENDS Skynet

CONSTANTS Crew,           \* the tanks on the field, {1, 2} or one on its own
          Homes,          \* centre of each tank after reset
          Walls, WallSize, \* corners of the obstacles, their size (8)
          Places, PickSize, \* corners the pickup may be given, its size (16)
          FirstPlace,     \* its corner after reset, (82, 99)
          Foes            \* where the opponent of a tank on its own may be

Corner == [x : 0 .. Word - 1, y : 0 .. Word - 1]

ASSUME DrivingAssumption ==
  /\ Crew \subseteq Player
  /\ Homes \in [Crew -> [x : TankSize + 1 .. FieldX - TankSize - 1,
                          y : TankSize + 1 .. FieldY - TankSize - 1]]
  /\ Walls \subseteq Corner /\ Places \subseteq Corner /\ FirstPlace \in Corner
  /\ WallSize \in Nat /\ PickSize \in Nat
  /\ Foes \subseteq Corner

\* A tank after a reset, and one frame later, is clear of the first pickup.
ASSUME PickAssumption ==
  \A p \in Crew, s \in {0, Step, PowerStep} :
    ~Touches([x |-> Homes[p].x, y |-> Homes[p].y + s], FirstPlace, PickSize)

VARIABLES tank,      \* position, motion and direction registers
          powered,   \* State of ball.sv: TRUE is Powerup
          counter,   \* of the power-up
          frame,     \* "vs" after VSync, "rising" with frame_clk_rising_edge
          wall,      \* the corners at which an obstacle stands
          place,     \* the pickup's corner
          placed,    \* pickup_gen.sv has a position: objcounter is not 0
          start,     \* Start_sig: the menu is shown
          auto       \* Status of Color_Mapper.sv: TRUE is Single

vars == <<tank, powered, counter, frame, wall, place, placed, start, auto>>

\* The pickup's hit counter is held at zero by regen, so it never goes out.
Pick(p) == Touches(tank[p], place, PickSize)

IsObst(p) == \E c \in wall : Touches(tank[p], c, WallSize)

Colliding == Crew = Player /\ Collide(tank[1], tank[2])

Init ==
  /\ tank = [p \in Crew |-> ResetTank(Homes[p], Step)]
  /\ powered = [p \in Crew |-> FALSE] /\ counter = [p \in Crew |-> 0]
  /\ frame = "low"
  /\ wall \in SUBSET Walls
  /\ place = FirstPlace /\ placed = TRUE
  /\ start = TRUE /\ auto = FALSE

Opponent == IF 2 \in Crew THEN {tank[2]} ELSE Foes

\* What the keys of tank p may be: none in the menu and once somebody has won,
\* those of the computer for tank 1 if it was chosen, any otherwise.
Keys(p) ==
  IF start THEN {4}
  ELSE IF auto /\ p = 1 THEN {4} \cup {SkynetKey(tank[1], o) : o \in Opponent}
  ELSE 0 .. 4

\* The keys of the menu; Enter leaves it.
MenuClk ==
  /\ start' \in (IF start THEN BOOLEAN ELSE {FALSE})
  /\ auto' \in (IF start THEN BOOLEAN ELSE {auto})

\* State of both tanks and the pickup at any clock.  A pickup that was taken is
\* moved at once, and goes on moving until the generators give a legal position.
Clocked ==
  /\ powered' = [p \in Crew |-> PowerClk(powered[p], counter[p], Pick(p))]
  /\ wall' \in SUBSET Walls
  /\ MenuClk
  /\ \/ /\ \E p \in Crew : Pick(p)
        /\ place' \in Places /\ placed' = FALSE
     \/ /\ ~placed /\ \A p \in Crew : ~Pick(p)
        /\ place' \in Places /\ placed' = FALSE
     \/ /\ \A p \in Crew : ~Pick(p)
        /\ place' = place /\ placed' = TRUE

VSync ==
  /\ frame = "low" /\ frame' = "vs"
  /\ counter' = [p \in Crew |-> CounterVS(powered[p], counter[p], Pick(p))]
  /\ UNCHANGED <<tank, powered, wall, place, placed, start, auto>>

ClkTick ==
  /\ Clocked
  /\ frame # "rising" /\ frame' = (IF frame = "vs" THEN "rising" ELSE "low")
  /\ UNCHANGED <<tank, counter>>

FrameEdge ==
  /\ Clocked
  /\ frame = "rising" /\ frame' = "low"
  /\ \E key \in [Crew -> 0 .. 4] :
       /\ \A p \in Crew : key[p] \in Keys(p)
       /\ tank' = [p \in Crew |->
                     TankEdge(tank[p], key[p], IsObst(p), Colliding, StepOf(powered[p]))]
  /\ UNCHANGED counter

\* The counter and the edge detector have no reset.
Reset ==
  /\ tank' = [p \in Crew |-> ResetTank(Homes[p], StepOf(powered[p]))]
  /\ powered' = [p \in Crew |-> FALSE]
  /\ frame' = (IF frame = "vs" THEN "rising" ELSE "low")
  /\ wall' \in SUBSET Walls
  /\ place' = FirstPlace /\ placed' = TRUE
  /\ start' = TRUE /\ auto' = FALSE
  /\ UNCHANGED counter

Next == VSync \/ ClkTick \/ FrameEdge \/ Reset

Spec == Init /\ [][Next]_vars

\* The oscillator and the display controller never stop.
Fairness == WF_vars(VSync) /\ WF_vars(ClkTick) /\ WF_vars(FrameEdge)

LiveSpec == Spec /\ Fairness
----------------------------------------------------------------------------
\* Properties.

TypeOK ==
  /\ tank \in [Crew -> Tanks]
  /\ powered \in [Crew -> BOOLEAN] /\ counter \in [Crew -> 0 .. PowerFrames]
  /\ frame \in {"low", "vs", "rising"}
  /\ wall \in SUBSET Walls /\ place \in Corner /\ placed \in BOOLEAN
  /\ start \in BOOLEAN /\ auto \in BOOLEAN

(* A tank on its own in the open is turned back at the top and the bottom   *)
(* before it has gone two steps past the bounce, whatever keys are down and *)
(* whenever the power-up starts and stops: ball.sv tests these two edges    *)
(* first, so its vertical register never wraps.                             *)
VerticalField ==
  \A p \in Crew : tank[p].y \in TankSize + 1 - 2 * PowerStep .. FieldY - TankSize - 1 + 2 * PowerStep

\* What the vertical registers of a tank on its own satisfy: one that is beyond a
\* bounce by a step does not go on in that direction.
Upwards   == {Word - Step, Word - PowerStep}
Downwards == {Step, PowerStep}
VerticalSound(y, m) ==
  /\ m \in Upwards \cup Downwards \cup {0}
  /\ y \in TankSize + 1 - 2 * PowerStep .. FieldY - TankSize - 1 + 2 * PowerStep
  /\ m \in Upwards => y > TankSize - PowerStep
  /\ m \in Downwards => y < FieldY - TankSize + PowerStep

(* The inductive invariant of VerticalField.                                *)
VerticalIInv == TypeOK /\ \A p \in Crew : VerticalSound(tank[p].y, tank[p].ym)

(* Until somebody takes the first pickup, a tank on its own in the open is  *)
(* turned back at the sides before it has gone three steps past the bounce, *)
(* although ball.sv tests the top and the bottom first and a tank without   *)
(* keys slides on along them: InField is lost only by a change of the step. *)
HorizontalField ==
  place = FirstPlace =>
    \A p \in Crew : tank[p].x \in TankSize + 1 - 3 * Step .. FieldX - TankSize - 1 + 3 * Step

(* The inductive invariant of HorizontalField: a tank that moves along both *)
(* axes has just bounced, and one that slides towards a side along the top  *)
(* or the bottom was not yet at the side when it came there.  "d" is how    *)
(* far it is from the side, "towards" that it moves there.                  *)
AtEnd(y)  == y <= TankSize \/ y >= FieldY - TankSize
Beyond(y) == y <= TankSize - Step \/ y >= FieldY - TankSize + Step

Slides(d, towards, y, ym) ==
  /\ d > TankSize - 3 * Step
  /\ towards =>
       /\ d > TankSize - 2 * Step
       /\ AtEnd(y) => d > TankSize - Step
       /\ Beyond(y) \/ (AtEnd(y) /\ ym = 0) => d > TankSize

Rebound(x, xm, y, ym) ==
  xm # 0 /\ ym # 0 =>
    \/ ym = Step /\ y <= TankSize + Step
    \/ ym = Word - Step /\ y >= FieldY - TankSize - Step
    \/ xm = Step /\ x <= TankSize + Step
    \/ xm = Word - Step /\ x >= FieldX - TankSize - Step

Level(y, ym) ==
  /\ ym \in {0, Step, Word - Step}
  /\ y > TankSize - 2 * Step /\ y < FieldY - TankSize + 2 * Step
  /\ ym = Word - Step => y > TankSize - Step
  /\ ym = Step => y < FieldY - TankSize + Step
  /\ ym = 0 => ~Beyond(y)

Contained(t) ==
  /\ t.xm \in {0, Step, Word - Step} /\ Level(t.y, t.ym)
  /\ Slides(t.x, t.xm = Word - Step, t.y, t.ym)
  /\ Slides(FieldX - t.x, t.xm = Step, t.y, t.ym)
  /\ Rebound(t.x, t.xm, t.y, t.ym)

\* Since the reset, before the first frame.
AtHome(p) ==
  /\ tank[p].x = Homes[p].x /\ tank[p].y = Homes[p].y
  /\ tank[p].xm = 0 /\ tank[p].ym \in {Step, PowerStep}

HorizontalIInv ==
  place = FirstPlace =>
    \A p \in Crew : ~powered[p] /\ (AtHome(p) \/ Contained(tank[p]))

(* A power-up starts at zero, or in the very frame in which the last one    *)
(* ran out: the counter, which no reset clears and which another clock      *)
(* drives, never shortens it otherwise.                                     *)
FreshCount ==
  [][\A p \in Crew : ~powered[p] /\ powered'[p] => counter[p] \in {0, PowerFrames}]_vars

(* The inductive invariant of FreshCount.  A reset leaves the counter where *)
(* it was; until the next vertical sync clears it, the tanks are where they *)
(* cannot touch the pickup.                                                 *)
StaleCount == \E p \in Crew : ~powered[p] /\ counter[p] \notin {0, PowerFrames}
Parked == \A p \in Crew : AtHome(p)
Rolled == \A p \in Crew :
  tank[p].x = Homes[p].x /\ \E s \in {Step, PowerStep} : tank[p].y = Homes[p].y + s
FreshIInv ==
  StaleCount =>
    /\ place = FirstPlace /\ placed
    /\ (frame \in {"low", "rising"} /\ Parked) \/ (frame = "low" /\ Rolled)

(* A power-up that is not renewed comes to its end.                         *)
PowerEnds == \A p \in Crew : []<>(~powered[p] \/ Pick(p))

(* "Leftmost point on the X axis", "Rightmost point", "Topmost", "Bottommost*)
(* point" (ball.sv:40-43): a tank's centre stays between them.              *)
InField == \A p \in Crew : tank[p].x \in 0 .. FieldX /\ tank[p].y \in 0 .. FieldY

(* "Wall avoidance mechanism" (Skynet.sv:33): in the open, wherever its     *)
(* opponent goes, the tank the computer drives keeps the whole of its body  *)
(* on the field until somebody takes the first pickup, which is then moved. *)
(* It is turned two pixels before the bounce of ball.sv, but its motion is  *)
(* a frame old by then.                                                    *)
AvoidsWalls ==
  auto /\ place = FirstPlace =>
    /\ tank[1].x \in TankSize .. FieldX - TankSize
    /\ tank[1].y \in TankSize .. FieldY - TankSize

(* The inductive invariant of AvoidsWalls.  Along each axis the tank is not *)
(* about to leave the field, and where it stands at an edge with a motion   *)
(* along it, which Coasting keeps up, it has just come from the margin that *)
(* this motion leads away from: the motion ends before the far corner.      *)
AxisSound(a, m, max) ==
  /\ m \in {0, Step, Word - Step} /\ a \in TankSize .. max - TankSize
  /\ m = Word - Step => a >= TankSize + Step
  /\ m = Step => a <= max - TankSize - Step

AlongEdge(a, m, max, along, alongM, alongMax) ==
  LET slack == IF m = 0 THEN Step ELSE 2 * Step
  IN  a \in {TankSize, max - TankSize} =>
        /\ alongM = Word - Step => along > alongMax - Margin - slack
        /\ alongM = Step => along < Margin + slack

Steady(t) ==
  /\ AxisSound(t.x, t.xm, FieldX) /\ AxisSound(t.y, t.ym, FieldY)
  /\ AlongEdge(t.x, t.xm, FieldX, t.y, t.ym, FieldY)
  /\ AlongEdge(t.y, t.ym, FieldY, t.x, t.xm, FieldX)

AvoidsIInv ==
  place = FirstPlace =>
    /\ ~powered[1]
    /\ start \/ auto => AtHome(1) \/ Steady(tank[1])

(* "which tank picks it up first" (pickup.sv:6): one pickup is for one tank.*)
OnePicks == \A p, q \in Crew : Pick(p) /\ Pick(q) => p = q
=============================================================================

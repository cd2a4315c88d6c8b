---------------------------- MODULE SetupProofs ----------------------------
(***************************************************************************)
(* Map generation is safe for every number of tiles and obstacles and every *)
(* seed whose orbit is legal: play begins on a map that was drawn in this   *)
(* round, and that map stays.                                               *)
(***************************************************************************)
EXTENDS Setup, TLAPS

(* A bit is zero or one, so a shifted register has ten bits.                *)
LEMMA BitRange == \A v \in Nat, w \in Nat \ {0} : Bit(v, w) \in 0 .. 1
  BY DEF Bit

LEMMA ShiftRange == \A v \in Register : Shift(v) \in Register
<1> SUFFICES ASSUME NEW v \in 0 .. 1023 PROVE Shift(v) \in 0 .. 1023
  BY DEF Register
<1>1. /\ Bit(v, 1) \in 0 .. 1 /\ Bit(v, 2) \in 0 .. 1 /\ Bit(v, 4) \in 0 .. 1 /\ Bit(v, 8) \in 0 .. 1
      /\ Bit(v, 32) \in 0 .. 1 /\ Bit(v, 64) \in 0 .. 1 /\ Bit(v, 128) \in 0 .. 1
      /\ Bit(v, 256) \in 0 .. 1 /\ Bit(v, 512) \in 0 .. 1
  BY BitRange
<1>2. (Bit(v, 8) + Bit(v, 64)) % 2 \in 0 .. 1
  BY <1>1
<1> QED BY <1>1, <1>2 DEF Shift

LEMMA RegisterPair ==
  ASSUME NEW r \in Registers
  PROVE  r[1] \in Register /\ r[2] \in Register
  BY DEF Registers

LEMMA TurnRange ==
  ASSUME NEW r \in Registers
  PROVE  Turn(r) \in Registers
<1>1. Shift(r[1]) \in Register /\ Shift(r[2]) \in Register
  BY RegisterPair, ShiftRange
<1> QED BY <1>1 DEF Turn, Registers

(* A legal pair of numbers is a place on the screen.                        *)
LEMMA LegalPlace ==
  ASSUME NEW r \in Registers, Legal(r)
  PROVE  Place(r) \in Places
<1> DEFINE a == r[1] % 512
           b == r[2] % 512
           Width == 1 .. 511
           Height == 1 .. 479
<1>1. a \in 0 .. 511 /\ b \in 0 .. 511
  <2>1. \A n \in Register : n % 512 \in 0 .. 511
    BY DEF Register
  <2> QED BY <2>1, RegisterPair
<1>2. Place(r) = <<a, b>>
  BY DEF Place
<1>3. Places = Width \X Height
  BY DEF Places
<1> HIDE DEF a, b
<1>4. a > 0 /\ b > 0 /\ b < 480
  BY <1>2 DEF Legal
<1>5. a \in Width /\ b \in Height
  BY <1>1, <1>4
<1> HIDE DEF Width, Height
<1> QED BY <1>2, <1>3, <1>5

----------------------------------------------------------------------------

LEMMA InitInvariant == Init => IInv
<1> SUFFICES ASSUME Init PROVE IInv
  OBVIOUS
<1>1. TypeOK
  <2>1. 0 \in 0 .. Rows - 1 /\ 0 \in 0 .. Cols - 1 /\ 0 \in 0 .. number_obstacles + 1
    BY SetupAssumption
  <2>2. rand \in Registers
    BY SetupAssumption DEF Init
  <2>3. tl_obj \in [Obstacle -> Places \cup {Nowhere}]
    BY DEF Init
  <2> QED BY <2>1, <2>2, <2>3 DEF Init, TypeOK
<1>2. Counting
  BY SetupAssumption DEF Init, Counting, Gen
<1>3. Drawing
  BY SetupAssumption DEF Init, Drawing, Obstacle, Draws, Gen
<1> QED BY <1>1, <1>2, <1>3 DEF Init, IInv

(* The counters stay in range, and objcounter stops one past the end.       *)
LEMMA ClockType ==
  ASSUME IInv, Clock
  PROVE  TypeOK'
<1> USE DEF IInv, TypeOK
<1>1. State' \in {"Start", "Generate", "Game", "Done"}
  BY DEF Clock, RoundClk
<1>2. row' \in 0 .. Rows - 1 /\ column' \in 0 .. Cols - 1 /\ Done' \in BOOLEAN
  BY SetupAssumption DEF Clock, BackgroundClk, LastRow, LastColumn, Gen
<1>3. rand' \in Registers
  BY TurnRange DEF Clock
<1>4. objcounter' \in 0 .. number_obstacles + 1 /\ finish' \in BOOLEAN
  BY SetupAssumption DEF Clock, CounterClk, Draws, Counting
<1>5. tl_obj' \in [Obstacle -> Places \cup {Nowhere}]
  <2>1. Draws' => Place(rand') \in Places
    BY <1>3, LegalPlace DEF Draws
  <2>2. \A i \in Obstacle : tl_obj[i] \in Places \cup {Nowhere}
    OBVIOUS
  <2> QED BY <2>1, <2>2 DEF Clock, Latches
<1>6. drawn' \subseteq Obstacle /\ seeded' \in BOOLEAN
  BY DEF Clock, Latches, Open
<1> QED BY <1>1, <1>2, <1>3, <1>4, <1>5, <1>6

(* While there is a seed every clock of Generate draws until the end.       *)
LEMMA ClockCounting ==
  ASSUME IInv, Clock
  PROVE  Counting'
<1>1. seeded' = seeded /\ (seeded /\ Gen /\ ~finish => Draws)
  BY OrbitAssumption DEF IInv, Clock, Draws
<1>2. /\ objcounter \in 0 .. number_obstacles + 1 /\ number_obstacles \in Nat
      /\ row \in 0 .. Rows - 1 /\ column \in 0 .. Cols - 1 /\ number_obstacles < Cols /\ Cols \in 1 .. 128
  BY SetupAssumption DEF IInv, TypeOK
<1>3. /\ objcounter' = IF Draws THEN objcounter + 1 ELSE objcounter
      /\ finish' <=> Gen /\ objcounter >= number_obstacles
      /\ Draws => Gen /\ ~finish
  BY DEF Clock, CounterClk, Draws
<1>4. State' = "Start" => objcounter' = 0 /\ ~finish' /\ row' = 0 /\ column' = 0 /\ ~Done'
  BY <1>3 DEF Clock, RoundClk, BackgroundClk, IInv, Counting, Gen
<1>5. finish' => objcounter' >= number_obstacles
  <2>1. objcounter \in Int /\ number_obstacles \in Int
    BY <1>2
  <2>2. objcounter >= number_obstacles => objcounter' >= number_obstacles
    BY <1>3, <2>1
  <2> QED BY <1>3, <2>2
<1>6. Gen' /\ objcounter' > number_obstacles => finish'
  <2> SUFFICES ASSUME Gen', objcounter' > number_obstacles PROVE finish'
    OBVIOUS
  <2>1. Gen \/ State = "Start"
    BY DEF Clock, RoundClk, Gen, IInv, TypeOK
  <2>2. State = "Start" => objcounter' = 0
    BY <1>3 DEF IInv, Counting, Gen
  <2>3. Gen
    BY <1>2, <2>1, <2>2
  <2> QED BY <1>2, <1>3, <2>3
<1>7. State' \in {"Game", "Done"} => objcounter' >= number_obstacles
  <2>1. CASE State \in {"Game", "Done"}
    BY <1>2, <1>3, <2>1 DEF IInv, Counting
  <2>2. CASE State = "Generate" /\ Done /\ Gen_Done2
    <3>1. CASE seeded
      BY <1>2, <1>3, <2>2, <3>1 DEF IInv, Counting, Gen
    <3>2. CASE ~seeded
      <4>1. number_obstacles - 1 \in Obstacle \ {0}
        BY SetupAssumption DEF Obstacle
      <4>2. number_obstacles - 1 \in drawn
        BY <2>2, <3>2, <4>1 DEF Gen_Done2, IInv, Drawing
      <4>3. ~(number_obstacles - 1 > objcounter)
        BY <4>1, <4>2 DEF IInv, Drawing
      <4>4. objcounter = number_obstacles - 1 => Draws
        BY <4>1, <4>2 DEF IInv, Drawing
      <4> QED BY <1>2, <1>3, <4>3, <4>4
    <3> QED BY <3>1, <3>2
  <2>3. CASE State' \notin {"Game", "Done"}
    BY <2>3
  <2> QED BY <2>1, <2>2, <2>3 DEF Clock, RoundClk, IInv, TypeOK
<1>8. seeded' /\ Gen' =>
        objcounter' >= number_obstacles \/ (row' = 0 /\ ~Done' /\ column' <= objcounter')
  <2> SUFFICES ASSUME seeded, Gen', ~(objcounter' >= number_obstacles)
               PROVE  row' = 0 /\ ~Done' /\ column' <= objcounter'
    BY <1>1
  <2>1. ~(objcounter >= number_obstacles)
    BY <1>2, <1>3
  <2>2. CASE State = "Start"
    <3>1. row' = 0 /\ column' = 0 /\ ~Done'
      BY <2>2 DEF Clock, BackgroundClk, Gen, IInv, Counting
    <3> QED BY <1>2, <1>3, <3>1
  <2>3. CASE Gen
    <3>1. row = 0 /\ ~Done /\ column <= objcounter
      BY <2>1, <2>3 DEF IInv, Counting
    <3>2. ~LastColumn /\ column + 1 \in 0 .. 127
      BY <1>2, <2>1, <3>1 DEF LastColumn
    <3>3. ~finish
      BY <2>1 DEF IInv, Counting
    <3>4. objcounter' = objcounter + 1
      BY <1>1, <1>3, <2>3, <3>3
    <3>5. row' = 0 /\ ~Done' /\ column' = (column + 1) % 128
      BY <2>3, <3>1, <3>2 DEF Clock, BackgroundClk
    <3>6. (column + 1) % 128 = column + 1
      BY <3>2
    <3> QED BY <1>2, <3>1, <3>4, <3>5, <3>6
  <2> QED BY <2>2, <2>3 DEF Clock, RoundClk, Gen, IInv, TypeOK
<1> QED BY <1>4, <1>5, <1>6, <1>7, <1>8 DEF Counting

(* The open latch is drawn exactly when the registers are drawn from; those *)
(* before it are drawn already and stay as they are.                        *)
LEMMA ClockDrawing ==
  ASSUME IInv, Clock
  PROVE  Drawing'
<1>1. /\ objcounter \in 0 .. number_obstacles + 1 /\ number_obstacles \in Nat
      /\ objcounter' = IF Draws THEN objcounter + 1 ELSE objcounter
  BY SetupAssumption DEF IInv, TypeOK, Clock, CounterClk
<1>2. /\ tl_obj' = [i \in Obstacle |-> IF i \notin Open' THEN tl_obj[i]
                                       ELSE IF Draws' THEN Place(rand') ELSE Nowhere]
      /\ drawn' = IF Draws' THEN drawn \cup Open' ELSE drawn \ Open'
      /\ Open' = {objcounter'} \cap Obstacle
  BY DEF Clock, Latches, Open
<1>3. Draws' => Place(rand') \in Places
  BY ClockType, LegalPlace DEF TypeOK, Draws
<1>4. ASSUME NEW i \in Obstacle
      PROVE  (i < objcounter' => i \in drawn') /\ (i > objcounter' => i \notin drawn')
  <2>1. i \in Nat
    BY <1>1 DEF Obstacle
  <2>2. i < objcounter => i \in drawn
    BY DEF IInv, Drawing
  <2>3. i > objcounter => i \notin drawn
    BY DEF IInv, Drawing
  <2>4. i = objcounter /\ Draws => i \in drawn
    BY DEF IInv, Drawing
  <2>5. i < objcounter' => i \in drawn /\ i \notin Open'
    BY <1>1, <1>2, <2>1, <2>2, <2>4
  <2>6. i > objcounter' => i \notin drawn /\ i \notin Open'
    BY <1>1, <1>2, <2>1, <2>3
  <2> QED BY <1>2, <2>5, <2>6
<1>5. objcounter' \in Obstacle => (objcounter' \in drawn' <=> Draws')
  BY <1>2
<1>6. ASSUME NEW i \in drawn' PROVE tl_obj'[i] \in Places
  <2>1. i \in Obstacle /\ (i \in drawn => tl_obj[i] \in Places)
    BY <1>2 DEF IInv, TypeOK, Drawing
  <2>2. i \in Open' => Draws'
    BY <1>2
  <2>3. i \notin Open' => i \in drawn
    BY <1>2
  <2> QED BY <1>2, <1>3, <2>1, <2>2, <2>3
<1>7. ASSUME ~seeded', NEW i \in Obstacle, tl_obj'[i] # Nowhere PROVE i \in drawn'
  <2>1. tl_obj[i] # Nowhere => i \in drawn
    BY <1>7 DEF IInv, Drawing, Clock
  <2>2. i \in Open' => Draws'
    BY <1>2, <1>7
  <2> QED BY <1>2, <1>7, <2>1, <2>2
<1> QED BY <1>4, <1>5, <1>6, <1>7 DEF Drawing

LEMMA ResetInvariant ==
  ASSUME IInv, Reset
  PROVE  IInv'
<1>1. TypeOK'
  <2>1. tl_obj' \in [Obstacle -> Places \cup {Nowhere}]
    BY DEF IInv, TypeOK, Reset
  <2>2. 0 \in 0 .. Rows - 1 /\ 0 \in 0 .. Cols - 1 /\ 0 \in 0 .. number_obstacles + 1
    BY SetupAssumption
  <2>3. rand' \in Registers
    BY OrbitAssumption DEF Reset
  <2> QED BY <2>1, <2>2, <2>3 DEF TypeOK, Reset, CounterReset
<1>2. Counting'
  BY SetupAssumption DEF Reset, CounterReset, Counting, Gen
<1>3. Drawing'
  BY SetupAssumption DEF Reset, CounterReset, Drawing, Obstacle, Draws, Gen
<1> QED BY <1>1, <1>2, <1>3, OrbitAssumption DEF IInv, Reset

LEMMA NextInvariant == IInv /\ [Next]_vars => IInv'
<1> SUFFICES ASSUME IInv, [Next]_vars PROVE IInv'
  OBVIOUS
<1>1. CASE Clock
  <2>1. seeded' => rand' \in Orbit
    BY <1>1, OrbitAssumption DEF Clock, IInv
  <2> QED BY <1>1, <2>1, ClockType, ClockCounting, ClockDrawing DEF IInv
<1>2. CASE Reset
  BY <1>2, ResetInvariant
<1>3. CASE UNCHANGED vars
  BY <1>3 DEF vars, IInv, TypeOK, Counting, Drawing, Gen, Draws
<1> QED BY <1>1, <1>2, <1>3 DEF Next

(* The counters and latches of map generation keep their ranges; the        *)
(* counter stops one past the last obstacle.                                *)
THEOREM SetupTypeCorrect == Spec => []TypeOK
<1>1. IInv => TypeOK
  BY DEF IInv
<1> QED BY <1>1, InitInvariant, NextInvariant, PTL DEF Spec

----------------------------------------------------------------------------

LEMMA DrawnInPlay == IInv => AllDrawn
<1> SUFFICES ASSUME IInv, State \in {"Game", "Done"}, NEW i \in Obstacle PROVE i \in drawn
  BY DEF IInv, TypeOK, AllDrawn
<1>1. objcounter >= number_obstacles /\ i < number_obstacles /\ i \in Int
      /\ objcounter \in Int /\ number_obstacles \in Int
  BY SetupAssumption DEF IInv, TypeOK, Counting, Obstacle
<1>2. i < objcounter
  BY <1>1
<1> QED BY <1>2 DEF IInv, Drawing

(* Play begins, and the game is decided, with obstacles that were all drawn *)
(* in this round, for every map wider than the list of obstacles is long.   *)
THEOREM EveryObstacleDrawn == Spec => []AllDrawn
BY DrawnInPlay, InitInvariant, NextInvariant, PTL DEF Spec

(* From play on no clock changes a place, although the latches stay open.   *)
LEMMA MapStays ==
  ASSUME IInv, IInv', Clock, State' \in {"Game", "Done"}
  PROVE  tl_obj' = tl_obj /\ tl_obj' \in [Obstacle -> Places]
<1>1. objcounter' >= number_obstacles /\ objcounter' \in Int /\ number_obstacles \in Int
  BY SetupAssumption DEF IInv, TypeOK, Counting
<1>2. Open' = {}
  <2>1. \A n \in Obstacle : n < number_obstacles /\ n \in Int
    BY SetupAssumption DEF Obstacle
  <2>2. objcounter' \notin Obstacle
    BY <1>1, <2>1
  <2> QED BY <2>2 DEF Open
<1>3. tl_obj' = [i \in Obstacle |-> tl_obj[i]]
  BY <1>2 DEF Clock, Latches
<1>4. tl_obj \in [Obstacle -> Places \cup {Nowhere}] /\ tl_obj' \in [Obstacle -> Places \cup {Nowhere}]
  BY DEF IInv, TypeOK
<1>5. ASSUME NEW i \in Obstacle PROVE tl_obj'[i] \in Places
  <2>1. i < objcounter'
    BY <1>1, SetupAssumption DEF Obstacle
  <2> QED BY <2>1 DEF IInv, Drawing
<1> QED BY <1>3, <1>4, <1>5

LEMMA StepKeepsLayout ==
  IInv /\ IInv' /\ [Next]_vars =>
    [Map!Next]_<<State, IF State \in {"Game", "Done"} THEN tl_obj ELSE NoMap>>
<1> SUFFICES ASSUME IInv, IInv', [Next]_vars
             PROVE  [Map!Next]_<<State, IF State \in {"Game", "Done"} THEN tl_obj ELSE NoMap>>
  OBVIOUS
<1>1. CASE Clock
  <2>1. CASE State' = State
    BY <1>1, <2>1, MapStays DEF IInv, TypeOK
  <2>2. CASE State = "Start" /\ State' = "Generate"
    BY <2>2 DEF Map!Next, Map!Begin
  <2>3. CASE State = "Generate" /\ State' = "Game"
    BY <1>1, <2>3, MapStays DEF Map!Next, Map!Play
  <2>4. CASE State = "Game" /\ State' = "Done"
    BY <1>1, <2>4, MapStays DEF Map!Next, Map!Decide
  <2> QED BY <1>1, <2>1, <2>2, <2>3, <2>4 DEF Clock, RoundClk
<1>2. CASE Reset
  BY <1>2 DEF Reset, Map!Next, Map!Restart
<1>3. CASE UNCHANGED vars
  BY <1>3 DEF vars
<1> QED BY <1>1, <1>2, <1>3 DEF Next

(* Map generation implements its abstract specification: a complete map     *)
(* appears when play begins and does not change until the next reset.       *)
THEOREM LayoutKept == Spec => KeepsLayout
<1>1. Init => Map!Init
  BY DEF Init, Map!Init
<1> QED BY <1>1, InitInvariant, NextInvariant, StepKeepsLayout, PTL DEF Spec, KeepsLayout, Map!Spec
=============================================================================

------------------------------- MODULE Layout -------------------------------
(***************************************************************************)
(* What map generation promises: when play begins every obstacle has a     *)
(* place on the screen, and there it stays until the next round.           *)
(***************************************************************************)
CONSTANTS Obstacle,   \* the obstacles of a map
          Places,     \* where one may stand
          NoMap       \* there is none yet

VARIABLES stage, map

Init == stage = "Start" /\ map = NoMap

Begin == stage = "Start" /\ stage' = "Generate" /\ UNCHANGED map

Play == stage = "Generate" /\ stage' = "Game" /\ map' \in [Obstacle -> Places]

Decide == stage = "Game" /\ stage' = "Done" /\ UNCHANGED map

Restart == stage' = "Start" /\ map' = NoMap

Next == Begin \/ Play \/ Decide \/ Restart

Spec == Init /\ [][Next]_<<stage, map>>
=============================================================================

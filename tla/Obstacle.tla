------------------------------ MODULE Obstacle ------------------------------
(***************************************************************************)
(* obstacle.sv: a square of cover that takes MaxHits bullets.  In the      *)
(* source CoverSize = 8, BullHalf = 1 and MaxHits = 10.                    *)
(***************************************************************************)
EXTENDS Arena

CONSTANTS CoverSize,   \* width = height
          BullHalf,    \* bullhalfsize
          MaxHits      \* maxhits

ASSUME ObstacleAssumption ==
  /\ CoverSize \in Nat /\ BullHalf \in Nat
  /\ MaxHits \in 1 .. 15                    \* hitcounter has four bits

Obstacles == [hits : 0 .. 15, st : {"Not_Hit", "Hit", "Hit_1"}]

ResetObstacle == [hits |-> 0, st |-> "Not_Hit"]

\* Mutant: one hit too many.
StandingLong(o) == o.hits <= MaxHits

\* en: a cover that took its hits is gone for bullets, tanks and the display.
Standing(o) == o.hits < MaxHits

\* Mutant: the bullet is taken for a point.
CoversPoint(o, c, b) ==
  /\ Standing(o)
  /\ b.x < Wrap(c.x + CoverSize) /\ b.x >= c.x
  /\ b.y < Wrap(c.y + CoverSize) /\ b.y >= c.y

\* BULLET_COLLISION (hitobj1, hitobj2) for the cover o with top-left corner c.
Covers(o, c, b) ==
  /\ Standing(o)
  /\ b.x < Wrap(c.x + CoverSize + BullHalf) /\ Wrap(b.x + BullHalf) >= c.x
  /\ b.y < Wrap(c.y + CoverSize + BullHalf) /\ Wrap(b.y + BullHalf) >= c.y

\* One clock of the hit counter; "struck" is hitobj1 || hitobj2.
ObstacleClk(o, struck) ==
  [hits |-> IF o.st = "Hit" THEN (o.hits + 1) % 16 ELSE o.hits,
   st   |-> CASE o.st = "Hit" -> "Hit_1"
              [] o.st = "Hit_1" -> IF struck THEN "Hit_1" ELSE "Not_Hit"
              [] o.st = "Not_Hit" -> IF struck THEN "Hit" ELSE "Not_Hit"]
=============================================================================

------------------------------- MODULE Match -------------------------------
(***************************************************************************)
(* What a duel promises its players, with no board in sight: a shot flies, *)
(* costs the opponent at most one point on the way, and must end before    *)
(* the same player has another; no shot starts before the round or after   *)
(* it is decided; only a new match gives points back.                      *)
(***************************************************************************)
EXTENDS Integers

CONSTANTS Player, HP

Other(p) == 3 - p

VARIABLES stage,    \* where the round is
          points,   \* what each player has left
          over,     \* the decision has been announced
          flying,   \* the player has a shot in the air
          spent     \* that shot has already landed

matchVars == <<stage, points, over, flying, spent>>

Decided == \E p \in Player : points[p] = 0

Init ==
  /\ stage = "Start" /\ over = FALSE
  /\ points = [p \in Player |-> HP]
  /\ flying = [p \in Player |-> FALSE]
  /\ spent  = [p \in Player |-> FALSE]

Advance ==
  \/ stage' = stage
  \/ stage = "Start"    /\ stage' = "Generate"
  \/ stage = "Generate" /\ stage' = "Game"
  \/ stage = "Game"     /\ stage' = "Done" /\ over

----------------------------------------------------------------------------
\* What may happen to player p's shot, and to the opponent's points by it.

Unharmed(p) == points'[Other(p)] = points[Other(p)]

Rest(p) == ~flying[p] /\ ~flying'[p] /\ ~spent'[p] /\ Unharmed(p)

Fire(p) ==
  /\ ~flying[p] /\ ~over /\ stage # "Start"
  /\ flying'[p] /\ ~spent'[p] /\ Unharmed(p)

\* A shot lands once; it may come to its end in the same instant.
Land(p) ==
  /\ flying[p] /\ ~spent[p] /\ spent'[p] = flying'[p]
  /\ points[Other(p)] > 0 /\ points'[Other(p)] = points[Other(p)] - 1

\* Once somebody is at zero, a landing need not cost anything any more.
LandLate(p) ==
  /\ flying[p] /\ ~spent[p] /\ spent'[p] = flying'[p]
  /\ Decided /\ Unharmed(p)

Fly(p) == flying[p] /\ flying'[p] /\ spent'[p] = spent[p] /\ Unharmed(p)

End(p) == flying[p] /\ ~flying'[p] /\ ~spent'[p] /\ Unharmed(p)

Shot(p) == Rest(p) \/ Fire(p) \/ Land(p) \/ LandLate(p) \/ Fly(p) \/ End(p)

\* One instant: both players' shots, the announcement and the stage.
Play ==
  /\ \A p \in Player : Shot(p)
  /\ over' = (over \/ Decided)
  /\ Advance

NewMatch ==
  /\ stage' = "Start" /\ over' = FALSE
  /\ points' = [p \in Player |-> HP]
  /\ flying' = [p \in Player |-> FALSE]
  /\ spent'  = [p \in Player |-> FALSE]

Next == Play \/ NewMatch

Spec == Init /\ [][Next]_matchVars
=============================================================================

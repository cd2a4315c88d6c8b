------------------------------- MODULE Trigger -------------------------------
(***************************************************************************)
(* The shoot key of one bullet: bullet.sv has a state machine that follows *)
(* the key, beside the motion that it is meant to hold back.  The tank     *)
(* stands still and nothing is in the way.                                 *)
(***************************************************************************)
EXTENDS Bullet

CONSTANT Stand     \* the tank's position and direction

VARIABLES State,    \* the key state machine
          shoot,    \* the gated shoot key, as the next clock sees it
          bul,      \* the bullet
          fired     \* history: a shot has started since the key went down

vars == <<State, shoot, bul, fired>>

\* Next_StateLOGIC.  Its output singlekey is not read by anything.
NextState ==
  CASE State = "Pressed"     -> "Pressed_1"
    [] State = "Pressed_1"   -> IF shoot THEN "Pressed_1" ELSE "Not_Pressed"
    [] State = "Not_Pressed" -> IF shoot THEN "Pressed" ELSE "Not_Pressed"

Init ==
  /\ State = "Not_Pressed" /\ shoot = FALSE /\ fired = FALSE
  /\ bul = ResetBullet(Stand)

\* One clock; the frame edge may come with it, the key may change after it.
Clock ==
  /\ State' = NextState
  /\ bul' \in {bul, BulletEdge(bul, Stand, shoot, FALSE)}
  /\ shoot' \in BOOLEAN
  /\ fired' = (shoot' /\ (fired \/ (~bul.shot /\ bul'.shot)))

Reset ==
  /\ State' = "Not_Pressed" /\ bul' = ResetBullet(Stand)
  /\ shoot' \in BOOLEAN /\ fired' = FALSE

Next == Clock \/ Reset

Spec == Init /\ [][Next]_vars

(* "So you can't hold the shoot key" (bullet.sv:39): while the key is held  *)
(* down it fires once; a second shot needs a new press.                     *)
OneShotPerPress == [][fired /\ shoot => ~(~bul.shot /\ bul'.shot)]_vars
=============================================================================

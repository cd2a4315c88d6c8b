------------------------------- MODULE Skynet -------------------------------
(***************************************************************************)
(* Skynet.sv: the key the computer holds for tank t when the opponent is   *)
(* at o, 0 .. 3 for a direction and 4 for none.  Its sums are taken in     *)
(* 32 bits, where nothing overflows.                                       *)
(***************************************************************************)
EXTENDS Tank

\* Closer than this the computer lets go of the keys: 361 is 19 * 19.
Reach == 19

\* How far from an edge of the field the tank is turned, and how far beside the
\* opponent it still counts as being in line with it.
Margin == 10
Aim    == 8

\* Towards the opponent, first in x and then in y.
Chase(t, o) ==
  CASE t.x >= o.x + Aim                                        -> 3
    [] t.x + Aim < o.x                                         -> 1
    [] t.x < o.x + Aim /\ t.x + Aim >= o.x /\ t.y >= o.y + Aim -> 0
    [] t.x < o.x + Aim /\ t.x + Aim >= o.x /\ t.y + Aim < o.y  -> 2
    [] OTHER                                                   -> 4

\* Mutant: the margins are not looked at.
SkynetKeyBlind(t, o) == IF Within(Reach, t, o) THEN 4 ELSE Chase(t, o)

\* Away from the edge of the field that is tested first, otherwise the chase.
SkynetKey(t, o) ==
  IF Within(Reach, t, o) THEN 4
  ELSE IF t.y + Margin > FieldY THEN 0
  ELSE IF t.x + Margin > FieldX THEN 3
  ELSE IF t.y < Margin THEN 2
  ELSE IF t.x < Margin THEN 1
  ELSE Chase(t, o)
=============================================================================

----------------------------- MODULE MCDriving -----------------------------
(***************************************************************************)
(* Tanks of their real size and steps on a field a few times their size.   *)
(***************************************************************************)
EXTENDS Driving

XY(a, b) == [x |-> a, y |-> b]

\* One tank, with a pickup at the upper edge that comes back next to it
\* or goes out of reach.
MCHomeAlone == <<XY(14, 13)>>
MCFirst     == XY(28, 1)
MCPlaces    == {XY(27, 1), XY(500, 400)}
MCFarAway   == {XY(500, 400)}

\* Opponents all over the field and, as on the real one, far below a tank.
MCFoes == {XY(x, y) : x \in {0, 20, 38, 58}, y \in {0, 13, 26, 100}}

\* One tank near a corner of the field, with a pickup on its way there.
MCHomeCorner == <<XY(14, 14)>>
MCCorner     == XY(1, 3)

\* Two tanks on both sides of a pickup.
MCHomes == <<XY(10, 13), XY(34, 13)>>
MCMiddle == XY(21, 11)
=============================================================================

----------------------------- MODULE MCGunnery -----------------------------
(***************************************************************************)
(* A board of 14 by 9 pixels with one obstacle between the homes.          *)
(***************************************************************************)
EXTENDS Gunnery

At(x, y, d) == [x |-> x, y |-> y, dir |-> d]

MCHome == <<At(3, 5, 0), At(10, 5, 0)>>

\* Player 1 aims along the board or up, or has driven on and aims down; player 2
\* aims up, aims back, or has driven up to player 1, near enough for resting bullets to
\* touch a tank.
MCFormations ==
  {<<a, b>> : a \in {At(3, 5, 0), At(3, 5, 1), At(4, 5, 2)},
              b \in {At(10, 5, 0), At(10, 5, 3), At(5, 5, 3)}}

\* Player 2 drives up to player 1 and away again, a pixel per frame.
MCFormationsChase == {<<At(3, 5, 0), At(x, 5, 3)>> : x \in 5 .. 10} \cup {MCHome}

\* Nobody moves; both aim at each other.
MCFormationsAim == {MCHome, <<At(3, 5, 1), At(10, 5, 3)>>}

\* With an obstacle: both aim at each other from afar or close by, or player 2 at home aims up.
MCFormationsLive == {<<a, b>> : a \in {At(3, 5, 1)}, b \in {At(10, 5, 3), At(5, 5, 3)}} \cup {MCHome}

MCCorners == {[x |-> 6, y |-> 5], [x |-> 3, y |-> 5]}
=============================================================================

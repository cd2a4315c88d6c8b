------------------------------- MODULE Arena -------------------------------
(***************************************************************************)
(* What every part of the game board shares: the two players, the 10-bit  *)
(* coordinate registers and the distance test of the collision modules.   *)
(***************************************************************************)
EXTENDS Integers

Player == {1, 2}
Other(p) == 3 - p

\* Coordinates and motions are "logic [9:0]": every sum is taken modulo 2^10.
Word == 1024
Wrap(n) == n % Word

\* 0 = up, 1 = right, 2 = down, 3 = left, as in ball.sv and bullet.sv.
Dir == 0 .. 3

\* The collision modules compute in 32-bit ints, where nothing overflows.
Within(r, a, b) == (a.x - b.x) * (a.x - b.x) + (a.y - b.y) * (a.y - b.y) <= r * r
=============================================================================

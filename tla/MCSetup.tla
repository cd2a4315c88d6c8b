------------------------------ MODULE MCSetup ------------------------------
(***************************************************************************)
(* The seeds of obstacle_gen.sv, and what follows from them.  Their two    *)
(* registers have a common period of twelve, after one clock.              *)
(***************************************************************************)
EXTENDS Setup, Sequences

RECURSIVE Reach(_, _)
Reach(r, seen) == IF r \in seen THEN seen ELSE Reach(Turn(r), seen \cup {r})

MCOrbit == Reach(<<103, 453>>, {})

MCPowerUp == {<<0, 0>>, <<103, 480>>}

MCNoPowerUp == {<<0, 0>>}
=============================================================================

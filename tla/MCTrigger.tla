----------------------------- MODULE MCTrigger -----------------------------
(***************************************************************************)
(* A tank in the middle of a small board that faces right.                 *)
(***************************************************************************)
EXTENDS Trigger

MCStand == [x |-> 5, y |-> 5, dir |-> 1]
=============================================================================

----------------------------- MODULE MCKeyboard -----------------------------
(***************************************************************************)
(* Reports of up to four keys, two to a word: none, the first, all.        *)
(***************************************************************************)
EXTENDS Keyboard

MCReports == {<<0, 0>>, <<1, 1>>}
MCNoKeys  == <<0, 0>>
=============================================================================

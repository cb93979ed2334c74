----------------------------- MODULE MCEffects -----------------------------
(* Two elements that can change places. *)
EXTENDS Effects, TLC

CONSTANTS left, right

Elements == {left, right}
Either == Permutations(Elements)
=============================================================================

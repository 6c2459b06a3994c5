------------------------------- MODULE MCDict -------------------------------
(* Dict for TLC: four one-letter channels; a, c and e meet in a small table.    *)
EXTENDS Dict

Channels == {<<97>>, <<98>>, <<99>>, <<101>>}

ValSymmetry == Permutations(Vals)
=============================================================================

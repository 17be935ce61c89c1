----------------------------- MODULE MCEventHub -----------------------------
(* Bounds for model checking EventHub: two instances, and a queue of two    *)
(* events where the code has 64, so that three events overflow it.          *)
EXTENDS EventHub, TLC
CONSTANTS kbd, bat
Symmetry == Permutations(Instances)
=============================================================================

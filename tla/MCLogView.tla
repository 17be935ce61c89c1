------------------------------ MODULE MCLogView ------------------------------
(* A small instance of LogView for TLC, and the checks of LogLines. *)
EXTENDS LogView, MCLogLines, TLC

CONSTANTS daemon, tui

Symmetry == Permutations({daemon, tui})
=============================================================================

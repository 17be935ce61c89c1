---------------------------- MODULE MCConfigFiles ----------------------------
(* A small instance of ConfigFiles for TLC. *)
EXTENDS ConfigFiles, TLC

CONSTANTS tui, cli, default, work, home

MCEntries == {<<"ram", "">>, <<"cpu", "">>}
Symmetry  == Permutations({tui, cli}) \cup Permutations({work, home})
=============================================================================

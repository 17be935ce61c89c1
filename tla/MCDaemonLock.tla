---------------------------- MODULE MCDaemonLock ----------------------------
(* Bounds for model checking DaemonLock: daemons and probes are             *)
(* interchangeable, and there are fewer pids than processes, so that pids   *)
(* are reused.                                                              *)
EXTENDS DaemonLock, TLC
CONSTANTS d1, d2, d3, c1, c2, p1, p2
Symmetry == Permutations(Daemons) \cup Permutations(Probes) \cup Permutations(Pids)
=============================================================================

--------------------------- MODULE MCControlPlane ---------------------------
(* Small instances of ControlPlane for TLC, and the checks of ReloadRequests. *)
EXTENDS ControlPlane, MCReloadRequests, TLC

CONSTANTS c1, c2, a, b

MCClients == {c1, c2}
TwoInstances == {a, b}
OneInstance  == {a}

\* Preset lists for the safety run: empty, one instance, two; and for the
\* liveness run.
ThreePresets == {NoPreset, {a}, {a, b}}
TwoPresets   == {NoPreset, {a}}

AllParts == Parts
TwoParts == {"config", "wasm"}

ClientSymmetry == Permutations(MCClients)

=============================================================================

---------------------------- MODULE MCTelemetry -----------------------------
(* Two environments and a pool of two children, for TLC.                   *)
EXTENDS Telemetry

CONSTANTS e1, e2, c1, c2

Envs     == {e1, e2}
Children == {c1, c2}
Alike    == Permutations(Envs) \cup Permutations(Children)
=============================================================================

----------------------------- MODULE MCThermal -----------------------------
(* The AMD board, with the critical point its control sensor reports *)
(* (docs/hardware-baseline-amd.md:100), and no pack sensor. *)
EXTENDS ThermalLimits

AmdBoard == {<<"FRANMGCP", "05">>}

\* It starts cool and warms up.
WarmingSpec == ThermalSpec /\ control.celsius = 600
=============================================================================

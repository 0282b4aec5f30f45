----------------------------- MODULE MCFanLease -----------------------------
(* Small instances of FanLease for TLC. *)
EXTENDS FanLease, TLC

CONSTANTS cool, warm, hot, none

\* cool is below the knee, where firmware lets the fan stop, warm in the load
\* region; hot is past the ceiling, so its floor is never asked for.
Floors == [t \in Temp |-> CASE t = cool -> 0 [] t = warm -> 87 [] OTHER -> 255]
=============================================================================

------------------------------ MODULE FanDuty ------------------------------
(***************************************************************************)
(* Fan duties and their whole-percent quantization.                         *)
(*                                                                         *)
(* A duty is a u8.  The EC stores whole percents, so the duty it holds     *)
(* after a write is not the duty that was asked for.  Both backends go      *)
(* through this round trip: in EcFan the daemon computes it, in sysfs the   *)
(* EC does it and pwm1 reads back the result.                               *)
(***************************************************************************)
EXTENDS Integers

Duty == 0..255

\* The lowest turning duty a takeover accepts (fan.rs, floor.rs).
MIN_TAKEOVER_DUTY == 33

\* Slack of a read-back comparison.
DUTY_TOLERANCE == 3

DutyToPercent(d) == (d * 100 + 127) \div 255

\* Mutant: the scale is left out.
PercentToDutyUnscaled(p) == p * 255

PercentToDuty(p) == ((IF p > 100 THEN 100 ELSE p) * 255 + 50) \div 100

\* What the EC holds once it has accepted `d`.
Settle(d) == PercentToDuty(DutyToPercent(d))

\* A duty that names a turning fan but may not start one.
Stalls(d) == 0 < d /\ d < MIN_TAKEOVER_DUTY

Higher(a, b) == IF a >= b THEN a ELSE b

\* u8::abs_diff(a, b) > DUTY_TOLERANCE
FarApart(a, b) == a > b + DUTY_TOLERANCE \/ b > a + DUTY_TOLERANCE
=============================================================================

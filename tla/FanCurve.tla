------------------------------ MODULE FanCurve ------------------------------
(***************************************************************************)
(* A fan curve: what a list of points must be to be one, and the duty it    *)
(* asks for (Curve, curve.rs).                                              *)
(*                                                                         *)
(* Abstraction.  Temperatures are whole degrees; the code's are f64, and    *)
(* the sensors and the clients use whole degrees.                           *)
(***************************************************************************)
EXTENDS FanDuty, Sequences

STICTION_DUTY == 33

\* Curve::new: what a list of points must be to be a curve.
ValidCurve(k) ==
  /\ Len(k) >= 2
  /\ \A i \in DOMAIN k :
       /\ k[i].celsius \in 0..120
       /\ k[i].duty = 0 \/ k[i].duty >= STICTION_DUTY
       /\ i > 1 => /\ k[i].celsius > k[i - 1].celsius
                   /\ k[i].duty >= k[i - 1].duty

\* A float cast to u8 saturates.
Saturated(x) == IF x < 0 THEN 0 ELSE IF x > 255 THEN 255 ELSE x

\* The point of the line from a to b at c, to the nearest integer, halves up.
Interpolated(a, b, c) ==
  LET span == b.celsius - a.celsius
  IN a.duty + (2 * (c - a.celsius) * (b.duty - a.duty) + span) \div (2 * span)

\* c falls between the points i - 1 and i.
Between(k, i, c) == k[i - 1].celsius < c /\ c <= k[i].celsius

DutyAt(k, c) ==
  IF c <= k[1].celsius THEN k[1].duty
  ELSE IF \E i \in 2..Len(k) : Between(k, i, c)
       THEN LET i == CHOOSE j \in 2..Len(k) : Between(k, j, c)
            IN Saturated(Interpolated(k[i - 1], k[i], c))
       ELSE k[Len(k)].duty
=============================================================================

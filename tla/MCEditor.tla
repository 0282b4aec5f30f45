------------------------------ MODULE MCEditor ------------------------------
(* The editor as it starts, and a curve of two points that another client sets. *)
EXTENDS CurveEditor

QuietPoint(c, d) == [celsius |-> c, duty |-> d]

\* Curve::default_quiet
BuiltInQuiet ==
  <<QuietPoint(55, 0), QuietPoint(62, 40), QuietPoint(70, 65), QuietPoint(80, 92),
    QuietPoint(90, 130), QuietPoint(100, 255)>>

ShortCurve == {<<QuietPoint(55, 0), QuietPoint(62, 40)>>}
=============================================================================

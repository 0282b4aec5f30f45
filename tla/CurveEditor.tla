---------------------------- MODULE CurveEditor ----------------------------
(***************************************************************************)
(* The curve editor of the GTK client (curve.rs, gui), with the parts of    *)
(* the window it depends on: the command thread that runs its Apply, which  *)
(* may wait on a password prompt, and the snapshots that arrive meanwhile   *)
(* (worker.rs, ui.rs), and the daemon's curve (FanLease has the rest).      *)
(***************************************************************************)
EXTENDS FanCurve

CONSTANTS
  DefaultQuiet,  \* Curve::default_quiet
  OtherCurves,   \* curves other clients set
  SpinCelsius, SpinDuty,  \* what the spin buttons are set to
  NoPoints,      \* no curve is active, or no snapshot
  MaxPoints, MaxEdits, MaxSent  \* bounds: length of a curve, edits, Applies that wait

\* A point of the editor: a duty, and degrees, which are taken to be whole.
Point == [celsius : 0..120, duty : Duty]

ASSUME EditorAssumption ==
  /\ \A k \in OtherCurves \cup {DefaultQuiet} : k \in Seq(Point) /\ ValidCurve(k)
  /\ SpinCelsius \subseteq 0..120 /\ SpinDuty \subseteq Duty

VARIABLES
  points,   \* the editor's
  dirty,    \* the user has changed something since the last Apply
  running,  \* the daemon's curve, NoPoints without one
  sent,     \* the Applies the command thread has not finished, the first one under way
  fetched,  \* the snapshot in the channel: the running curve, and whether there is one
  drawn,    \* history: what the user has made of the points, NoPoints once it is settled
  replaced, \* history: a snapshot has replaced it while Apply was not finished
  edits     \* edits so far

editorVars == <<points, dirty, running, sent, fetched, drawn, replaced, edits>>

NoSnapshot == [there |-> FALSE, curve |-> NoPoints]

EditorInit ==
  /\ points = DefaultQuiet /\ dirty = FALSE
  /\ running \in OtherCurves \cup {NoPoints}
  /\ sent = <<>> /\ fetched = NoSnapshot
  /\ drawn = NoPoints /\ replaced = FALSE /\ edits = 0

\* rebuild and refresh follow every edit: the points are shown as they are.
Edited(p) ==
  /\ edits < MaxEdits
  /\ edits' = edits + 1
  /\ points' = p /\ drawn' = p
  /\ dirty' = TRUE /\ replaced' = FALSE
  /\ UNCHANGED <<running, sent, fetched>>

SetCelsius(i, c) == Edited([points EXCEPT ![i].celsius = c])
SetPointDuty(i, d) == Edited([points EXCEPT ![i].duty = d])
ResetQuiet == Edited(DefaultQuiet)

Without(s, i) == SubSeq(s, 1, i - 1) \o SubSeq(s, i + 1, Len(s))
RemovePoint(i) == Len(points) > 2 /\ Edited(Without(points, i))
-----------------------------------------------------------------------------
(* insert_point *)

Gap(p, i) == p[i].celsius - p[i - 1].celsius
\* The first of the widest gaps; 1 when no point is above the one before it.
Widest(p) ==
  IF \A i \in 2..Len(p) : Gap(p, i) <= 0 THEN 1
  ELSE CHOOSE i \in 2..Len(p) : /\ \A j \in 2..Len(p) : Gap(p, j) <= Gap(p, i)
                                /\ \A j \in 2..(i - 1) : Gap(p, j) < Gap(p, i)

Roomy(p) == Widest(p) > 1 /\ Gap(p, Widest(p)) >= 2

\* Mutant: the middle of two duties is used as it is.
MiddleAsIs(a, b) == (a + b) \div 2

\* The middle of two duties, moved to the nearer end of what does not turn the fan.
Middle(a, b) ==
  LET mid == (a + b) \div 2
  IN IF ~Stalls(mid) THEN mid ELSE IF mid * 2 < STICTION_DUTY THEN 0 ELSE STICTION_DUTY

Split(a, b) == [celsius |-> (a.celsius + b.celsius + 1) \div 2, duty |-> Middle(a.duty, b.duty)]

Lower(a, b) == IF a <= b THEN a ELSE b
Beyond(a) == [celsius |-> Lower(a.celsius + 5, 120), duty |-> Lower(a.duty + 10, 255)]

\* In the widest gap if it is wide enough, past the top otherwise.
Inserted(p) ==
  IF Roomy(p)
  THEN SubSeq(p, 1, Widest(p) - 1) \o <<Split(p[Widest(p) - 1], p[Widest(p)])>>
         \o SubSeq(p, Widest(p), Len(p))
  ELSE Append(p, Beyond(p[Len(p)]))

CanAdd(p) == Roomy(p) \/ p[Len(p)].celsius + 2 <= 120

AddPoint ==
  /\ Len(points) < MaxPoints /\ CanAdd(points)
  /\ Edited(Inserted(points))
-----------------------------------------------------------------------------
(* Apply, its command, and the snapshots *)

\* The button is sensitive while the points validate, also while an Apply is under way.
ApplyCurve ==
  /\ ValidCurve(points) /\ Len(sent) < MaxSent
  /\ sent' = Append(sent, points)
  /\ dirty' = FALSE
  /\ UNCHANGED <<points, running, fetched, drawn, replaced, edits>>

\* Mutant: a failed Apply leaves the editor to the running curve.
RefusedQuietly ==
  /\ sent # <<>>
  /\ sent' = Tail(sent)
  /\ UNCHANGED <<points, dirty, running, fetched, drawn, replaced, edits>>

\* applied with an error: the daemon refused, or the user did not authorize.
Refused ==
  /\ sent # <<>>
  /\ sent' = Tail(sent) /\ dirty' = TRUE
  /\ UNCHANGED <<points, running, fetched, drawn, replaced, edits>>

\* set_fan_curve succeeds, and the snapshot that waits is older than that.
Accepted ==
  /\ sent # <<>>
  /\ running' = Head(sent) /\ sent' = Tail(sent)
  /\ drawn' = IF sent = <<drawn>> THEN NoPoints ELSE drawn
  /\ UNCHANGED <<points, dirty, fetched, replaced, edits>>

\* The other command of the same name, "Return fan to EC", fails: applied takes it for an
\* Apply.
AutoRefused ==
  /\ dirty' = TRUE
  /\ UNCHANGED <<points, running, sent, fetched, drawn, replaced, edits>>

FetchCurve ==
  /\ ~fetched.there
  /\ fetched' = [there |-> TRUE, curve |-> running]
  /\ UNCHANGED <<points, dirty, running, sent, drawn, replaced, edits>>

\* CurveEditor::update
UpdateEditor ==
  /\ fetched.there
  /\ fetched' = NoSnapshot
  /\ points' = IF ~dirty /\ fetched.curve # NoPoints THEN fetched.curve ELSE points
  /\ replaced' = (replaced \/ (points' # points /\ sent # <<>>))
  /\ UNCHANGED <<dirty, running, sent, drawn, edits>>

\* Another client, or a profile, or a release.
Elsewhere(k) ==
  /\ running' = k
  /\ UNCHANGED <<points, dirty, sent, fetched, drawn, replaced, edits>>

EditorNext ==
  \/ \E i \in DOMAIN points : \/ \E c \in SpinCelsius : SetCelsius(i, c)
                              \/ \E d \in SpinDuty : SetPointDuty(i, d)
                              \/ RemovePoint(i)
  \/ ResetQuiet \/ AddPoint \/ ApplyCurve \/ Refused \/ Accepted \/ AutoRefused
  \/ FetchCurve \/ UpdateEditor
  \/ \E k \in OtherCurves \cup {NoPoints} : Elsewhere(k)

EditorSpec == EditorInit /\ [][EditorNext]_editorVars
-----------------------------------------------------------------------------
\* "Add point" never makes a curve invalid, wherever its gaps and duties are
\* (insert_point), except one that stays at a stop and has no gap left to split: the
\* point past its top asks for a duty that turns nothing.
AddedIsValid ==
  ValidCurve(points) /\ CanAdd(points)
    => ValidCurve(Inserted(points)) \/ (~Roomy(points) /\ points[Len(points)].duty = 0)

\* What insert_point says of itself (curve.rs:395-400, 488): adding a point never makes a
\* valid curve invalid, whatever the curve.
AddedStaysValid == ValidCurve(points) /\ CanAdd(points) => ValidCurve(Inserted(points))

\* What the user has drawn stays in the editor until the daemon has taken it, through
\* snapshots, other clients' curves, Applies before it and refused ones; a snapshot that
\* arrives while Apply waits for its answer is the exception, and only then (update,
\* applied).
DrawnIsKept == drawn # NoPoints /\ ~replaced => points = drawn

\* What applied says of itself (curve.rs:477-480): a curve that was refused is still in the
\* editor once its Apply has come back, and not quietly replaced.
RefusedIsKept == dirty /\ sent = <<>> /\ drawn # NoPoints => points = drawn
=============================================================================

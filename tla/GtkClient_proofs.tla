------------------------- MODULE GtkClient_proofs ---------------------------
(***************************************************************************)
(* What the user draws and chooses in the GTK client: the curve editor, for *)
(* any curves, any settings of the spin buttons and any number of edits;    *)
(* and the other controls, for any values and any number of choices,        *)
(* refusals and changes made elsewhere.                                     *)
(***************************************************************************)
EXTENDS CurveEditor, GuiControls, SequenceTheorems, WellFoundedInduction, TLAPS

(* The curve editor *)

\* DrawnIsKept is not inductive: a snapshot replaces the points of an editor that is not
\* dirty.  What is drawn is either not applied yet, or it is what Apply has sent.
DrawnInv ==
  drawn # NoPoints /\ ~replaced =>
    points = drawn /\ (dirty \/ (sent # <<>> /\ sent[Len(sent)] = drawn))

Drawing == {k \in Seq(Point) : Len(k) >= 2}

\* Whatever curve is anywhere in the client is a sequence of points.
PointsInv ==
  /\ points \in Drawing
  /\ running \in Drawing \cup {NoPoints} /\ sent \in Seq(Drawing)
  /\ fetched = [there |-> fetched.there, curve |-> fetched.curve]
  /\ fetched.curve \in Drawing \cup {NoPoints}

LEMMA DrawnInit == EditorInit => DrawnInv
  BY DEF EditorInit, DrawnInv

LEMMA EditedKeeps ==
  ASSUME NEW p, Edited(p)
  PROVE  DrawnInv'
  BY DEF Edited, DrawnInv

\* The Applies that wait, at their two ends.
LEMMA SentFacts ==
  ASSUME PointsInv, sent # <<>>
  PROVE  /\ Len(sent) \in Nat \ {0} /\ Head(sent) \in Drawing
         /\ Tail(sent) \in Seq(Drawing) /\ (Len(sent) = 1 \/ Len(sent) > 1)
         /\ Len(sent) = 1 => sent = <<sent[1]>>
         /\ Len(sent) > 1 => /\ Tail(sent) # <<>>
                             /\ Tail(sent)[Len(Tail(sent))] = sent[Len(sent)]
<1>1. sent \in Seq(Drawing)
  BY DEF PointsInv
<1>2. /\ Len(sent) \in Nat \ {0} /\ Head(sent) \in Drawing /\ Tail(sent) \in Seq(Drawing)
      /\ Len(Tail(sent)) = Len(sent) - 1
      /\ \A i \in 1..(Len(sent) - 1) : Tail(sent)[i] = sent[i + 1]
  BY <1>1
<1>3. Len(sent) = 1 => sent = <<sent[1]>>
  BY <1>1, <1>2, SeqEqual
<1>4. Len(sent) > 1 => /\ Tail(sent) # <<>>
                       /\ Tail(sent)[Len(Tail(sent))] = sent[Len(sent)]
  BY <1>2
<1>5. Len(sent) = 1 \/ Len(sent) > 1
  BY <1>2
<1> QED BY <1>2, <1>3, <1>4, <1>5

LEMMA DrawnStep == PointsInv /\ DrawnInv /\ [EditorNext]_editorVars => DrawnInv'
<1> SUFFICES ASSUME PointsInv, DrawnInv, [EditorNext]_editorVars
             PROVE  DrawnInv'
  OBVIOUS
<1>1. CASE \E i \in DOMAIN points : \/ \E c \in SpinCelsius : SetCelsius(i, c)
                                    \/ \E d \in SpinDuty : SetPointDuty(i, d)
                                    \/ RemovePoint(i)
  BY <1>1, EditedKeeps DEF SetCelsius, SetPointDuty, RemovePoint
<1>2. CASE ResetQuiet \/ AddPoint
  BY <1>2, EditedKeeps DEF ResetQuiet, AddPoint
<1>3. CASE ApplyCurve
  <2>1. sent' = Append(sent, points) /\ sent \in Seq(Drawing) /\ points \in Drawing
    BY <1>3 DEF ApplyCurve, PointsInv
  <2>2. sent' # <<>> /\ sent'[Len(sent')] = points
    BY <2>1, AppendProperties
  <2> QED BY <1>3, <2>2 DEF ApplyCurve, DrawnInv
<1>4. CASE Refused
  BY <1>4 DEF Refused, DrawnInv
<1>5. CASE Accepted
  \* The last one sent is settled; anything drawn since is still dirty.
  <2> SUFFICES ASSUME drawn' # NoPoints, ~replaced'
               PROVE  points' = drawn' /\ (dirty' \/ (sent' # <<>> /\ sent'[Len(sent')] = drawn'))
    BY DEF DrawnInv
  <2>1. /\ sent # <<>> /\ sent' = Tail(sent) /\ sent # <<drawn>>
        /\ UNCHANGED <<points, dirty, replaced, drawn>>
    BY <1>5 DEF Accepted
  <2>2. points = drawn /\ (dirty \/ sent[Len(sent)] = drawn)
    BY <2>1 DEF DrawnInv
  <2>3. CASE dirty
    BY <2>1, <2>2, <2>3
  <2>4. CASE ~dirty
    <3>1. sent[Len(sent)] = drawn
      BY <2>2, <2>4
    <3>2. Len(sent) > 1
      <4>1. Len(sent) = 1 \/ Len(sent) > 1
        BY <2>1, SentFacts
      <4>2. Len(sent) = 1 => sent = <<drawn>>
        BY <2>1, <3>1, SentFacts
      <4>3. Len(sent) # 1
        BY <4>2, <2>1, Zenon
      <4> QED BY <4>1, <4>3
    <3> QED BY <2>1, <2>2, <3>1, <3>2, SentFacts
  <2> QED BY <2>3, <2>4
<1>6. CASE FetchCurve
  BY <1>6 DEF FetchCurve, DrawnInv
<1>7. CASE UpdateEditor
  <2> SUFFICES ASSUME drawn # NoPoints, ~replaced'
               PROVE  points' = drawn /\ (dirty \/ (sent # <<>> /\ sent[Len(sent)] = drawn))
    BY <1>7 DEF UpdateEditor, DrawnInv
  <2>1. ~replaced /\ ~(points' # points /\ sent # <<>>)
    BY <1>7, Zenon DEF UpdateEditor
  <2>2. points = drawn /\ (dirty \/ (sent # <<>> /\ sent[Len(sent)] = drawn))
    BY <2>1 DEF DrawnInv
  <2>3. dirty => points' = points
    BY <1>7, Zenon DEF UpdateEditor
  <2> QED BY <2>1, <2>2, <2>3
<1>8. CASE \E k \in OtherCurves \cup {NoPoints} : Elsewhere(k)
  BY <1>8 DEF Elsewhere, DrawnInv
<1>9. CASE UNCHANGED editorVars
  BY <1>9 DEF editorVars, DrawnInv
<1>10. CASE AutoRefused
  BY <1>10 DEF AutoRefused, DrawnInv
<1> QED
  BY <1>1, <1>2, <1>3, <1>4, <1>5, <1>6, <1>7, <1>8, <1>9, <1>10 DEF EditorNext

-----------------------------------------------------------------------------
(* "Add point" *)

\* The points of a drawing are points.
LEMMA PointFacts ==
  ASSUME NEW p \in Drawing, NEW i \in 1..Len(p)
  PROVE  /\ Len(p) \in Nat /\ Len(p) >= 2
         /\ p[i] \in Point /\ p[i].celsius \in 0..120 /\ p[i].duty \in 0..255
<1>1. p \in Seq(Point) /\ Len(p) >= 2
  BY DEF Drawing
<1>2. Len(p) \in Nat /\ p[i] \in Point
  BY <1>1
<1>3. p[i].celsius \in 0..120 /\ p[i].duty \in Duty
  BY <1>2 DEF Point
<1> QED BY <1>1, <1>2, <1>3 DEF Duty

\* A spin button changes one field.
LEMMA SpinFacts ==
  ASSUME NEW q \in Point
  PROVE  /\ \A c \in 0..120 : [q EXCEPT !.celsius = c] \in Point
         /\ \A d \in Duty : [q EXCEPT !.duty = d] \in Point
  BY DEF Point

LEMMA CurvesAreDrawings == \A k \in OtherCurves \cup {DefaultQuiet} : k \in Drawing
  BY EditorAssumption DEF Drawing, ValidCurve

\* The duty of a new point turns the fan or stops it, and lies between its neighbours'.
LEMMA MiddleFacts ==
  ASSUME NEW a \in 0..255, NEW b \in 0..255
  PROVE  /\ Middle(a, b) \in 0..255
         /\ Middle(a, b) = 0 \/ Middle(a, b) >= STICTION_DUTY
         /\ a <= b /\ (a = 0 \/ a >= STICTION_DUTY) /\ (b = 0 \/ b >= STICTION_DUTY)
              => a <= Middle(a, b) /\ Middle(a, b) <= b
  BY DEF Middle, Stalls, STICTION_DUTY, MIN_TAKEOVER_DUTY

\* The middle of two temperatures at least two degrees apart is between them.
LEMMA HalfWay ==
  ASSUME NEW x \in 0..120, NEW y \in 0..120
  PROVE  /\ (x + y + 1) \div 2 \in 0..120
         /\ y - x >= 2 => x < (x + y + 1) \div 2 /\ (x + y + 1) \div 2 < y
         /\ y - x \in Int /\ y - x <= 120
  OBVIOUS

\* The middle of a gap of two degrees or more is strictly within it.
LEMMA SplitFacts ==
  ASSUME NEW a \in Point, NEW b \in Point
  PROVE  /\ Split(a, b) \in Point
         /\ Split(a, b).duty = Middle(a.duty, b.duty)
         /\ b.celsius - a.celsius >= 2
              => a.celsius < Split(a, b).celsius /\ Split(a, b).celsius < b.celsius
<1>1. /\ a.celsius \in 0..120 /\ a.duty \in 0..255
      /\ b.celsius \in 0..120 /\ b.duty \in 0..255
  BY DEF Point, Duty
<1> DEFINE c == (a.celsius + b.celsius + 1) \div 2
<1>2. c \in 0..120 /\ (b.celsius - a.celsius >= 2 => a.celsius < c /\ c < b.celsius)
  BY <1>1, HalfWay
<1>3. Middle(a.duty, b.duty) \in 0..255
  BY <1>1, MiddleFacts
<1>4. Split(a, b) = [celsius |-> c, duty |-> Middle(a.duty, b.duty)]
  BY DEF Split
<1> HIDE DEF c
<1>5. Split(a, b).celsius = c /\ Split(a, b).duty = Middle(a.duty, b.duty)
  BY <1>4
<1>6. Split(a, b) \in Point
  BY <1>2, <1>3, <1>4 DEF Point, Duty
<1> QED BY <1>2, <1>5, <1>6

\* The point past the top is hotter, and asks for no less.
LEMMA BeyondFacts ==
  ASSUME NEW a \in Point
  PROVE  /\ Beyond(a) \in Point
         /\ a.celsius + 2 <= 120 => a.celsius < Beyond(a).celsius
         /\ a.duty <= Beyond(a).duty
  BY DEF Beyond, Lower, Point, Duty

\* A set of natural numbers has a least one.
LEMMA LeastIndex ==
  ASSUME NEW S, S \subseteq Nat, S # {}
  PROVE  \E i \in S : \A j \in S : i <= j
<1>1. PICK i \in S : \A j \in S : <<j, i>> \notin OpToRel(<, Nat)
  BY NatLessThanWellFounded, WFMin
<1>2. \A j \in S : ~(j < i)
  BY <1>1 DEF OpToRel
<1> QED BY <1>2

\* There is a first one of the widest gaps.
LEMMA WidestFacts ==
  ASSUME NEW p \in Drawing
  PROVE  Widest(p) = 1 \/ Widest(p) \in 2..Len(p)
<1>1. Len(p) \in Nat /\ Len(p) >= 2
  BY PointFacts DEF Drawing
<1>2. ASSUME NEW i \in 2..Len(p) PROVE Gap(p, i) \in Int /\ Gap(p, i) <= 120
  <2>1. i \in 1..Len(p) /\ i - 1 \in 1..Len(p)
    BY <1>1
  <2>2. p[i].celsius \in 0..120
    BY <2>1, PointFacts
  <2>3. p[i - 1].celsius \in 0..120
    BY <2>1, PointFacts
  <2> QED BY <2>2, <2>3, HalfWay DEF Gap
<1>3. CASE ~(\A i \in 2..Len(p) : Gap(p, i) <= 0)
  <2> DEFINE S == {120 - Gap(p, i) : i \in 2..Len(p)}
  <2>1. S \subseteq Nat /\ S # {}
    BY <1>1, <1>2
  <2>2. PICK g \in S : \A h \in S : g <= h
    BY <2>1, LeastIndex
  <2> DEFINE T == {i \in 2..Len(p) : 120 - Gap(p, i) = g}
  <2>3. T \subseteq Nat /\ T # {}
    BY <1>1, <2>2
  <2>4. PICK i \in T : \A j \in T : i <= j
    BY <2>3, LeastIndex
  <2>5. \A j \in 2..Len(p) : Gap(p, j) <= Gap(p, i)
    <3> SUFFICES ASSUME NEW j \in 2..Len(p) PROVE Gap(p, j) <= Gap(p, i)
      OBVIOUS
    <3>1. g <= 120 - Gap(p, j) /\ g = 120 - Gap(p, i) /\ i \in 2..Len(p)
      BY <2>2, <2>4
    <3> QED BY <1>2, <3>1
  <2>6. \A j \in 2..(i - 1) : Gap(p, j) < Gap(p, i)
    <3> SUFFICES ASSUME NEW j \in 2..(i - 1) PROVE Gap(p, j) < Gap(p, i)
      OBVIOUS
    <3>1. j \in 2..Len(p) /\ i \in 2..Len(p) /\ j < i
      BY <1>1, <2>4
    <3>2. Gap(p, j) # Gap(p, i)
      BY <2>4, <3>1
    <3> QED BY <1>2, <2>5, <3>1, <3>2
  <2>7. Widest(p) \in 2..Len(p)
    BY <1>3, <2>4, <2>5, <2>6 DEF Widest
  <2> QED BY <2>7
<1>4. CASE \A i \in 2..Len(p) : Gap(p, i) <= 0
  BY <1>4 DEF Widest
<1> QED BY <1>3, <1>4

\* Where a point is put between w - 1 and w, the points after it move up.
LEMMA InsertedFacts ==
  ASSUME NEW p \in Drawing, NEW w \in 2..Len(p), NEW m \in Point
  PROVE  LET q == SubSeq(p, 1, w - 1) \o <<m>> \o SubSeq(p, w, Len(p))
         IN /\ q \in Seq(Point) /\ Len(q) = Len(p) + 1
            /\ \A i \in 1..Len(q) :
                 q[i] = IF i < w THEN p[i] ELSE IF i = w THEN m ELSE p[i - 1]
<1>1. Len(p) \in Nat /\ \A i \in 1..Len(p) : p[i] \in Point
  BY PointFacts DEF Drawing
<1> DEFINE a == SubSeq(p, 1, w - 1)
           b == SubSeq(p, w, Len(p))
<1>2. a \in Seq(Point) /\ Len(a) = w - 1 /\ \A i \in 1..(w - 1) : a[i] = p[i]
  <2>1. \A i \in 1..(w - 1) : p[i] \in Point
    BY <1>1
  <2>2. 1 \in Int /\ w - 1 \in Int /\ 1 <= w - 1 /\ (w - 1) - 1 + 1 = w - 1
    BY <1>1
  <2>3. /\ a \in Seq(Point) /\ Len(a) = w - 1
        /\ \A i \in 1..((w - 1) - 1 + 1) : a[i] = p[1 + i - 1]
    BY <2>1, <2>2, SubSeqProperties
  <2> HIDE DEF a
  <2> QED BY <1>1, <2>2, <2>3
<1>3. /\ b \in Seq(Point) /\ Len(b) = Len(p) - w + 1
      /\ \A i \in 1..(Len(p) - w + 1) : b[i] = p[w + i - 1]
  <2>1. \A i \in w..Len(p) : p[i] \in Point
    BY <1>1
  <2>2. w \in Int /\ Len(p) \in Int /\ w <= Len(p)
    BY <1>1
  <2> QED BY <2>1, <2>2, SubSeqProperties
<1> HIDE DEF a, b
<1> DEFINE c == a \o <<m>>
<1>4. c \in Seq(Point) /\ Len(c) = w /\ \A i \in 1..w : c[i] = IF i < w THEN p[i] ELSE m
  <2>1. <<m>> \in Seq(Point) /\ Len(<<m>>) = 1 /\ <<m>>[1] = m
    OBVIOUS
  <2>2. /\ c \in Seq(Point) /\ Len(c) = w
        /\ \A i \in 1..w : c[i] = IF i <= w - 1 THEN a[i] ELSE <<m>>[i - (w - 1)]
    BY <1>1, <1>2, <2>1, ConcatProperties
  <2> HIDE DEF c
  <2>3. ASSUME NEW i \in 1..w PROVE c[i] = IF i < w THEN p[i] ELSE m
    <3>1. CASE i < w
      BY <1>1, <1>2, <2>2, <3>1
    <3>2. CASE i = w
      <4>1. ~(i <= w - 1) /\ i - (w - 1) = 1
        BY <1>1, <3>2
      <4> QED BY <2>1, <2>2, <3>2, <4>1
    <3> QED BY <1>1, <3>1, <3>2
  <2> QED BY <2>2, <2>3
<1> HIDE DEF c
<1> DEFINE q == c \o b
<1>5. /\ q \in Seq(Point) /\ Len(q) = Len(p) + 1
      /\ \A i \in 1..(Len(p) + 1) : q[i] = IF i <= w THEN c[i] ELSE b[i - w]
  <2>1. Len(c) + Len(b) = Len(p) + 1
    BY <1>1, <1>3, <1>4
  <2>2. /\ q \in Seq(Point) /\ Len(q) = Len(c) + Len(b)
        /\ \A i \in 1..(Len(c) + Len(b)) : q[i] = IF i <= Len(c) THEN c[i] ELSE b[i - Len(c)]
    BY <1>3, <1>4, ConcatProperties, Zenon
  <2> HIDE DEF q
  <2> QED BY <1>4, <2>1, <2>2
<1> HIDE DEF q
<1>6. ASSUME NEW i \in 1..Len(q)
      PROVE  q[i] = IF i < w THEN p[i] ELSE IF i = w THEN m ELSE p[i - 1]
  <2>1. CASE i <= w
    BY <1>1, <1>4, <1>5, <2>1
  <2>2. CASE i > w
    <3>1. i - w \in 1..(Len(p) - w + 1) /\ w + (i - w) - 1 = i - 1
      BY <1>1, <1>5, <2>2
    <3>2. q[i] = b[i - w]
      BY <1>1, <1>5, <2>2
    <3>3. b[i - w] = p[i - 1]
      BY <1>3, <3>1
    <3>4. ~(i < w) /\ i # w
      BY <1>1, <1>5, <2>2
    <3> QED BY <3>2, <3>3, <3>4
  <2> QED BY <1>1, <1>5, <2>1, <2>2
<1> QED BY <1>5, <1>6 DEF q, c, a, b

\* What Add point leaves is a drawing.
LEMMA InsertedType ==
  ASSUME NEW p \in Drawing
  PROVE  Inserted(p) \in Drawing
<1>1. p \in Seq(Point) /\ Len(p) \in Nat /\ Len(p) >= 2
  BY DEF Drawing
<1>2. CASE Roomy(p)
  <2>1. Widest(p) \in 2..Len(p)
    BY <1>2, WidestFacts DEF Roomy
  <2> DEFINE w == Widest(p)
             m == Split(p[w - 1], p[w])
  <2> HIDE DEF w
  <2>2. w \in 2..Len(p) /\ w - 1 \in 1..Len(p) /\ w \in 1..Len(p)
    BY <1>1, <2>1 DEF w
  <2>3. m \in Point
    BY <2>2, PointFacts, SplitFacts
  <2>4. Inserted(p) = SubSeq(p, 1, w - 1) \o <<m>> \o SubSeq(p, w, Len(p))
    BY <1>2 DEF Inserted, w
  <2> HIDE DEF m
  <2>5. Inserted(p) \in Seq(Point) /\ Len(Inserted(p)) = Len(p) + 1
    BY <2>2, <2>3, <2>4, InsertedFacts
  <2> QED BY <1>1, <2>5 DEF Drawing
<1>3. CASE ~Roomy(p)
  <2>1. Inserted(p) = Append(p, Beyond(p[Len(p)])) /\ Len(p) \in 1..Len(p)
    BY <1>1, <1>3 DEF Inserted
  <2>2. Beyond(p[Len(p)]) \in Point
    BY <2>1, PointFacts, BeyondFacts
  <2> QED BY <1>1, <2>1, <2>2, AppendProperties DEF Drawing
<1> QED BY <1>2, <1>3

\* So is what Remove leaves.
LEMMA WithoutType ==
  ASSUME NEW p \in Drawing, NEW i \in 1..Len(p), Len(p) > 2
  PROVE  Without(p, i) \in Drawing
<1>1. Len(p) \in Nat /\ \A j \in 1..Len(p) : p[j] \in Point
  BY PointFacts DEF Drawing
<1> DEFINE a == SubSeq(p, 1, i - 1)
           b == SubSeq(p, i + 1, Len(p))
<1>2. a \in Seq(Point) /\ Len(a) = i - 1
  <2>1. \A j \in 1..(i - 1) : p[j] \in Point
    BY <1>1
  <2>2. a \in Seq(Point) /\ Len(a) = IF 1 <= i - 1 THEN i - 1 - 1 + 1 ELSE 0
    BY <2>1, SubSeqProperties
  <2> QED BY <1>1, <2>2
<1>3. b \in Seq(Point) /\ Len(b) = Len(p) - i
  <2>1. \A j \in (i + 1)..Len(p) : p[j] \in Point
    BY <1>1
  <2>2. i + 1 \in Int /\ Len(p) \in Int
    BY <1>1
  <2>3. b \in Seq(Point) /\ Len(b) = IF i + 1 <= Len(p) THEN Len(p) - (i + 1) + 1 ELSE 0
    BY <2>1, <2>2, SubSeqProperties
  <2> QED BY <1>1, <2>3
<1> HIDE DEF a, b
<1>4. a \o b \in Seq(Point) /\ Len(a \o b) = Len(p) - 1
  BY <1>1, <1>2, <1>3, ConcatProperties
<1>5. Without(p, i) = a \o b
  BY DEF Without, a, b
<1>6. Len(a \o b) >= 2
  BY <1>1, <1>4
<1> QED BY <1>4, <1>5, <1>6 DEF Drawing

LEMMA PointsInit == EditorInit => PointsInv
  BY CurvesAreDrawings DEF EditorInit, PointsInv, NoSnapshot

LEMMA EditedPoints ==
  ASSUME NEW p \in Drawing, Edited(p), PointsInv
  PROVE  PointsInv'
  BY DEF Edited, PointsInv

\* No edit, snapshot or other client leaves anything else in the editor.
LEMMA PointsStep == PointsInv /\ [EditorNext]_editorVars => PointsInv'
<1> SUFFICES ASSUME PointsInv, [EditorNext]_editorVars
             PROVE  PointsInv'
  OBVIOUS
<1>0. points \in Drawing /\ points \in Seq(Point) /\ DOMAIN points = 1..Len(points)
  BY DEF PointsInv, Drawing
<1>1. ASSUME NEW i \in DOMAIN points, NEW c \in SpinCelsius, SetCelsius(i, c)
      PROVE  PointsInv'
  <2>0. points[i] \in Point /\ c \in 0..120
    BY <1>0, PointFacts, EditorAssumption
  <2>1. [points[i] EXCEPT !.celsius = c] \in Point
    BY <2>0, SpinFacts
  <2>2. [points EXCEPT ![i].celsius = c] =
          [points EXCEPT ![i] = [points[i] EXCEPT !.celsius = c]]
    BY <1>0
  <2>3. [points EXCEPT ![i].celsius = c] \in Drawing
    BY <1>0, <2>1, <2>2, ExceptSeq DEF Drawing
  <2> QED BY <1>1, <2>3, EditedPoints DEF SetCelsius
<1>2. ASSUME NEW i \in DOMAIN points, NEW d \in SpinDuty, SetPointDuty(i, d)
      PROVE  PointsInv'
  <2>0. points[i] \in Point /\ d \in Duty
    BY <1>0, PointFacts, EditorAssumption
  <2>1. [points[i] EXCEPT !.duty = d] \in Point
    BY <2>0, SpinFacts
  <2>2. [points EXCEPT ![i].duty = d] = [points EXCEPT ![i] = [points[i] EXCEPT !.duty = d]]
    BY <1>0
  <2>3. [points EXCEPT ![i].duty = d] \in Drawing
    BY <1>0, <2>1, <2>2, ExceptSeq DEF Drawing
  <2> QED BY <1>2, <2>3, EditedPoints DEF SetPointDuty
<1>3. ASSUME NEW i \in DOMAIN points, RemovePoint(i) PROVE PointsInv'
  <2>1. Without(points, i) \in Drawing
    BY <1>0, <1>3, WithoutType DEF RemovePoint
  <2> QED BY <1>3, <2>1, EditedPoints DEF RemovePoint
<1>4. CASE ResetQuiet
  BY <1>4, CurvesAreDrawings, EditedPoints DEF ResetQuiet
<1>5. CASE AddPoint
  BY <1>0, <1>5, InsertedType, EditedPoints DEF AddPoint
<1>6. CASE ApplyCurve
  BY <1>6, AppendProperties DEF ApplyCurve, PointsInv
<1>7. CASE Refused
  BY <1>7, SentFacts DEF Refused, PointsInv
<1>8. CASE Accepted
  BY <1>8, SentFacts DEF Accepted, PointsInv
<1>9. CASE FetchCurve
  BY <1>9 DEF FetchCurve, PointsInv
<1>10. CASE UpdateEditor
  <2>1. fetched' = NoSnapshot /\ UNCHANGED <<running, sent>>
    BY <1>10 DEF UpdateEditor
  <2>2. points' \in Drawing
    BY <1>10 DEF UpdateEditor, PointsInv
  <2> QED BY <2>1, <2>2 DEF PointsInv, NoSnapshot
<1>11. CASE \E k \in OtherCurves \cup {NoPoints} : Elsewhere(k)
  BY <1>11, CurvesAreDrawings DEF Elsewhere, PointsInv
<1>12. CASE UNCHANGED editorVars
  BY <1>12 DEF editorVars, PointsInv
<1>13. CASE AutoRefused
  BY <1>13 DEF AutoRefused, PointsInv
<1> QED
  BY <1>1, <1>2, <1>3, <1>4, <1>5, <1>6, <1>7, <1>8, <1>9, <1>10, <1>11, <1>12, <1>13
  DEF EditorNext

\* No snapshot, no other client's curve and no refused Apply takes a drawn curve out of
\* the editor before the daemon has it; only a snapshot that arrives while Apply waits
\* for its answer does (CurveEditor::update, applied).
THEOREM DrawnSafe == EditorSpec => []DrawnIsKept
<1>1. DrawnInv => DrawnIsKept
  BY DEF DrawnInv, DrawnIsKept
<1> QED BY PointsInit, PointsStep, DrawnInit, DrawnStep, <1>1, PTL DEF EditorSpec

\* A point split into the widest gap.
LEMMA SplitIsValid ==
  ASSUME NEW p \in Drawing, ValidCurve(p), Roomy(p)
  PROVE  ValidCurve(Inserted(p))
<1>1. p \in Seq(Point) /\ Len(p) \in Nat /\ Len(p) >= 2 /\ DOMAIN p = 1..Len(p)
  BY DEF Drawing
<1> DEFINE w == Widest(p)
           m == Split(p[w - 1], p[w])
           q == Inserted(p)
<1>2. w \in 2..Len(p) /\ w - 1 \in 1..Len(p) /\ w \in 1..Len(p)
  BY <1>1, WidestFacts DEF Roomy
<1>3. p[w].celsius - p[w - 1].celsius >= 2
  BY DEF Roomy, Gap
<1> HIDE DEF w
<1>4. /\ p[w - 1] \in Point /\ p[w - 1].celsius \in 0..120 /\ p[w - 1].duty \in 0..255
      /\ p[w] \in Point /\ p[w].celsius \in 0..120 /\ p[w].duty \in 0..255
  <2>0. w \in 1..Len(p)
    BY <1>2
  <2>1. p[w - 1] \in Point /\ p[w - 1].celsius \in 0..120 /\ p[w - 1].duty \in 0..255
    BY <1>2, PointFacts
  <2>2. p[w] \in Point /\ p[w].celsius \in 0..120 /\ p[w].duty \in 0..255
    BY <2>0, PointFacts
  <2> QED BY <2>1, <2>2
<1>5. /\ p[w - 1].duty = 0 \/ p[w - 1].duty >= STICTION_DUTY
      /\ p[w].duty = 0 \/ p[w].duty >= STICTION_DUTY
      /\ p[w].duty >= p[w - 1].duty
  BY <1>1, <1>2 DEF ValidCurve
<1>6. /\ m \in Point /\ m.duty = Middle(p[w - 1].duty, p[w].duty)
      /\ p[w - 1].celsius < m.celsius /\ m.celsius < p[w].celsius
  BY <1>3, <1>4, SplitFacts
<1>7. /\ m.celsius \in 0..120
      /\ m.duty = 0 \/ m.duty >= STICTION_DUTY
      /\ p[w - 1].duty <= m.duty /\ m.duty <= p[w].duty
  <2> DEFINE x == p[w - 1].duty
             y == p[w].duty
  <2>1. /\ x \in 0..255 /\ y \in 0..255 /\ m.duty = Middle(x, y) /\ x <= y
        /\ x = 0 \/ x >= STICTION_DUTY
        /\ y = 0 \/ y >= STICTION_DUTY
    BY <1>4, <1>5, <1>6
  <2>2. m.celsius \in 0..120
    BY <1>6 DEF Point
  <2> HIDE DEF x, y
  <2>3. /\ Middle(x, y) = 0 \/ Middle(x, y) >= STICTION_DUTY
        /\ x <= Middle(x, y) /\ Middle(x, y) <= y
    BY <2>1, MiddleFacts
  <2> QED BY <2>1, <2>2, <2>3 DEF x, y
<1>8. q = SubSeq(p, 1, w - 1) \o <<m>> \o SubSeq(p, w, Len(p))
  BY DEF Inserted, w
<1> HIDE DEF m, q
<1>9. /\ q \in Seq(Point) /\ Len(q) = Len(p) + 1
      /\ \A i \in 1..Len(q) : q[i] = IF i < w THEN p[i] ELSE IF i = w THEN m ELSE p[i - 1]
  BY <1>2, <1>6, <1>8, InsertedFacts
<1>10. ASSUME NEW i \in 1..Len(q)
       PROVE  /\ q[i].celsius \in 0..120
              /\ q[i].duty = 0 \/ q[i].duty >= STICTION_DUTY
              /\ i > 1 => q[i].celsius > q[i - 1].celsius /\ q[i].duty >= q[i - 1].duty
  <2>1. CASE i < w
    <3>1. q[i] = p[i] /\ i \in 1..Len(p) /\ (i > 1 => q[i - 1] = p[i - 1])
      BY <1>1, <1>2, <1>9, <2>1
    <3> QED BY <1>1, <3>1 DEF ValidCurve
  <2>2. CASE i = w
    <3>1. q[i] = m /\ q[i - 1] = p[w - 1]
      BY <1>1, <1>2, <1>9, <2>2
    <3> QED BY <1>4, <1>6, <1>7, <3>1
  <2>3. CASE i = w + 1
    <3>1. q[i] = p[w] /\ q[i - 1] = m
      BY <1>1, <1>2, <1>9, <2>3
    <3> QED BY <1>4, <1>5, <1>6, <1>7, <3>1
  <2>4. CASE i > w + 1
    <3>1. /\ q[i] = p[i - 1] /\ q[i - 1] = p[i - 1 - 1]
          /\ i - 1 \in 1..Len(p) /\ i - 1 > 1
      BY <1>1, <1>2, <1>9, <2>4
    <3> QED BY <1>1, <3>1 DEF ValidCurve
  <2> QED BY <1>1, <1>2, <1>9, <2>1, <2>2, <2>3, <2>4
<1>11. Len(q) >= 2 /\ DOMAIN q = 1..Len(q)
  BY <1>1, <1>9
<1> QED BY <1>10, <1>11 DEF ValidCurve, q

\* A point past the top.
LEMMA BeyondIsValid ==
  ASSUME NEW p \in Drawing, ValidCurve(p), ~Roomy(p), CanAdd(p), p[Len(p)].duty # 0
  PROVE  ValidCurve(Inserted(p))
<1>1. p \in Seq(Point) /\ Len(p) \in Nat /\ Len(p) >= 2 /\ DOMAIN p = 1..Len(p)
  BY DEF Drawing
<1> DEFINE a == p[Len(p)]
           b == Beyond(a)
           q == Inserted(p)
<1>2. a \in Point /\ a.celsius \in 0..120 /\ a.duty \in 0..255
  <2>1. Len(p) \in 1..Len(p)
    BY <1>1
  <2> QED BY <2>1, PointFacts
<1>3. a.celsius + 2 <= 120 /\ a.duty >= STICTION_DUTY
  BY <1>1 DEF CanAdd, ValidCurve
<1>4. b \in Point /\ a.celsius < b.celsius /\ a.duty <= b.duty
  BY <1>2, <1>3, BeyondFacts
<1>5. b.celsius \in 0..120 /\ b.duty \in 0..255
  BY <1>4 DEF Point, Duty
<1>6. q = Append(p, b)
  BY DEF Inserted
<1> HIDE DEF a, b, q
<1>7. /\ b.celsius \in 0..120 /\ b.duty >= STICTION_DUTY
      /\ b.celsius > a.celsius /\ b.duty >= a.duty
  <2> DEFINE x == a.duty
             y == b.duty
             c == a.celsius
             d == b.celsius
  <2>1. x \in 0..255 /\ y \in 0..255 /\ x <= y /\ x >= 33
    BY <1>2, <1>3, <1>4, <1>5 DEF STICTION_DUTY
  <2>2. c \in 0..120 /\ d \in 0..120 /\ c < d
    BY <1>2, <1>4, <1>5
  <2> HIDE DEF x, y, c, d
  <2>3. y >= 33 /\ y >= x
    BY <2>1
  <2>4. d > c
    BY <2>2
  <2> QED BY <2>2, <2>3, <2>4 DEF x, y, c, d, STICTION_DUTY
<1>8. /\ q \in Seq(Point) /\ Len(q) = Len(p) + 1
      /\ \A i \in 1..Len(p) : q[i] = p[i]
      /\ q[Len(p) + 1] = b
  BY <1>1, <1>4, <1>6, AppendProperties
<1>9. ASSUME NEW i \in 1..Len(q)
      PROVE  /\ q[i].celsius \in 0..120
             /\ q[i].duty = 0 \/ q[i].duty >= STICTION_DUTY
             /\ i > 1 => q[i].celsius > q[i - 1].celsius /\ q[i].duty >= q[i - 1].duty
  <2>1. CASE i <= Len(p)
    <3>1. q[i] = p[i] /\ i \in 1..Len(p) /\ (i > 1 => q[i - 1] = p[i - 1])
      BY <1>1, <1>8, <2>1
    <3> QED BY <1>1, <3>1 DEF ValidCurve
  <2>2. CASE i = Len(p) + 1
    <3>1. q[i] = b /\ q[i - 1] = a
      BY <1>1, <1>8, <2>2 DEF a
    <3> QED BY <1>7, <3>1
  <2> QED BY <1>1, <1>8, <2>1, <2>2
<1>10. Len(q) >= 2 /\ DOMAIN q = 1..Len(q)
  BY <1>1, <1>8
<1> QED BY <1>9, <1>10 DEF ValidCurve, q

\* For curves of any length, whatever edits, snapshots and other clients made them:
\* "Add point" keeps a valid curve valid, one that ends at a stop and has no gap left
\* excepted (insert_point).
THEOREM AddedSafe == EditorSpec => []AddedIsValid
<1>1. PointsInv => AddedIsValid
  BY SplitIsValid, BeyondIsValid DEF PointsInv, AddedIsValid
<1> QED BY PointsInit, PointsStep, <1>1, PTL DEF EditorSpec

(* The controls *)

Command == UNION {[D -> Setting] : D \in SUBSET Control}

GuiType ==
  /\ shown \in [Control -> Setting] /\ wished \in [Control -> Setting]
  /\ held \in [Control -> Setting]
  /\ pendingSend \in [Held -> Setting \cup {NoSetting}]
  /\ \A c \in Direct : pendingSend[c] = NoSetting
  /\ in_flight \in [Held -> Setting \cup {NoSetting}]
  /\ expired \subseteq Held
  /\ queue \in Seq(Command)
  /\ result \in {"none", "ok", "err"}
  /\ result # "none" => queue # <<>>
  /\ snapshot = Empty \/ (snapshot.kind = "data" /\ snapshot.state \in [Control -> Setting])
  /\ update.kind = "data" => update.state \in [Control -> Setting]

\* A control that was let go early has not been left alone, or waits to be sent.
Excused ==
  /\ \A c \in expired : c \in disturbed \/ pendingSend[c] # NoSetting
  /\ \A c \in Held : Failing(c) => c \in disturbed

\* What is sent after the choice is the choice: once the daemon or a command has it, so
\* has every later command, and nothing else waits to be sent.
Sound(c) ==
  /\ \A j \in 1..Len(queue) :
       held[c] = wished[c] /\ c \in DOMAIN queue[j] => queue[j][c] = wished[c]
  /\ \A i \in 1..Len(queue), j \in 1..Len(queue) :
       i <= j /\ c \in DOMAIN queue[i] /\ c \in DOMAIN queue[j] /\ queue[i][c] = wished[c]
         => queue[j][c] = wished[c]
  /\ c \in Held => pendingSend[c] \in {NoSetting, wished[c]}

\* What was fetched is not newer than what is held, and what was delivered is not newer
\* than what was fetched.
InOrder(c) ==
  /\ snapshot # Empty /\ snapshot.state[c] = wished[c] => held[c] = wished[c]
  /\ update.kind = "data" /\ update.state[c] = wished[c] =>
       /\ held[c] = wished[c]
       /\ snapshot # Empty => snapshot.state[c] = wished[c]

\* Everything known of the daemon is as wished.
Calm(c) ==
  /\ held[c] = wished[c]
  /\ snapshot # Empty => snapshot.state[c] = wished[c]
  /\ update.kind = "data" => update.state[c] = wished[c]

Keeps(c) ==
  /\ shown[c] = wished[c] /\ Sound(c) /\ InOrder(c)
  /\ Calm(c) \/ in_flight[c] = wished[c] \/ pendingSend[c] = wished[c]

\* The last command that carries c.
LastOf(c, i) == /\ c \in DOMAIN queue[i]
                /\ \A j \in 1..Len(queue) : j > i => c \notin DOMAIN queue[j]

\* A side is as wished, or the last command for it will make it so.
Coming(c) ==
  \/ held[c] = wished[c] /\ \A i \in 1..Len(queue) : c \notin DOMAIN queue[i]
  \/ \E i \in 1..Len(queue) : /\ LastOf(c, i) /\ queue[i][c] = wished[c]
                              /\ i > 1 \/ result = "none" \/ held[c] = wished[c]

JumpInv == \A c \in Held : c \notin disturbed => Keeps(c)
SideInv == \A c \in Side : c \notin disturbed => Coming(c)

GuiInv == GuiType /\ Excused /\ JumpInv /\ SideInv
-----------------------------------------------------------------------------
(* The queue *)

LEMMA CommandFacts ==
  ASSUME NEW f \in Command
  PROVE  DOMAIN f \subseteq Control /\ \A c \in DOMAIN f : f[c] \in Setting
  BY DEF Command

LEMMA CommandIntro ==
  ASSUME NEW D \in SUBSET Control, NEW f \in [D -> Setting]
  PROVE  f \in Command
  BY DEF Command

LEMMA QueueFront ==
  ASSUME GuiType, queue # <<>>
  PROVE  /\ Len(queue) \in Nat \ {0} /\ Head(queue) = queue[1] /\ queue[1] \in Command
         /\ Tail(queue) \in Seq(Command) /\ Len(Tail(queue)) = Len(queue) - 1
         /\ \A i \in 1..(Len(queue) - 1) : Tail(queue)[i] = queue[i + 1]
<1>1. queue \in Seq(Command)
  BY DEF GuiType
<1> QED BY <1>1

LEMMA QueueBack ==
  ASSUME GuiType, NEW f \in Command
  PROVE  /\ Len(queue) \in Nat /\ Append(queue, f) \in Seq(Command)
         /\ Len(Append(queue, f)) = Len(queue) + 1
         /\ \A i \in 1..Len(queue) : Append(queue, f)[i] = queue[i]
         /\ Append(queue, f)[Len(queue) + 1] = f
         /\ Append(queue, f) # <<>>
         /\ queue # <<>> => Head(Append(queue, f)) = Head(queue)
<1>1. queue \in Seq(Command)
  BY DEF GuiType
<1> QED BY <1>1

\* A command that does not concern c changes nothing for it, and one that carries what
\* was wished for c keeps it sound.
LEMMA SoundBack ==
  ASSUME GuiType, NEW f \in Command, NEW c \in Control, Sound(c),
         queue' = Append(queue, f), held' = held, wished'[c] = wished[c],
         c \in DOMAIN f => f[c] = wished[c],
         c \in Held => pendingSend'[c] \in {NoSetting, wished[c]}
  PROVE  Sound(c)'
<1>1. /\ Len(queue) \in Nat /\ Len(queue') = Len(queue) + 1
      /\ \A i \in 1..Len(queue) : queue'[i] = queue[i]
      /\ queue'[Len(queue) + 1] = f
  BY QueueBack
<1>2. ASSUME NEW j \in 1..Len(queue'), held[c] = wished[c], c \in DOMAIN queue'[j]
      PROVE  queue'[j][c] = wished[c]
  <2>1. CASE j \in 1..Len(queue)
    BY <1>1, <1>2, <2>1 DEF Sound
  <2>2. CASE j = Len(queue) + 1
    BY <1>1, <1>2, <2>2
  <2> QED BY <1>1, <2>1, <2>2
<1>3. ASSUME NEW i \in 1..Len(queue'), NEW j \in 1..Len(queue'), i <= j,
             c \in DOMAIN queue'[i], c \in DOMAIN queue'[j], queue'[i][c] = wished[c]
      PROVE  queue'[j][c] = wished[c]
  <2>1. CASE j \in 1..Len(queue)
    <3>1. i \in 1..Len(queue)
      BY <1>1, <1>3, <2>1
    <3> QED BY <1>1, <1>3, <2>1, <3>1 DEF Sound
  <2>2. CASE j = Len(queue) + 1
    BY <1>1, <1>3, <2>2
  <2> QED BY <1>1, <2>1, <2>2
<1> QED BY <1>2, <1>3 DEF Sound

\* A command that does not carry c leaves its last one the last.
LEMMA ComingBack ==
  ASSUME GuiType, NEW f \in Command, NEW c \in Control, Coming(c), c \notin DOMAIN f,
         queue' = Append(queue, f), UNCHANGED <<held, result>>, wished'[c] = wished[c]
  PROVE  Coming(c)'
<1>1. /\ Len(queue) \in Nat /\ Len(queue') = Len(queue) + 1
      /\ \A i \in 1..Len(queue) : queue'[i] = queue[i]
      /\ queue'[Len(queue) + 1] = f
  BY QueueBack
<1>2. \A i \in 1..Len(queue') : i \notin 1..Len(queue) => queue'[i] = f
  BY <1>1
<1>3. CASE held[c] = wished[c] /\ \A i \in 1..Len(queue) : c \notin DOMAIN queue[i]
  BY <1>1, <1>2, <1>3 DEF Coming
<1>4. ASSUME NEW i \in 1..Len(queue), LastOf(c, i), queue[i][c] = wished[c],
             i > 1 \/ result = "none" \/ held[c] = wished[c]
      PROVE  Coming(c)'
  <2>1. i \in 1..Len(queue') /\ queue'[i] = queue[i]
    BY <1>1
  <2>2. LastOf(c, i)'
    BY <1>1, <1>2, <1>4, <2>1 DEF LastOf
  <2> QED BY <1>4, <2>1, <2>2 DEF Coming
<1> QED BY <1>3, <1>4 DEF Coming

\* A command at the end of the queue makes no other one fail.
LEMMA FailingBack ==
  ASSUME GuiType, NEW f \in Command, queue' = Append(queue, f), UNCHANGED <<result, update>>,
         NEW c
  PROVE  Failing(c)' = Failing(c)
<1>1. result = "err" => Head(queue') = Head(queue)
  BY QueueBack DEF GuiType
<1> QED BY <1>1 DEF Failing

LEMMA Names ==
  /\ Held = {"power", "profile"} /\ Side = {"ac", "battery"}
  /\ Control = {"power", "profile", "ac", "battery"}
  /\ Direct \subseteq Held /\ Debounced \subseteq Held /\ Direct \cap Debounced = {}
  /\ Held \cap Side = {} /\ Held \subseteq Control /\ Side \subseteq Control
  BY DEF Held, Debounced, Direct, Side, Control
-----------------------------------------------------------------------------
(* Steps of the user *)

\* A value that is neither on its way to the daemon, in it, nor on its way back.
LEMMA KnownFacts ==
  ASSUME GuiType, NEW c, NEW v, v \notin Known(c)
  PROVE  /\ \A i \in 1..Len(queue) : c \in DOMAIN queue[i] => queue[i][c] # v
         /\ held[c] # v
         /\ snapshot # Empty => snapshot.state[c] # v
         /\ update.kind = "data" => update.state[c] # v
<1>1. DOMAIN queue = 1..Len(queue)
  BY DEF GuiType
<1>2. ASSUME NEW i \in 1..Len(queue), c \in DOMAIN queue[i]
      PROVE  queue[i][c] \in Known(c)
  BY <1>1, <1>2 DEF Known
<1>3. held[c] \in Known(c)
  BY DEF Known
<1>4. snapshot # Empty => snapshot.state[c] \in Known(c)
  BY DEF GuiType, Known
<1>5. update.kind = "data" => update.state[c] \in Known(c)
  BY DEF Known
<1> QED BY <1>2, <1>3, <1>4, <1>5

LEMMA AfreshFacts ==
  ASSUME NEW c, NEW v, disturbed' = Afresh(c, v)
  PROVE  /\ c \notin disturbed' => v \notin Known(c)
         /\ Failing(c) => c \in disturbed'
         /\ \A d : d # c => (d \in disturbed' <=> d \in disturbed)
  BY DEF Afresh

\* A control chosen afresh, to a value its choice is sent or waits to be sent with.
LEMMA ChosenKeeps ==
  ASSUME GuiType, NEW c \in Held, NEW v \in Setting, v \notin Known(c),
         shown'[c] = v, wished'[c] = v, UNCHANGED <<held, snapshot, update>>,
         Len(queue') \in Nat,
         \A i \in 1..Len(queue') : c \in DOMAIN queue'[i] =>
           (queue'[i][c] = v => i = Len(queue')),
         pendingSend'[c] \in {NoSetting, v},
         in_flight'[c] = v \/ pendingSend'[c] = v
  PROVE  Keeps(c)'
<1>1. Sound(c)'
  <2>1. held'[c] # wished'[c]
    BY KnownFacts
  <2>2. ASSUME NEW i \in 1..Len(queue'), NEW j \in 1..Len(queue'), i <= j,
               c \in DOMAIN queue'[i], c \in DOMAIN queue'[j], queue'[i][c] = wished'[c]
        PROVE  queue'[j][c] = wished'[c]
    <3>1. i = Len(queue')
      BY <2>2
    <3>2. j = i
      BY <2>2, <3>1
    <3> QED BY <2>2, <3>2
  <2> QED BY <2>1, <2>2 DEF Sound
<1>2. InOrder(c)'
  BY KnownFacts DEF InOrder
<1> QED BY <1>1, <1>2 DEF Keeps

LEMMA ChooseDirectStep ==
  ASSUME GuiInv, NEW c \in Direct, NEW v \in Setting, ChooseDirect(c, v)
  PROVE  GuiInv'
<1> DEFINE f == [d \in {c} |-> v]
<1>1. c \in Held /\ c \in Control /\ c \notin Side
  BY Names DEF Direct
<1>2. f \in Command
  BY <1>1, CommandIntro
<1>3. DOMAIN f = {c} /\ f[c] = v
  OBVIOUS
<1>4. queue' = Append(queue, f) /\ disturbed' = Afresh(c, v)
  BY DEF ChooseDirect
<1> HIDE DEF f
<1>5. GuiType'
  BY <1>1, <1>2, <1>4, QueueBack DEF GuiInv, GuiType, ChooseDirect, Chosen
<1>6. Excused'
  <2>1. \A d : Failing(d)' = Failing(d)
    BY <1>2, <1>4, FailingBack DEF GuiInv, ChooseDirect
  <2>2. \A d \in Held : Failing(d)' => d \in disturbed'
    BY <1>4, <2>1, AfreshFacts DEF GuiInv, Excused
  <2>3. \A d \in expired' : d \in disturbed' \/ pendingSend'[d] # NoSetting
    BY <1>4, AfreshFacts DEF GuiInv, Excused, ChooseDirect
  <2> QED BY <2>2, <2>3 DEF Excused
<1>7. ASSUME NEW d \in Held, d \notin disturbed'
      PROVE  Keeps(d)'
  <2>1. CASE d = c
    <3>1. v \notin Known(c)
      BY <1>4, <1>7, <2>1, AfreshFacts
    <3>2. /\ Len(queue') \in Nat
          /\ \A i \in 1..Len(queue') : c \in DOMAIN queue'[i] =>
               (queue'[i][c] = v => i = Len(queue'))
      <4>1. ASSUME NEW i \in 1..Len(queue), c \in DOMAIN queue'[i], queue'[i][c] = v
            PROVE  FALSE
        <5>1. queue'[i] = queue[i]
          BY <1>2, <1>4, QueueBack DEF GuiInv
        <5> QED BY <3>1, <4>1, <5>1, KnownFacts DEF GuiInv
      <4> QED BY <1>2, <1>4, <4>1, QueueBack DEF GuiInv
    <3>3. /\ shown'[c] = v /\ wished'[c] = v /\ in_flight'[c] = v
          /\ pendingSend'[c] = NoSetting
      BY <1>1 DEF ChooseDirect, Chosen, GuiInv, GuiType
    <3> QED BY <1>1, <2>1, <3>1, <3>2, <3>3, ChosenKeeps DEF ChooseDirect, GuiInv
  <2>2. CASE d # c
    <3>1. Keeps(d) /\ d \in Control
      BY <1>4, <1>7, <2>2, AfreshFacts, Names DEF GuiInv, JumpInv
    <3>2. shown'[d] = shown[d] /\ wished'[d] = wished[d] /\ in_flight'[d] = in_flight[d]
      BY <2>2, <3>1 DEF ChooseDirect, Chosen, GuiInv, GuiType
    <3>3. Sound(d)'
      BY <1>2, <1>3, <1>4, <2>2, <3>1, <3>2, SoundBack
      DEF GuiInv, Keeps, Sound, ChooseDirect
    <3> QED BY <3>1, <3>2, <3>3 DEF Keeps, InOrder, Calm, ChooseDirect
  <2> QED BY <2>1, <2>2
<1>8. ASSUME NEW d \in Side, d \notin disturbed'
      PROVE  Coming(d)'
  <2>1. Coming(d) /\ d \in Control /\ d # c
    BY <1>1, <1>4, <1>8, AfreshFacts, Names DEF GuiInv, SideInv
  <2>2. wished'[d] = wished[d]
    BY <2>1 DEF ChooseDirect, Chosen, GuiInv, GuiType
  <2> QED BY <1>2, <1>3, <1>4, <2>1, <2>2, ComingBack DEF GuiInv, ChooseDirect
<1> QED BY <1>5, <1>6, <1>7, <1>8 DEF GuiInv, JumpInv, SideInv

LEMMA AdjustStep ==
  ASSUME GuiInv, NEW c \in Debounced, NEW v \in Setting, Adjust(c, v)
  PROVE  GuiInv'
<1>1. c \in Held /\ c \in Control /\ c \notin Side /\ c \notin Direct
  BY Names DEF Debounced
<1>2. disturbed' = Afresh(c, v) /\ queue' = queue
  BY DEF Adjust
<1>3. GuiType'
  BY <1>1 DEF GuiInv, GuiType, Adjust, Chosen
<1>4. pendingSend'[c] = v /\ v # NoSetting
  BY <1>1, GuiAssumption DEF Adjust, GuiInv, GuiType
<1>5. Excused'
  <2>1. \A d : Failing(d)' = Failing(d)
    BY DEF Adjust, Failing
  <2>2. \A d \in Held : Failing(d)' => d \in disturbed'
    BY <1>2, <2>1, AfreshFacts DEF GuiInv, Excused
  <2>3. \A d : d # c => pendingSend'[d] = pendingSend[d]
    BY DEF Adjust, GuiInv, GuiType
  <2>4. \A d \in expired' : d \in disturbed' \/ pendingSend'[d] # NoSetting
    BY <1>2, <1>4, <2>3, AfreshFacts DEF GuiInv, Excused, Adjust
  <2> QED BY <2>2, <2>4 DEF Excused
<1>6. ASSUME NEW d \in Held, d \notin disturbed'
      PROVE  Keeps(d)'
  <2>1. CASE d = c
    <3>1. v \notin Known(c)
      BY <1>2, <1>6, <2>1, AfreshFacts
    <3>2. /\ Len(queue') \in Nat
          /\ \A i \in 1..Len(queue') : c \in DOMAIN queue'[i] =>
               (queue'[i][c] = v => i = Len(queue'))
      BY <1>2, <3>1, KnownFacts DEF GuiInv, GuiType
    <3>3. shown'[c] = v /\ wished'[c] = v
      BY <1>1 DEF Adjust, Chosen, GuiInv, GuiType
    <3> QED BY <1>1, <1>4, <2>1, <3>1, <3>2, <3>3, ChosenKeeps DEF Adjust, GuiInv
  <2>2. CASE d # c
    <3>1. Keeps(d) /\ d \in Control
      BY <1>2, <1>6, <2>2, AfreshFacts, Names DEF GuiInv, JumpInv
    <3>2. /\ shown'[d] = shown[d] /\ wished'[d] = wished[d]
          /\ pendingSend'[d] = pendingSend[d]
      BY <2>2, <3>1 DEF Adjust, Chosen, GuiInv, GuiType
    <3> QED BY <3>1, <3>2 DEF Keeps, Sound, InOrder, Calm, Adjust
  <2> QED BY <2>1, <2>2
<1>7. ASSUME NEW d \in Side, d \notin disturbed'
      PROVE  Coming(d)'
  <2>1. Coming(d) /\ d \in Control /\ d # c
    BY <1>1, <1>2, <1>7, AfreshFacts, Names DEF GuiInv, SideInv
  <2>2. wished'[d] = wished[d]
    BY <2>1 DEF Adjust, Chosen, GuiInv, GuiType
  <2> QED BY <2>1, <2>2 DEF Coming, LastOf, Adjust
<1> QED BY <1>3, <1>5, <1>6, <1>7 DEF GuiInv, JumpInv, SideInv

LEMMA ChooseSideStep ==
  ASSUME GuiInv, NEW c \in Side, NEW v \in Setting, ChooseSide(c, v)
  PROVE  GuiInv'
<1> DEFINE f == BothSides(c)
<1>1. c \in Control /\ c \notin Held /\ Side \subseteq Control /\ Side \cap Held = {}
  BY Names
<1>2. shown' \in [Control -> Setting]
  BY <1>1 DEF ChooseSide, Chosen, GuiInv, GuiType
<1>3. f = [d \in Side |-> shown'[d]]
  BY DEF BothSides
<1>4. f \in Command
  BY <1>1, <1>2, <1>3, CommandIntro
<1>5. DOMAIN f = Side /\ \A d \in Side : f[d] = shown'[d]
  BY <1>3
<1>6. queue' = Append(queue, f)
  BY DEF ChooseSide
<1> HIDE DEF f
<1>7. GuiType'
  BY <1>1, <1>2, <1>4, <1>6, QueueBack DEF GuiInv, GuiType, ChooseSide, Chosen
<1>8. \A d \in Held : d \in disturbed' <=> d \in disturbed
  BY <1>1 DEF ChooseSide
<1>9. Excused'
  <2>1. \A d : Failing(d)' = Failing(d)
    BY <1>4, <1>6, FailingBack DEF GuiInv, ChooseSide
  <2>2. \A d \in Held : Failing(d)' => d \in disturbed'
    BY <1>8, <2>1 DEF GuiInv, Excused
  <2>3. \A d \in expired' : d \in disturbed' \/ pendingSend'[d] # NoSetting
    <3>1. expired \subseteq Held
      BY DEF GuiInv, GuiType
    <3> QED BY <1>8, <3>1 DEF GuiInv, Excused, ChooseSide
  <2> QED BY <2>2, <2>3 DEF Excused
<1>10. ASSUME NEW d \in Held, d \notin disturbed'
       PROVE  Keeps(d)'
  <2>1. Keeps(d) /\ d \in Control /\ d # c /\ d \notin Side
    BY <1>1, <1>8, <1>10, Names DEF GuiInv, JumpInv
  <2>2. shown'[d] = shown[d] /\ wished'[d] = wished[d]
    BY <2>1 DEF ChooseSide, Chosen, GuiInv, GuiType
  <2>3. Sound(d)'
    BY <1>4, <1>5, <1>6, <2>1, <2>2, SoundBack DEF GuiInv, Keeps, Sound, ChooseSide
  <2> QED BY <2>1, <2>2, <2>3 DEF Keeps, InOrder, Calm, ChooseSide
<1>11. ASSUME NEW d \in Side, d \notin disturbed'
       PROVE  Coming(d)'
  <2>1. shown'[d] = wished'[d]
    <3>1. CASE d = c
      BY <1>1, <3>1 DEF ChooseSide, Chosen, GuiInv, GuiType
    <3>2. CASE d # c
      <4>1. shown[d] = wished[d]
        BY <1>11, <3>2 DEF ChooseSide
      <4> QED BY <1>1, <3>2, <4>1 DEF ChooseSide, Chosen, GuiInv, GuiType
    <3> QED BY <3>1, <3>2
  <2>2. PICK n \in Nat : /\ n = Len(queue) + 1 /\ Len(queue) \in Nat
                         /\ Len(queue') = n /\ queue'[n] = f
    BY <1>4, <1>6, QueueBack DEF GuiInv
  <2>3. LastOf(d, n)'
    BY <1>5, <2>2 DEF LastOf
  <2>4. n > 1 \/ result' = "none"
    <3>1. result # "none" => Len(queue) > 0
      BY <2>2 DEF GuiInv, GuiType
    <3> QED BY <2>2, <3>1 DEF ChooseSide
  <2>5. n \in 1..Len(queue') /\ queue'[n][d] = wished'[d]
    BY <1>5, <2>1, <2>2
  <2> QED BY <2>3, <2>4, <2>5 DEF Coming
<1> QED BY <1>7, <1>9, <1>10, <1>11 DEF GuiInv, JumpInv, SideInv

LEMMA DebounceStep ==
  ASSUME GuiInv, NEW c \in Held, DebounceFires(c)
  PROVE  GuiInv'
<1> DEFINE f == [d \in {c} |-> pendingSend[c]]
<1>1. c \in Control /\ c \notin Side /\ pendingSend[c] \in Setting /\ c \notin Direct
  BY Names DEF DebounceFires, GuiInv, GuiType
<1>2. f \in Command
  BY <1>1, CommandIntro
<1>3. DOMAIN f = {c} /\ f[c] = pendingSend[c]
  OBVIOUS
<1>4. queue' = Append(queue, f)
  BY DEF DebounceFires
<1> HIDE DEF f
<1>5. GuiType'
  BY <1>1, <1>2, <1>4, QueueBack DEF GuiInv, GuiType, DebounceFires
<1>6. Excused'
  <2>1. \A d : Failing(d)' = Failing(d)
    BY <1>2, <1>4, FailingBack DEF GuiInv, DebounceFires
  <2>2. \A d \in Held : Failing(d)' => d \in disturbed'
    BY <2>1 DEF GuiInv, Excused, DebounceFires
  <2>3. \A d \in expired' : d \in disturbed' \/ pendingSend'[d] # NoSetting
    BY DEF GuiInv, GuiType, Excused, DebounceFires
  <2> QED BY <2>2, <2>3 DEF Excused
<1>7. ASSUME NEW d \in Held, d \notin disturbed'
      PROVE  Keeps(d)'
  <2>1. Keeps(d) /\ d \in Control
    BY <1>7, Names DEF GuiInv, JumpInv, DebounceFires
  <2>2. d = c => pendingSend[c] = wished[c]
    BY <1>1, <2>1, GuiAssumption DEF Keeps, Sound, DebounceFires
  <2>3. pendingSend'[d] \in {NoSetting, wished[d]}
    BY <2>1 DEF DebounceFires, GuiInv, GuiType, Keeps, Sound
  <2>4. Sound(d)'
    BY <1>2, <1>3, <1>4, <2>1, <2>2, <2>3, SoundBack DEF GuiInv, Keeps, DebounceFires
  <2>5. \/ Calm(d) \/ in_flight'[d] = wished[d] \/ pendingSend'[d] = wished[d]
    BY <2>1, <2>2 DEF Keeps, DebounceFires, GuiInv, GuiType
  <2> QED BY <2>1, <2>4, <2>5 DEF Keeps, InOrder, Calm, DebounceFires
<1>8. ASSUME NEW d \in Side, d \notin disturbed'
      PROVE  Coming(d)'
  <2>1. Coming(d) /\ d \in Control /\ d # c
    BY <1>1, <1>8, Names DEF GuiInv, SideInv, DebounceFires
  <2> QED BY <1>2, <1>3, <1>4, <2>1, ComingBack DEF GuiInv, DebounceFires
<1> QED BY <1>5, <1>6, <1>7, <1>8 DEF GuiInv, JumpInv, SideInv
-----------------------------------------------------------------------------
(* Steps of the threads *)

LEMMA RunStep ==
  ASSUME GuiInv, Run
  PROVE  GuiInv'
<1>1. Head(queue) = queue[1] /\ queue[1] \in Command /\ 1 \in 1..Len(queue)
  BY QueueFront DEF GuiInv, Run
<1>2. \A c \in Control : held'[c] = IF c \in DOMAIN queue[1] THEN queue[1][c] ELSE held[c]
  BY <1>1 DEF Run, Sent
<1>3. GuiType'
  <2>1. held' \in [Control -> Setting]
    BY <1>1, CommandFacts DEF Run, Sent, GuiInv, GuiType
  <2> QED BY <2>1 DEF Run, GuiInv, GuiType
<1>4. Excused'
  BY DEF GuiInv, Excused, Failing, Run
<1>5. ASSUME NEW d \in Held, d \notin disturbed'
      PROVE  Keeps(d)'
  <2>1. Keeps(d) /\ d \in Control
    BY <1>5, Names DEF GuiInv, JumpInv, Run
  <2>2. held[d] = wished[d] => held'[d] = wished[d]
    BY <1>1, <1>2, <2>1 DEF Keeps, Sound
  <2>3. Sound(d)'
    <3>1. ASSUME NEW j \in 1..Len(queue), held'[d] = wished[d], d \in DOMAIN queue[j]
          PROVE  queue[j][d] = wished[d]
      <4>1. CASE d \in DOMAIN queue[1]
        <5>1. queue[1][d] = wished[d] /\ 1 <= j
          BY <1>2, <2>1, <3>1, <4>1
        <5> QED BY <1>1, <2>1, <3>1, <4>1, <5>1 DEF Keeps, Sound
      <4>2. CASE d \notin DOMAIN queue[1]
        BY <1>2, <2>1, <3>1, <4>2 DEF Keeps, Sound
      <4> QED BY <4>1, <4>2
    <3> QED BY <2>1, <3>1 DEF Keeps, Sound, Run
  <2>4. InOrder(d)'
    BY <2>1, <2>2 DEF Keeps, InOrder, Run
  <2> QED BY <2>1, <2>2, <2>3, <2>4 DEF Keeps, Calm, Run
<1>6. ASSUME NEW d \in Side, d \notin disturbed'
      PROVE  Coming(d)'
  <2>1. Coming(d) /\ d \in Control
    BY <1>6, Names DEF GuiInv, SideInv, Run
  <2>2. CASE held[d] = wished[d] /\ \A i \in 1..Len(queue) : d \notin DOMAIN queue[i]
    BY <1>1, <1>2, <2>1, <2>2 DEF Coming, Run
  <2>3. ASSUME NEW i \in 1..Len(queue), LastOf(d, i), queue[i][d] = wished[d],
               i > 1 \/ result = "none" \/ held[d] = wished[d]
        PROVE  Coming(d)'
    <3>1. LastOf(d, i)'
      BY <2>3 DEF LastOf, Run
    <3>2. i > 1 \/ held'[d] = wished[d]
      <4>1. CASE i = 1
        BY <1>2, <2>1, <2>3, <4>1 DEF LastOf
      <4> QED BY <4>1
    <3> QED BY <2>3, <3>1, <3>2 DEF Coming, Run
  <2> QED BY <2>1, <2>2, <2>3 DEF Coming
<1> QED BY <1>3, <1>4, <1>5, <1>6 DEF GuiInv, JumpInv, SideInv

LEMMA RefuseStep ==
  ASSUME GuiInv, Refuse
  PROVE  GuiInv'
<1>1. Head(queue) = queue[1] /\ Len(queue) \in Nat
  BY QueueFront DEF GuiInv, Refuse
<1>2. GuiType'
  BY DEF GuiInv, GuiType, Refuse
<1>3. Excused'
  <2>1. \A d \in Held : Failing(d)' => d \in disturbed'
    BY Names DEF GuiInv, Excused, Failing, Refuse, Sent
  <2> QED BY <2>1 DEF GuiInv, Excused, Refuse
<1>4. ASSUME NEW d \in Held, d \notin disturbed'
      PROVE  Keeps(d)'
  BY <1>4 DEF GuiInv, JumpInv, Keeps, Sound, InOrder, Calm, Refuse
<1>5. ASSUME NEW d \in Side, d \notin disturbed'
      PROVE  Coming(d)'
  <2>1. Coming(d) /\ d \in Control
    BY <1>5, Names DEF GuiInv, SideInv, Refuse
  <2>2. CASE held[d] = wished[d] /\ \A i \in 1..Len(queue) : d \notin DOMAIN queue[i]
    BY <2>2 DEF Coming, Refuse
  <2>3. ASSUME NEW i \in 1..Len(queue), LastOf(d, i), queue[i][d] = wished[d]
        PROVE  Coming(d)'
    <3>1. LastOf(d, i)'
      BY <2>3 DEF LastOf, Refuse
    <3>2. i > 1
      <4>1. CASE i = 1
        <5>1. Sent(d) /\ ~Again(d)
          BY <1>1, <2>3, <4>1 DEF LastOf, Sent, Again
        <5> QED BY <1>5, <2>1, <5>1 DEF Refuse
      <4> QED BY <4>1
    <3> QED BY <2>3, <3>1, <3>2 DEF Coming, Refuse
  <2> QED BY <2>1, <2>2, <2>3 DEF Coming
<1> QED BY <1>2, <1>3, <1>4, <1>5 DEF GuiInv, JumpInv, SideInv

LEMMA ReportStep ==
  ASSUME GuiInv, Report
  PROVE  GuiInv'
<1>1. queue # <<>>
  BY DEF GuiInv, GuiType, Report
<1>2. /\ Len(queue) \in Nat \ {0} /\ Head(queue) = queue[1]
      /\ queue' \in Seq(Command) /\ Len(queue') = Len(queue) - 1
      /\ \A i \in 1..(Len(queue) - 1) : queue'[i] = queue[i + 1]
  BY <1>1, QueueFront DEF GuiInv, Report
<1>3. update'.kind = result /\ update'.of = DOMAIN Head(queue) /\ result \in {"ok", "err"}
  BY DEF Report, GuiInv, GuiType
<1>4. GuiType'
  BY <1>2, <1>3 DEF Report, GuiInv, GuiType
<1>5. Excused'
  <2>1. \A d \in Held : Failing(d)' => d \in disturbed'
    BY <1>3 DEF GuiInv, Excused, Failing, Report
  <2> QED BY <2>1 DEF GuiInv, Excused, Report
<1>6. \A i \in 1..Len(queue') : i + 1 \in 1..Len(queue) /\ queue'[i] = queue[i + 1]
  BY <1>2
<1>7. ASSUME NEW d \in Held, d \notin disturbed'
      PROVE  Keeps(d)'
  <2>1. Keeps(d)
    BY <1>7 DEF GuiInv, JumpInv, Report
  <2>2. update = Empty /\ update'.kind # "data"
    BY <1>3 DEF Report
  <2>3. Sound(d)'
    <3>1. \A j \in 1..Len(queue') :
            held[d] = wished[d] /\ d \in DOMAIN queue'[j] => queue'[j][d] = wished[d]
      BY <1>6, <2>1 DEF Keeps, Sound
    <3>2. ASSUME NEW i \in 1..Len(queue'), NEW j \in 1..Len(queue'), i <= j,
                 d \in DOMAIN queue'[i], d \in DOMAIN queue'[j], queue'[i][d] = wished[d]
          PROVE  queue'[j][d] = wished[d]
      <4>1. i + 1 <= j + 1
        BY <3>2
      <4> QED BY <1>6, <2>1, <3>2, <4>1 DEF Keeps, Sound
    <3> QED BY <2>1, <3>1, <3>2 DEF Keeps, Sound, Report
  <2> QED BY <2>1, <2>2, <2>3 DEF Keeps, InOrder, Calm, Report
<1>8. ASSUME NEW d \in Side, d \notin disturbed'
      PROVE  Coming(d)'
  <2>1. Coming(d)
    BY <1>8 DEF GuiInv, SideInv, Report
  <2>2. CASE held[d] = wished[d] /\ \A i \in 1..Len(queue) : d \notin DOMAIN queue[i]
    BY <1>6, <2>2 DEF Coming, Report
  <2>3. ASSUME NEW i \in 1..Len(queue), LastOf(d, i), queue[i][d] = wished[d],
               i > 1 \/ result = "none" \/ held[d] = wished[d]
        PROVE  Coming(d)'
    <3>1. CASE i = 1
      <4>1. held[d] = wished[d]
        BY <2>3, <3>1 DEF Report
      <4>2. \A j \in 1..Len(queue') : j + 1 > 1
        BY <1>2
      <4>3. \A j \in 1..Len(queue') : d \notin DOMAIN queue'[j]
        BY <1>6, <2>3, <3>1, <4>2 DEF LastOf
      <4> QED BY <4>1, <4>3 DEF Coming, Report
    <3>2. CASE i > 1
      <4>1. i - 1 \in 1..Len(queue') /\ queue'[i - 1] = queue[i]
        BY <1>2, <2>3, <3>2
      <4>2. \A j \in 1..Len(queue') : j > i - 1 => j + 1 > i
        BY <1>2
      <4>3. LastOf(d, i - 1)'
        BY <1>6, <2>3, <4>1, <4>2 DEF LastOf
      <4>4. result' = "none"
        BY DEF Report
      <4> QED BY <2>3, <4>1, <4>3, <4>4 DEF Coming, Report
    <3> QED BY <3>1, <3>2
  <2> QED BY <2>1, <2>2, <2>3 DEF Coming
<1> QED BY <1>4, <1>5, <1>7, <1>8 DEF GuiInv, JumpInv, SideInv

LEMMA ElsewhereStep ==
  ASSUME GuiInv, NEW c \in Control, NEW v \in Setting, ChangedElsewhere(c, v)
  PROVE  GuiInv'
<1>1. /\ held' \in [Control -> Setting]
      /\ \A d \in Control : d # c => held'[d] = held[d]
  BY DEF ChangedElsewhere, GuiInv, GuiType
<1>2. GuiType'
  BY <1>1 DEF ChangedElsewhere, GuiInv, GuiType
<1>3. Excused'
  BY DEF ChangedElsewhere, GuiInv, Excused, Failing
<1>4. ASSUME NEW d \in Held, d \notin disturbed'
      PROVE  Keeps(d)'
  <2>1. Keeps(d) /\ held'[d] = held[d]
    BY <1>1, <1>4, Names DEF ChangedElsewhere, GuiInv, JumpInv
  <2> QED BY <2>1 DEF ChangedElsewhere, Keeps, Sound, InOrder, Calm
<1>5. ASSUME NEW d \in Side, d \notin disturbed'
      PROVE  Coming(d)'
  <2>1. Coming(d) /\ held'[d] = held[d]
    BY <1>1, <1>5, Names DEF ChangedElsewhere, GuiInv, SideInv
  <2> QED BY <2>1 DEF ChangedElsewhere, Coming, LastOf
<1> QED BY <1>2, <1>3, <1>4, <1>5 DEF GuiInv, JumpInv, SideInv

\* The two steps of a snapshot.
LEMMA PollerStep ==
  ASSUME GuiInv, Poller
  PROVE  GuiInv'
<1>1. CASE FetchSnapshot
  <2>1. snapshot'.kind = "data" /\ snapshot'.state = held /\ snapshot = Empty
    BY <1>1 DEF FetchSnapshot
  <2>2. GuiType' /\ Excused' /\ SideInv'
    BY <1>1, <2>1
    DEF FetchSnapshot, GuiInv, GuiType, Excused, Failing, SideInv, Coming, LastOf
  <2>3. ASSUME NEW d \in Held, d \notin disturbed'
        PROVE  Keeps(d)'
    BY <1>1, <2>1, <2>3
    DEF FetchSnapshot, GuiInv, JumpInv, Keeps, Sound, InOrder, Calm
  <2> QED BY <2>2, <2>3 DEF GuiInv, JumpInv
<1>2. CASE Deliver
  <2>1. /\ update' = snapshot /\ snapshot # Empty /\ snapshot' = Empty
        /\ snapshot.kind = "data" /\ snapshot.state \in [Control -> Setting]
    BY <1>2 DEF Deliver, GuiInv, GuiType
  <2>2. GuiType' /\ Excused' /\ SideInv'
    BY <1>2, <2>1
    DEF Deliver, GuiInv, GuiType, Excused, Failing, SideInv, Coming, LastOf
  <2>3. ASSUME NEW d \in Held, d \notin disturbed'
        PROVE  Keeps(d)'
    BY <1>2, <2>1, <2>3 DEF Deliver, GuiInv, JumpInv, Keeps, Sound, InOrder, Calm
  <2> QED BY <2>2, <2>3 DEF GuiInv, JumpInv
<1> QED BY <1>1, <1>2 DEF Poller

LEMMA WaitOverStep ==
  ASSUME GuiInv, NEW c \in Held, WaitOver(c)
  PROVE  GuiInv'
<1>1. GuiType'
  BY DEF WaitOver, GuiInv, GuiType
<1>2. Excused'
  BY DEF WaitOver, GuiInv, Excused, Failing
<1>3. disturbed \subseteq disturbed'
  BY DEF WaitOver
<1>4. JumpInv'
  BY <1>3 DEF WaitOver, GuiInv, JumpInv, Keeps, Sound, InOrder, Calm
<1>5. SideInv'
  BY <1>3 DEF WaitOver, GuiInv, SideInv, Coming, LastOf
<1> QED BY <1>1, <1>2, <1>4, <1>5 DEF GuiInv
-----------------------------------------------------------------------------
(* Steps of the main loop *)

LEMMA SyncStep ==
  ASSUME GuiInv, Sync
  PROVE  GuiInv'
<1>1. update.state \in [Control -> Setting] /\ update'.kind = "none"
  BY DEF Sync, Empty, GuiInv, GuiType
<1>2. GuiType'
  <2>1. in_flight' \in [Held -> Setting \cup {NoSetting}]
    BY DEF Sync, GuiInv, GuiType
  <2>2. shown' \in [Control -> Setting]
    BY <1>1 DEF Sync, GuiInv, GuiType
  <2> QED BY <1>1, <2>1, <2>2 DEF Sync, GuiInv, GuiType
<1>3. Excused'
  BY <1>1 DEF Sync, GuiInv, Excused, Failing
<1>4. ASSUME NEW d \in Held, d \notin disturbed'
      PROVE  Keeps(d)'
  <2>1. Keeps(d) /\ d \in Control /\ wished[d] # NoSetting
    BY <1>4, Names, GuiAssumption DEF Sync, GuiInv, JumpInv, GuiType
  <2>2. d \in expired => pendingSend[d] = wished[d]
    BY <1>4, <2>1 DEF Sync, GuiInv, Excused, Keeps, Sound
  <2>3. \/ pendingSend[d] = wished[d]
        \/ in_flight'[d] = IF in_flight[d] = update.state[d] THEN NoSetting ELSE in_flight[d]
    BY <2>2 DEF Sync, LetOff
  <2>4. shown'[d] = IF in_flight'[d] # NoSetting \/ pendingSend[d] # NoSetting THEN shown[d]
                    ELSE update.state[d]
    BY <2>1 DEF Sync, Waiting
  <2>5. Calm(d)' \/ in_flight'[d] = wished[d] \/ pendingSend[d] = wished[d]
    <3>1. CASE Calm(d)
      BY <1>1, <3>1 DEF Sync, Calm
    <3>2. CASE in_flight[d] = wished[d]
      <4>1. CASE in_flight[d] = update.state[d]
        BY <1>1, <2>1, <3>2, <4>1 DEF Sync, Keeps, InOrder, Calm
      <4>2. CASE in_flight[d] # update.state[d]
        BY <2>3, <3>2, <4>2
      <4> QED BY <4>1, <4>2
    <3>3. CASE pendingSend[d] = wished[d]
      BY <3>3
    <3> QED BY <2>1, <3>1, <3>2, <3>3 DEF Keeps
  <2>6. shown'[d] = wished[d]
    <3>1. CASE in_flight'[d] # NoSetting \/ pendingSend[d] # NoSetting
      BY <2>1, <2>4, <3>1 DEF Keeps
    <3>2. CASE ~(in_flight'[d] # NoSetting \/ pendingSend[d] # NoSetting)
      <4>1. update.state[d] = wished[d]
        BY <2>1, <2>3, <3>2 DEF Keeps, Calm, Sync
      <4> QED BY <2>4, <3>2, <4>1
    <3> QED BY <3>1, <3>2
  <2>7. Sound(d)' /\ InOrder(d)'
    BY <1>1, <2>1 DEF Sync, Keeps, Sound, InOrder
  <2> QED BY <2>5, <2>6, <2>7 DEF Keeps, Sync
<1>5. SideInv'
  BY DEF Sync, GuiInv, SideInv, Coming, LastOf
<1> QED BY <1>2, <1>3, <1>4, <1>5 DEF GuiInv, JumpInv

LEMMA ResultStep ==
  ASSUME GuiInv, ResultArrives
  PROVE  GuiInv'
<1>1. update'.kind = "none"
  BY DEF ResultArrives, Empty
<1>2. GuiType' /\ Excused' /\ SideInv'
  <2>1. in_flight' \in [Held -> Setting \cup {NoSetting}]
    BY DEF ResultArrives, GuiInv, GuiType
  <2> QED BY <1>1, <2>1
          DEF ResultArrives, GuiInv, GuiType, Excused, Failing, SideInv, Coming, LastOf
<1>3. ASSUME NEW d \in Held, d \notin disturbed'
      PROVE  Keeps(d)'
  <2>1. Keeps(d) /\ d \in Control
    BY <1>3, Names DEF ResultArrives, GuiInv, JumpInv
  <2>2. in_flight'[d] = in_flight[d]
    BY <1>3, <2>1 DEF ResultArrives, LetsGo, GuiInv, Excused, Failing
  <2> QED BY <1>1, <2>1, <2>2 DEF ResultArrives, Keeps, Sound, InOrder, Calm
<1> QED BY <1>2, <1>3 DEF GuiInv, JumpInv
-----------------------------------------------------------------------------
LEMMA GuiInitInv == GuiInit => GuiInv
<1> SUFFICES ASSUME GuiInit
             PROVE  GuiInv
  OBVIOUS
<1>1. /\ held \in [Control -> Setting] /\ shown = held /\ wished = held
      /\ queue = <<>> /\ Len(queue) = 0 /\ queue \in Seq(Command)
      /\ snapshot = Empty /\ update.kind = "none" /\ expired = {} /\ result = "none"
      /\ pendingSend \in [Held -> {NoSetting}] /\ in_flight \in [Held -> {NoSetting}]
  BY DEF GuiInit, Empty, None2
<1>2. GuiType
  BY <1>1, Names DEF GuiType
<1>3. Excused
  BY <1>1 DEF Excused, Failing
<1>4. \A c \in Held : Keeps(c)
  BY <1>1, Names DEF Keeps, Sound, InOrder, Calm
<1>5. \A c \in Side : Coming(c)
  BY <1>1, Names DEF Coming
<1> QED BY <1>2, <1>3, <1>4, <1>5 DEF GuiInv, JumpInv, SideInv

LEMMA GuiStep == GuiInv /\ [GuiNext]_guiVars => GuiInv'
<1> SUFFICES ASSUME GuiInv, [GuiNext]_guiVars
             PROVE  GuiInv'
  OBVIOUS
<1>1. CASE Choose
  BY <1>1, ChooseDirectStep, AdjustStep, ChooseSideStep DEF Choose
<1>2. CASE Commands
  BY <1>2, RunStep, RefuseStep, ReportStep DEF Commands
<1>3. CASE Poller
  BY <1>3, PollerStep
<1>4. CASE MainLoop
  BY <1>4, SyncStep, ResultStep DEF MainLoop
<1>5. CASE \E c \in Held : DebounceFires(c) \/ WaitOver(c)
  BY <1>5, DebounceStep, WaitOverStep
<1>6. CASE \E c \in Control, v \in Setting : ChangedElsewhere(c, v)
  BY <1>6, ElsewhereStep
<1>7. CASE UNCHANGED guiVars
  BY <1>7 DEF guiVars, GuiInv, GuiType, Excused, Failing, JumpInv, SideInv, Keeps, Sound,
              InOrder, Calm, Coming, LastOf
<1> QED BY <1>1, <1>2, <1>3, <1>4, <1>5, <1>6, <1>7 DEF GuiNext

LEMMA GuiInvSafe == GuiSpec => []GuiInv
  BY GuiInitInv, GuiStep, PTL DEF GuiSpec

\* What the user has set does not jump back before it is confirmed, refused, given up on
\* or changed elsewhere: through any debounce, any choices before it, any queue of commands
\* and any snapshot that was fetched too early (sync_controls, in_flight).
THEOREM NoJumpBackSafe == GuiSpec => []NoJumpBack
<1>1. GuiInv => NoJumpBack
  BY DEF GuiInv, JumpInv, Keeps, NoJumpBack
<1> QED BY <1>1, GuiInvSafe, PTL

\* However often and in whatever order the two automatic profiles are set, before or after
\* the commands have returned, the daemon ends up with both of the last choices, unless a
\* row did not show its own when the other was set (connect_selected_notify of auto_ac and
\* auto_batt).
THEOREM SidesKeptSafe == GuiSpec => []SidesKept
<1>1. GuiInv => SidesKept
  <2> SUFFICES ASSUME GuiInv, NEW c \in Side, c \notin disturbed,
                      \A i \in DOMAIN queue : c \notin DOMAIN queue[i]
               PROVE  held[c] = wished[c]
    BY DEF SidesKept
  <2>1. DOMAIN queue = 1..Len(queue) /\ Coming(c)
    BY DEF GuiInv, GuiType, SideInv
  <2> QED BY <2>1 DEF Coming, LastOf
<1> QED BY <1>1, GuiInvSafe, PTL
=============================================================================

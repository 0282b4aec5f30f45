------------------------- MODULE FanDemand_proofs ---------------------------
(***************************************************************************)
(* What is asked of the fan, for every temperature, curve and critical      *)
(* point: the ramp of a curve from one tick to the next; a duty of the      *)
(* tables that turns the fan as fast as firmware's would; and never less    *)
(* air for a warmer machine.  The last two follow from what the two         *)
(* measured boards' tables have in common (BoardsAscend), and hold of any   *)
(* board that has it.                                                       *)
(***************************************************************************)
EXTENDS CurveEngine, ThermalLimits, WellFoundedInduction, TLAPS

(* The ramp of a curve *)

Point == [celsius : Int, duty : Duty]

LEMMA SaturatedType ==
  ASSUME NEW x \in Int
  PROVE  Saturated(x) \in Duty
  BY DEF Saturated, Duty

LEMMA InterpolatedType ==
  ASSUME NEW a \in Point, NEW b \in Point, NEW c \in Int, a.celsius < b.celsius
  PROVE  Interpolated(a, b, c) \in Int
<1> DEFINE span == b.celsius - a.celsius
           rise == 2 * (c - a.celsius) * (b.duty - a.duty) + span
<1>1. a.celsius \in Int /\ b.celsius \in Int /\ a.duty \in Int /\ b.duty \in Int
  BY DEF Point, Duty
<1>2. span \in Nat \ {0}
  BY <1>1
<1>3. rise \in Int
  BY <1>1, <1>2
<1> HIDE DEF span, rise
<1>4. rise \div (2 * span) \in Int
  BY <1>2, <1>3
<1>5. a.duty + rise \div (2 * span) \in Int
  BY <1>1, <1>4
<1> QED BY <1>5 DEF Interpolated, span, rise

\* Whatever the points are, in order or not, the duty asked for is one.
LEMMA DutyAtType ==
  ASSUME NEW k \in Curves, NEW c \in Int
  PROVE  DutyAt(k, c) \in Duty
<1>1. /\ Len(k) \in Nat \ {0}
      /\ \A i \in 1..Len(k) : k[i] \in Point
  <2>1. k \in Seq(Point) /\ Len(k) \in Nat \ {0}
    BY CurveAssumption DEF Point
  <2> QED BY <2>1
<1>2. k[1].duty \in Duty /\ k[Len(k)].duty \in Duty
  BY <1>1 DEF Point
<1>3. CASE \E i \in 2..Len(k) : Between(k, i, c)
  <2> DEFINE i == CHOOSE j \in 2..Len(k) : Between(k, j, c)
  <2>1. i \in 2..Len(k) /\ Between(k, i, c)
    BY <1>3
  <2> HIDE DEF i
  <2>2. k[i] \in Point /\ k[i - 1] \in Point
    BY <1>1, <2>1
  <2>3. k[i - 1].celsius < k[i].celsius
    BY <2>1, <2>2 DEF Between, Point
  <2>4. Interpolated(k[i - 1], k[i], c) \in Int
    BY <2>2, <2>3, InterpolatedType
  <2>5. Saturated(Interpolated(k[i - 1], k[i], c)) \in Duty
    BY <2>4, SaturatedType
  <2> QED BY <1>2, <1>3, <2>5 DEF DutyAt, i
<1>4. CASE ~\E i \in 2..Len(k) : Between(k, i, c)
  BY <1>2, <1>4 DEF DutyAt
<1> QED BY <1>3, <1>4

\* One step of the ramp, from a duty or from none.
LEMMA RampStep ==
  ASSUME NEW from \in Duty \cup {NoCurveDuty}, NEW target \in Duty
  PROVE  /\ Stopped(Ramp(from, target), target) \in Duty
         /\ from \in Duty =>
              LET d == Stopped(Ramp(from, target), target)
              IN /\ d <= from + RAMP_UP_PER_TICK
                 /\ \/ d >= from - RAMP_DOWN_PER_TICK
                    \/ d = 0 /\ from < STICTION_DUTY + RAMP_DOWN_PER_TICK
<1>1. CASE from = NoCurveDuty
  <2>1. Ramp(from, target) = target
    BY <1>1 DEF Ramp
  <2>2. from \notin Duty
    BY <1>1, CurveAssumption
  <2> QED BY <2>1, <2>2 DEF Stopped, Duty, STICTION_DUTY
<1>2. CASE from # NoCurveDuty
  BY <1>2 DEF Ramp, Stopped, Duty, STICTION_DUTY, RAMP_UP_PER_TICK, RAMP_DOWN_PER_TICK
<1> QED BY <1>1, <1>2

LEMMA NextDutyStep ==
  ASSUME NEW from \in Duty \cup {NoCurveDuty}, NEW k \in Curves, NEW c \in Int
  PROVE  /\ NextDuty(from, k, c) \in Duty
         /\ from \in Duty =>
              /\ NextDuty(from, k, c) <= from + RAMP_UP_PER_TICK
              /\ \/ NextDuty(from, k, c) >= from - RAMP_DOWN_PER_TICK
                 \/ NextDuty(from, k, c) = 0 /\ from < STICTION_DUTY + RAMP_DOWN_PER_TICK
  BY DutyAtType, RampStep DEF NextDuty
-----------------------------------------------------------------------------
\* A tick works with the temperature of now or of an earlier tick.
LEMMA WorkingType ==
  ASSUME CurveTypeOK, celsius # NoCelsius
  PROVE  Working(working_c, celsius) \in CurveCelsius /\ celsius \in CurveCelsius
  BY DEF CurveTypeOK, Working

LEMMA CurveTypeStep == CurveTypeOK /\ [CurveNext]_curveVars => CurveTypeOK'
<1> SUFFICES ASSUME CurveTypeOK, [CurveNext]_curveVars
             PROVE  CurveTypeOK'
  OBVIOUS
<1> CurveCelsius \subseteq Int
  BY CurveAssumption
<1>1. CASE Follow
  <2>1. celsius \in CurveCelsius /\ curve' \in Curves
    BY <1>1, WorkingType DEF Follow
  <2>2. NextDuty(NoCurveDuty, curve', celsius) \in Duty
    BY <2>1, NextDutyStep
  <2> QED BY <1>1, <2>1, <2>2 DEF Follow, CurveTypeOK
<1>2. CASE EngineTick
  <2>1. working_c' \in CurveCelsius
    BY <1>2, WorkingType DEF EngineTick
  <2>2. last_duty' \in Duty
    BY <1>2, <2>1, NextDutyStep DEF EngineTick, CurveTypeOK
  <2>3. fresh' \in BOOLEAN
    BY <1>2 DEF EngineTick
  <2> QED BY <1>2, <2>1, <2>2, <2>3 DEF EngineTick, CurveTypeOK
<1>3. CASE EngineTickBlind \/ ResetRamp \/ ClearCurve \/ Weather
  BY <1>3 DEF EngineTickBlind, ResetRamp, ClearCurve, Weather, CurveTypeOK
<1>4. CASE \E k \in Curves : Swap(k)
  BY <1>4 DEF Swap, CurveTypeOK
<1>5. CASE UNCHANGED curveVars
  BY <1>5 DEF curveVars, CurveTypeOK
<1> QED BY <1>1, <1>2, <1>3, <1>4, <1>5 DEF CurveNext

\* The engine's state is of its types (CurveEngine, FanLease::curve).
THEOREM CurveTypeSafe == CurveSpec => []CurveTypeOK
<1>1. CurveInit => CurveTypeOK
  BY DEF CurveInit, CurveTypeOK
<1> QED BY <1>1, CurveTypeStep, PTL DEF CurveSpec

\* While one ramp lasts the request moves at most RAMP_UP_PER_TICK up and
\* RAMP_DOWN_PER_TICK down in a tick, but for the last step to a stop: through any
\* samples and any curves that replace each other (CurveEngine::tick, set_curve).
THEOREM RampSafe == CurveSpec => RampBounded
<1> DEFINE Bounded ==
      ~fresh' /\ last_duty \in Duty =>
        /\ last_duty' <= last_duty + RAMP_UP_PER_TICK
        /\ \/ last_duty' >= last_duty - RAMP_DOWN_PER_TICK
           \/ last_duty' = 0 /\ last_duty < STICTION_DUTY + RAMP_DOWN_PER_TICK
<1>1. CurveTypeOK /\ [CurveNext]_curveVars => [Bounded]_curveVars
  <2> SUFFICES ASSUME CurveTypeOK, CurveNext, ~fresh', last_duty \in Duty
               PROVE  /\ last_duty' <= last_duty + RAMP_UP_PER_TICK
                      /\ \/ last_duty' >= last_duty - RAMP_DOWN_PER_TICK
                         \/ last_duty' = 0 /\ last_duty < STICTION_DUTY + RAMP_DOWN_PER_TICK
    OBVIOUS
  <2>1. CASE EngineTick
    <3>1. working_c' \in Int /\ curve \in Curves
      BY <2>1, WorkingType, CurveAssumption DEF EngineTick, CurveTypeOK
    <3> QED BY <2>1, <3>1, NextDutyStep DEF EngineTick
  <2>2. CASE Weather \/ \E k \in Curves : Swap(k)
    BY <2>2 DEF Weather, Swap, Duty, RAMP_UP_PER_TICK, RAMP_DOWN_PER_TICK
  <2>3. CASE Follow \/ EngineTickBlind \/ ResetRamp \/ ClearCurve
    BY <2>3 DEF Follow, EngineTickBlind, ResetRamp, ClearCurve
  <2> QED BY <2>1, <2>2, <2>3 DEF CurveNext
<1>2. [][CurveNext]_curveVars /\ []CurveTypeOK => RampBounded
  BY <1>1, PTL DEF RampBounded
<1> QED BY <1>2, CurveTypeSafe, PTL DEF CurveSpec

(* Division *)

\* The quotient and its remainder.
LEMMA DivFacts ==
  ASSUME NEW a \in Int, NEW b \in Nat \ {0}
  PROVE  /\ a \div b \in Int
         /\ b * (a \div b) <= a
         /\ a < b * (a \div b) + b
  OBVIOUS

\* The quotient is the largest number that fits.
LEMMA DivAtLeast ==
  ASSUME NEW a \in Int, NEW b \in Nat \ {0}, NEW q \in Int, b * q <= a
  PROVE  q <= a \div b
<1> DEFINE d == a \div b
<1>1. d \in Int /\ a < b * d + b
  BY DivFacts
<1> HIDE DEF d
<1>2. b * q < b * (d + 1)
  BY <1>1
<1>3. q < d + 1
  BY <1>1, <1>2
<1> QED BY <1>1, <1>3 DEF d

\* The quotient does not pass what it falls short of.
LEMMA DivAtMost ==
  ASSUME NEW a \in Int, NEW b \in Nat \ {0}, NEW q \in Int, a < b * q + b
  PROVE  a \div b <= q
<1> DEFINE d == a \div b
<1>1. d \in Int /\ b * d <= a
  BY DivFacts
<1> HIDE DEF d
<1>2. b * d < b * (q + 1)
  BY <1>1
<1>3. d < q + 1
  BY <1>1, <1>2
<1> QED BY <1>1, <1>3 DEF d

LEMMA DivMonotone ==
  ASSUME NEW a \in Int, NEW c \in Int, a <= c, NEW b \in Nat \ {0}
  PROVE  a \div b <= c \div b
<1>1. a \div b \in Int /\ b * (a \div b) <= c
  BY DivFacts
<1> QED BY <1>1, DivAtLeast

\* Rounding up.
LEMMA CeilDivFacts ==
  ASSUME NEW a \in Int, NEW b \in Nat \ {0}
  PROVE  CeilDiv(a, b) \in Int /\ a <= b * CeilDiv(a, b)
<1> DEFINE d == (a + b - 1) \div b
<1>1. d \in Int /\ a + b - 1 < b * d + b
  BY DivFacts
<1> HIDE DEF d
<1> QED BY <1>1 DEF CeilDiv, d

LEMMA CeilDivAtMost ==
  ASSUME NEW a \in Int, NEW b \in Nat \ {0}, NEW q \in Int, a <= b * q
  PROVE  CeilDiv(a, b) <= q
<1>1. a + b - 1 \in Int /\ a + b - 1 < b * q + b
  OBVIOUS
<1> QED BY <1>1, DivAtMost DEF CeilDiv

LEMMA CeilDivMonotone ==
  ASSUME NEW a \in Int, NEW c \in Int, a <= c, NEW b \in Nat \ {0}
  PROVE  CeilDiv(a, b) <= CeilDiv(c, b)
  BY DivMonotone DEF CeilDiv

LEMMA Products ==
  ASSUME NEW a \in Int, NEW b \in Int, a <= b, NEW k \in Nat
  PROVE  a * k <= b * k /\ k * a <= k * b
  OBVIOUS
-----------------------------------------------------------------------------
(* Tables *)

\* Column 1 rises, and column 2 does not fall.
Ascending(t) ==
  /\ t \in Seq(Int \X Int) /\ Len(t) >= 2
  /\ \A i, j \in DOMAIN t : i < j => t[i][1] < t[j][1] /\ t[i][2] <= t[j][2]

\* What a table is made of.
LEMMA TableFacts ==
  ASSUME NEW t, Ascending(t)
  PROVE  /\ Len(t) \in Nat /\ Len(t) >= 2 /\ DOMAIN t = 1..Len(t)
         /\ \A i \in 1..Len(t) : t[i][1] \in Int /\ t[i][2] \in Int
         /\ \A i, j \in 1..Len(t) : i < j => t[i][1] < t[j][1] /\ t[i][2] <= t[j][2]
  BY DEF Ascending

\* A column keeps the order of the places, however far apart.
LEMMA TableOrder ==
  ASSUME NEW t, Ascending(t), NEW i \in 1..Len(t), NEW j \in 1..Len(t), i <= j
  PROVE  t[i][1] <= t[j][1] /\ t[i][2] <= t[j][2]
<1>1. CASE i = j
  BY <1>1, TableFacts
<1>2. CASE i < j
  BY <1>2, TableFacts
<1> QED BY <1>1, <1>2, TableFacts

\* The ends of a segment.
LEMMA SegmentEnds ==
  ASSUME NEW t, Ascending(t), NEW i \in 2..Len(t)
  PROVE  /\ i - 1 \in 1..Len(t) /\ i \in 1..Len(t)
         /\ t[i - 1][1] \in Int /\ t[i][1] \in Int /\ t[i - 1][1] < t[i][1]
         /\ t[i - 1][2] \in Int /\ t[i][2] \in Int /\ t[i - 1][2] <= t[i][2]
<1>1. i - 1 \in 1..Len(t) /\ i \in 1..Len(t) /\ i - 1 < i
  BY TableFacts
<1> QED BY <1>1, TableFacts

\* Fan tables begin at rest and end within what a duty is.
FanTable(t) ==
  /\ Ascending(t) /\ t[1][1] = 0 /\ t[1][2] = 0
  /\ t[Len(t)][1] <= 255 /\ 0 < t[Len(t)][2] /\ t[Len(t)][2] <= MaxRpm

\* Firmware's curve begins at rest too, and ends below the temperature of full duty, at a
\* speed the fan has.
Sound(p) ==
  /\ Ascending(p.firmware_curve) /\ FanTable(p.duty_rpm)
  /\ p.firmware_curve[1][2] = 0
  /\ p.firmware_curve[Len(p.firmware_curve)][1] < FULL_DUTY_ABOVE_C
  /\ p.firmware_curve[Len(p.firmware_curve)][2] <= p.duty_rpm[Len(p.duty_rpm)][2]

\* Both measured boards are so (board.rs).
LEMMA BoardsAscend == \A p \in PROFILES : Sound(p)
<1>1. Sound(INTEL_CORE_ULTRA_3)
  BY SMTT(30) DEF Sound, FanTable, Ascending, INTEL_CORE_ULTRA_3, FULL_DUTY_ABOVE_C, MaxRpm
<1>2. Sound(AMD_RYZEN_AI_300)
  BY SMTT(30) DEF Sound, FanTable, Ascending, AMD_RYZEN_AI_300, FULL_DUTY_ABOVE_C, MaxRpm
<1> QED BY <1>1, <1>2 DEF PROFILES

\* A set of natural numbers has a least one.
LEMMA LeastIndex ==
  ASSUME NEW S, S \subseteq Nat, S # {}
  PROVE  \E i \in S : \A j \in S : i <= j
<1>1. PICK i \in S : \A j \in S : <<j, i>> \notin OpToRel(<, Nat)
  BY NatLessThanWellFounded, WFMin
<1>2. \A j \in S : ~(j < i)
  BY <1>1 DEF OpToRel
<1> QED BY <1>2

\* Where x falls between the ends of a column there is a first segment that reaches it,
\* and it begins below x.
LEMMA SegmentFacts ==
  ASSUME NEW t, Ascending(t), NEW n \in {1, 2}, NEW x \in Int,
         t[1][n] < x \/ (n = 1 /\ t[1][n] = x), x <= t[Len(t)][n]
  PROVE  LET i == Segment(t, n, x)
         IN /\ i \in 2..Len(t) /\ x <= t[i][n]
            /\ t[i - 1][n] < x \/ (i = 2 /\ t[1][n] = x)
            /\ \A j \in 2..(i - 1) : x > t[j][n]
<1> DEFINE S == {i \in 2..Len(t) : x <= t[i][n]}
<1>1. Len(t) \in Nat /\ DOMAIN t = 1..Len(t) /\ \A i \in 1..Len(t) : t[i][n] \in Int
  BY DEF Ascending
<1>2. S \subseteq Nat /\ Len(t) \in S
  BY <1>1 DEF Ascending
<1>3. PICK i \in S : \A j \in S : i <= j
  BY <1>2, LeastIndex
<1>4. \A j \in 2..(i - 1) : x > t[j][n]
  BY <1>1, <1>3
<1>5. /\ Segment(t, n, x) \in 2..Len(t) /\ x <= t[Segment(t, n, x)][n]
      /\ \A j \in 2..(Segment(t, n, x) - 1) : x > t[j][n]
  BY <1>3, <1>4 DEF Segment
<1> DEFINE s == Segment(t, n, x)
<1> HIDE DEF s
<1>6. /\ s \in 2..Len(t) /\ x <= t[s][n]
      /\ \A j \in 2..(s - 1) : x > t[j][n]
  BY <1>5 DEF s
<1>7. t[s - 1][n] < x \/ (s = 2 /\ t[1][n] = x)
  BY <1>1, <1>6
<1> QED BY <1>6, <1>7 DEF s

\* It is the only one.
LEMMA SegmentIs ==
  ASSUME NEW t, Ascending(t), NEW x \in Int, NEW i \in 2..Len(t),
         t[i - 1][1] < x, x <= t[i][1]
  PROVE  Segment(t, 1, x) = i
<1>1. Len(t) \in Nat /\ DOMAIN t = 1..Len(t) /\ \A j \in 1..Len(t) : t[j][1] \in Int
  BY DEF Ascending
<1>2. \A j, k \in 1..Len(t) : j < k => t[j][1] < t[k][1]
  BY <1>1 DEF Ascending
<1>3. \A j \in 2..(i - 1) : x > t[j][1]
  <2> SUFFICES ASSUME NEW j \in 2..(i - 1) PROVE x > t[j][1]
    OBVIOUS
  <2>1. t[j][1] <= t[i - 1][1]
    BY <1>1, <1>2
  <2> QED BY <1>1, <2>1
<1>4. \A k \in 2..Len(t) : x <= t[k][1] /\ (\A j \in 2..(k - 1) : x > t[j][1]) => k = i
  <2> SUFFICES ASSUME NEW k \in 2..Len(t), x <= t[k][1],
                      \A j \in 2..(k - 1) : x > t[j][1], k # i
               PROVE  FALSE
    OBVIOUS
  <2>1. CASE k < i
    BY <1>1, <1>3, <2>1
  <2>2. CASE i < k
    BY <1>1, <2>2
  <2> QED BY <1>1, <2>1, <2>2
<1>5. /\ Segment(t, 1, x) \in 2..Len(t) /\ x <= t[Segment(t, 1, x)][1]
      /\ \A j \in 2..(Segment(t, 1, x) - 1) : x > t[j][1]
  BY <1>3 DEF Segment
<1> QED BY <1>4, <1>5
-----------------------------------------------------------------------------
(* Speed to duty, and duty to speed *)

\* A line stays between its ends.
LEMMA LerpFacts ==
  ASSUME NEW a \in Int, NEW b \in Int, a <= b, NEW den \in Nat \ {0}, NEW num \in 0..den
  PROVE  Lerp(a, b, num, den) \in Int /\ a <= Lerp(a, b, num, den) /\ Lerp(a, b, num, den) <= b
<1>1. (b - a) * num \in Int /\ 0 <= (b - a) * num
  OBVIOUS
<1>2. (b - a) * num <= (b - a) * den
  BY Products
<1>3. ((b - a) * num) \div den \in Int
  BY <1>1, DivFacts
<1>4. 0 <= ((b - a) * num) \div den
  BY <1>1, DivAtLeast
<1>5. ((b - a) * num) \div den <= b - a
  BY <1>1, <1>2, DivAtMost
<1> QED BY <1>3, <1>4, <1>5 DEF Lerp

\* Interpolation keeps order within a segment.
LEMMA LerpMonotone ==
  ASSUME NEW a \in Int, NEW b \in Int, a <= b, NEW den \in Nat \ {0},
         NEW m \in Int, NEW n \in Int, m <= n
  PROVE  Lerp(a, b, m, den) <= Lerp(a, b, n, den)
<1>1. (b - a) * m \in Int /\ (b - a) * n \in Int /\ (b - a) * m <= (b - a) * n
  BY Products
<1>2. ((b - a) * m) \div den <= ((b - a) * n) \div den
  BY <1>1, DivMonotone
<1>3. ((b - a) * m) \div den \in Int /\ ((b - a) * n) \div den \in Int
  BY <1>1, DivFacts
<1> QED BY <1>2, <1>3 DEF Lerp

LEMMA FanTableFacts ==
  ASSUME NEW t, FanTable(t)
  PROVE  /\ Ascending(t) /\ t[1][1] = 0 /\ t[1][2] = 0
         /\ t[Len(t)][1] \in Nat /\ t[Len(t)][1] <= 255
         /\ t[Len(t)][2] \in Nat /\ 0 < t[Len(t)][2] /\ t[Len(t)][2] <= MaxRpm
<1>1. /\ Ascending(t) /\ t[1][1] = 0 /\ t[1][2] = 0
      /\ t[Len(t)][1] <= 255 /\ 0 < t[Len(t)][2] /\ t[Len(t)][2] <= MaxRpm
  BY Zenon DEF FanTable
<1>2. /\ t[Len(t)][1] \in Int /\ t[1][1] < t[Len(t)][1]
      /\ t[Len(t)][2] \in Int
  BY <1>1, TableFacts
<1>3. t[Len(t)][1] \in Nat /\ t[Len(t)][2] \in Nat
  BY <1>1, <1>2
<1> QED BY <1>1, <1>3

\* The duty of a speed the table reaches lies in the speed's own segment, past its
\* beginning, and far enough to make up for the rounding.
LEMMA DutyInSegment ==
  ASSUME NEW t, FanTable(t), NEW rpm \in Int, 0 < rpm, rpm < t[Len(t)][2]
  PROVE  LET i == Segment(t, 2, rpm)
             d == DutyForRpm(t, rpm)
         IN /\ i \in 2..Len(t) /\ t[i - 1][2] < rpm /\ rpm <= t[i][2]
            /\ d \in Int /\ t[i - 1][1] < d /\ d <= t[i][1]
            /\ (rpm - t[i - 1][2]) * (t[i][1] - t[i - 1][1])
                 <= (t[i][2] - t[i - 1][2]) * (d - t[i - 1][1])
<1>0. Ascending(t) /\ t[1][2] = 0 /\ t[1][2] < rpm
  BY FanTableFacts
<1> DEFINE i == Segment(t, 2, rpm)
<1>1. i \in 2..Len(t) /\ rpm <= t[i][2] /\ t[i - 1][2] < rpm
  BY <1>0, SegmentFacts, TableFacts
<1> HIDE DEF i
<1> DEFINE x0 == t[i - 1][1]
           x1 == t[i][1]
           y0 == t[i - 1][2]
           y1 == t[i][2]
<1>2. x0 \in Int /\ x1 \in Int /\ y0 \in Int /\ y1 \in Int /\ x0 < x1 /\ y0 < rpm /\ rpm <= y1
  BY <1>0, <1>1, TableFacts
<1> DEFINE e == CeilDiv((rpm - y0) * (x1 - x0), y1 - y0)
           d == DutyForRpm(t, rpm)
<1>3. d = x0 + e
  BY <1>0, TableFacts DEF DutyForRpm, i
<1> HIDE DEF x0, x1, y0, y1, d
<1>4. (rpm - y0) * (x1 - x0) \in Int /\ y1 - y0 \in Nat \ {0}
  BY <1>2
<1>5. e \in Int /\ (rpm - y0) * (x1 - x0) <= (y1 - y0) * e
  BY <1>4, CeilDivFacts
<1>6. e <= x1 - x0
  <2>0. /\ rpm - y0 \in Int /\ y1 - y0 \in Int /\ rpm - y0 <= y1 - y0
        /\ x1 - x0 \in Nat
    BY <1>2
  <2>1. (rpm - y0) * (x1 - x0) <= (y1 - y0) * (x1 - x0)
    BY <2>0, Products
  <2> QED BY <1>2, <1>4, <2>1, CeilDivAtMost
<1>7. 0 < e
  <2>1. 0 < (rpm - y0) * (x1 - x0)
    BY <1>2
  <2> HIDE DEF e
  <2>2. 0 < (y1 - y0) * e
    BY <1>4, <1>5, <2>1
  <2> QED BY <1>4, <1>5, <2>2
<1> HIDE DEF e
<1>8. /\ d \in Int /\ x0 < d /\ d <= x1
      /\ (rpm - y0) * (x1 - x0) <= (y1 - y0) * (d - x0)
  <2>1. d - x0 = e
    BY <1>2, <1>3, <1>5
  <2> QED BY <1>2, <1>3, <1>5, <1>6, <1>7, <2>1
<1> QED BY <1>1, <1>8 DEF i, d, x0, x1, y0, y1

\* The duty that is chosen for a speed turns the fan at least that fast.
LEMMA DutyReaches ==
  ASSUME NEW t, FanTable(t), NEW rpm \in Nat
  PROVE  LET d == DutyForRpm(t, rpm) IN d = 255 \/ RpmOf(t, d) >= rpm
<1>0. Ascending(t) /\ t[1][1] = 0 /\ t[1][2] = 0 /\ t[Len(t)][2] \in Nat
  BY FanTableFacts
<1>1. CASE rpm = 0
  <2>1. DutyForRpm(t, rpm) = 0
    BY <1>1 DEF DutyForRpm
  <2>2. t[Len(t)][1] > 0
    BY <1>0, TableFacts
  <2> DEFINE i == Segment(t, 1, 0)
  <2>3. i = 2
    <3>1. (i \in 2..Len(t) /\ t[i - 1][1] < 0) \/ i = 2
      BY <1>0, <2>2, SegmentFacts, TableFacts
    <3> QED BY <1>0, <3>1, TableFacts
  <2> DEFINE x == t[2][1]
             y == t[2][2]
  <2>4. x \in Nat \ {0} /\ y \in Int /\ 0 <= y /\ 0 \in 0..x
    BY <1>0, TableFacts
  <2>5. RpmOf(t, 0) = Lerp(t[2 - 1][2], y, 0 - t[2 - 1][1], x - t[2 - 1][1])
    BY <1>0, <2>2, <2>3, TableFacts DEF RpmOf
  <2> HIDE DEF x, y
  <2>6. Lerp(0, y, 0, x) >= 0
    BY <2>4, LerpFacts
  <2>7. 2 - 1 = 1 /\ 0 - 0 = 0 /\ x - 0 = x
    BY <2>4
  <2>8. RpmOf(t, 0) = Lerp(0, y, 0, x)
    BY <1>0, <2>5, <2>7
  <2> QED BY <1>1, <2>1, <2>6, <2>8
<1>2. CASE rpm >= t[Len(t)][2]
  BY <1>1, <1>2 DEF DutyForRpm
<1>3. CASE 0 < rpm /\ rpm < t[Len(t)][2]
  <2> DEFINE d == DutyForRpm(t, rpm)
             i == Segment(t, 2, rpm)
  <2>1. /\ i \in 2..Len(t) /\ t[i - 1][2] < rpm /\ rpm <= t[i][2]
        /\ d \in Int /\ t[i - 1][1] < d /\ d <= t[i][1]
        /\ (rpm - t[i - 1][2]) * (t[i][1] - t[i - 1][1])
             <= (t[i][2] - t[i - 1][2]) * (d - t[i - 1][1])
    BY <1>3, DutyInSegment
  <2> HIDE DEF d, i
  <2> DEFINE x0 == t[i - 1][1]
             x1 == t[i][1]
             y0 == t[i - 1][2]
             y1 == t[i][2]
  <2>2. /\ x0 \in Int /\ x1 \in Int /\ y0 \in Int /\ y1 \in Int /\ x0 < x1
        /\ t[Len(t)][1] \in Int
    BY <1>0, <2>1, TableFacts
  <2>3. CASE d >= t[Len(t)][1]
    <3>1. RpmOf(t, d) = t[Len(t)][2]
      BY <2>3 DEF RpmOf
    <3> QED BY <1>0, <1>3, <3>1 DEF d
  <2>4. CASE ~(d >= t[Len(t)][1])
    <3>1. Segment(t, 1, d) = i
      BY <1>0, <2>1, SegmentIs
    <3>2. RpmOf(t, d) = Lerp(y0, y1, d - x0, x1 - x0)
      BY <2>4, <3>1 DEF RpmOf
    <3>6. /\ y0 < rpm /\ rpm <= y1 /\ x0 < d /\ d <= x1
          /\ (rpm - y0) * (x1 - x0) <= (y1 - y0) * (d - x0)
      BY <2>1
    <3> HIDE DEF x0, x1, y0, y1
    <3>7. (x1 - x0) * (rpm - y0) <= (y1 - y0) * (d - x0)
      BY <2>1, <2>2, <3>6
    <3>3. (y1 - y0) * (d - x0) \in Int /\ x1 - x0 \in Nat \ {0} /\ rpm - y0 \in Int
      BY <2>1, <2>2
    <3>4. rpm - y0 <= ((y1 - y0) * (d - x0)) \div (x1 - x0)
      BY <3>3, <3>7, DivAtLeast
    <3>5. ((y1 - y0) * (d - x0)) \div (x1 - x0) \in Int
      BY <3>3, DivFacts
    <3> QED BY <2>2, <3>2, <3>4, <3>5 DEF Lerp, d
  <2> QED BY <2>3, <2>4
<1> QED BY <1>0, <1>1, <1>2, <1>3
-----------------------------------------------------------------------------
(* Temperature to speed *)

\* A table is flat up to its first point, and from there on its segments'.
TableAt(t, x) ==
  IF x <= t[1][1] THEN t[1][2]
  ELSE LET i == Segment(t, 1, x)
       IN Lerp(t[i - 1][2], t[i][2], x - t[i - 1][1], t[i][1] - t[i - 1][1])

LEMMA TableAtFacts ==
  ASSUME NEW t, Ascending(t), NEW x \in Int, x <= t[Len(t)][1], t[1][1] < x
  PROVE  LET i == Segment(t, 1, x)
         IN /\ i \in 2..Len(t) /\ t[i - 1][1] < x /\ x <= t[i][1]
            /\ TableAt(t, x) \in Int
            /\ t[i - 1][2] <= TableAt(t, x) /\ TableAt(t, x) <= t[i][2]
<1> DEFINE i == Segment(t, 1, x)
<1>1. i \in 2..Len(t) /\ x <= t[i][1] /\ t[i - 1][1] < x
  BY SegmentFacts, TableFacts
<1>2. ~(x <= t[1][1])
  BY TableFacts
<1>3. TableAt(t, x) = Lerp(t[i - 1][2], t[i][2], x - t[i - 1][1], t[i][1] - t[i - 1][1])
  BY <1>2 DEF TableAt
<1> HIDE DEF i
<1>4. /\ t[i - 1][2] \in Int /\ t[i][2] \in Int /\ t[i - 1][2] <= t[i][2]
      /\ t[i - 1][1] \in Int /\ t[i][1] \in Int
  BY <1>1, SegmentEnds
<1> DEFINE from == t[i - 1][1]
           to == t[i][1]
<1>5. from \in Int /\ to \in Int /\ from < x /\ x <= to
  BY <1>1, <1>4
<1> HIDE DEF from, to
<1>6. to - from \in Nat \ {0} /\ x - from \in 0..(to - from)
  BY <1>5
<1>7. /\ Lerp(t[i - 1][2], t[i][2], x - from, to - from) \in Int
      /\ t[i - 1][2] <= Lerp(t[i - 1][2], t[i][2], x - from, to - from)
      /\ Lerp(t[i - 1][2], t[i][2], x - from, to - from) <= t[i][2]
  BY <1>4, <1>6, LerpFacts
<1> QED BY <1>1, <1>3, <1>7 DEF i, from, to

\* A value of a table lies between the ends of its column.
LEMMA TableRange ==
  ASSUME NEW t, Ascending(t), NEW x \in Int, x <= t[Len(t)][1]
  PROVE  /\ TableAt(t, x) \in Int
         /\ t[1][2] <= TableAt(t, x) /\ TableAt(t, x) <= t[Len(t)][2]
<1>1. CASE x <= t[1][1]
  BY <1>1, TableFacts DEF TableAt
<1>2. CASE ~(x <= t[1][1])
  <2> DEFINE i == Segment(t, 1, x)
  <2>0. t[1][1] < x
    BY <1>2, TableFacts
  <2>1. /\ i \in 2..Len(t) /\ TableAt(t, x) \in Int
        /\ t[i - 1][2] <= TableAt(t, x) /\ TableAt(t, x) <= t[i][2]
    BY <2>0, TableAtFacts
  <2> HIDE DEF i
  <2>2. /\ 1 \in 1..Len(t) /\ i - 1 \in 1..Len(t) /\ 1 <= i - 1
        /\ i \in 1..Len(t) /\ Len(t) \in 1..Len(t) /\ i <= Len(t)
    BY <2>1, TableFacts
  <2>3. t[1][2] <= t[i - 1][2] /\ t[i][2] <= t[Len(t)][2]
    BY <2>2, TableOrder
  <2> QED BY <2>1, <2>2, <2>3, TableFacts
<1> QED BY <1>1, <1>2

\* It never falls.
LEMMA TableMonotone ==
  ASSUME NEW t, Ascending(t), NEW x \in Int, NEW y \in Int, x <= y, y <= t[Len(t)][1]
  PROVE  TableAt(t, x) <= TableAt(t, y)
<1>0. t[Len(t)][1] \in Int /\ t[1][1] \in Int /\ t[1][2] \in Int
  BY TableFacts
<1>1. x <= t[Len(t)][1]
  BY <1>0
<1>2. CASE x <= t[1][1]
  BY <1>2, TableRange DEF TableAt
<1>3. CASE ~(x <= t[1][1])
  <2>0. t[1][1] < x /\ t[1][1] < y
    BY <1>0, <1>3
  <2> DEFINE i == Segment(t, 1, x)
             j == Segment(t, 1, y)
  <2>1. /\ i \in 2..Len(t) /\ t[i - 1][1] < x /\ x <= t[i][1]
        /\ TableAt(t, x) \in Int /\ TableAt(t, x) <= t[i][2]
    BY <1>1, <2>0, TableAtFacts
  <2>2. /\ j \in 2..Len(t) /\ t[j - 1][1] < y /\ y <= t[j][1]
        /\ TableAt(t, y) \in Int /\ t[j - 1][2] <= TableAt(t, y)
    BY <2>0, TableAtFacts
  <2>3. CASE i = j
    <3>1. /\ TableAt(t, x) = Lerp(t[i - 1][2], t[i][2], x - t[i - 1][1], t[i][1] - t[i - 1][1])
          /\ TableAt(t, y) = Lerp(t[i - 1][2], t[i][2], y - t[i - 1][1], t[i][1] - t[i - 1][1])
      BY <1>0, <2>0, <2>3 DEF TableAt
    <3> HIDE DEF i, j
    <3>2. /\ t[i - 1][2] \in Int /\ t[i][2] \in Int /\ t[i - 1][2] <= t[i][2]
          /\ t[i - 1][1] \in Int /\ t[i][1] \in Int /\ t[i - 1][1] < t[i][1]
      BY <2>1, SegmentEnds
    <3> DEFINE from == t[i - 1][1]
               to == t[i][1]
    <3>3. from \in Int /\ to \in Int /\ from < to
      BY <3>2
    <3> HIDE DEF from, to
    <3>4. to - from \in Nat \ {0}
      BY <3>3
    <3>5. x - from \in Int /\ y - from \in Int /\ x - from <= y - from
      BY <3>3
    <3>6. Lerp(t[i - 1][2], t[i][2], x - from, to - from)
            <= Lerp(t[i - 1][2], t[i][2], y - from, to - from)
      BY <3>2, <3>4, <3>5, LerpMonotone
    <3> QED BY <3>1, <3>6 DEF from, to
  <2> HIDE DEF i, j
  <2>4. CASE i < j
    <3>0. i \in 1..Len(t) /\ j - 1 \in 1..Len(t) /\ i <= j - 1
      BY <2>1, <2>2, <2>4, TableFacts
    <3>1. t[i][2] <= t[j - 1][2] /\ t[i][2] \in Int /\ t[j - 1][2] \in Int
      BY <3>0, TableOrder, TableFacts
    <3> QED BY <2>1, <2>2, <3>1
  <2>5. CASE j < i
    <3>1. t[j][1] \in Int /\ t[i - 1][1] \in Int
      BY <2>1, <2>2, SegmentEnds
    <3>2. j \in 1..Len(t) /\ i - 1 \in 1..Len(t) /\ j <= i - 1
      BY <2>1, <2>2, <2>5, TableFacts
    <3>3. t[j][1] <= t[i - 1][1]
      BY <3>2, TableOrder
    <3> QED BY <2>1, <2>2, <3>1, <3>3
  <2>6. i \in Int /\ j \in Int
    BY <2>1, <2>2
  <2> QED BY <2>3, <2>4, <2>5, <2>6 DEF i, j
<1> QED BY <1>2, <1>3

\* Past the end of firmware's curve the line goes on to the fan's top speed.
Beyond(p, x) ==
  LET end == p.firmware_curve[Len(p.firmware_curve)]
  IN Lerp(end[2], p.duty_rpm[Len(p.duty_rpm)][2], x - end[1], FULL_DUTY_ABOVE_C - end[1])

Readable(c) == c \in Int /\ c # NoReading

\* Within the table or below it, past its end, and past the temperature of full duty.
LEMMA RpmCases ==
  ASSUME NEW p, Sound(p), NEW c, Readable(c)
  PROVE  LET last == p.firmware_curve[Len(p.firmware_curve)][1]
         IN /\ last \in Int /\ last < FULL_DUTY_ABOVE_C
            /\ c >= FULL_DUTY_ABOVE_C => InterpolateRpm(p, c) = MaxRpm
            /\ c < FULL_DUTY_ABOVE_C /\ c > last => InterpolateRpm(p, c) = Beyond(p, c)
            /\ c <= last => InterpolateRpm(p, c) = TableAt(p.firmware_curve, c)
<1> DEFINE last == p.firmware_curve[Len(p.firmware_curve)][1]
<1>1. last \in Int /\ last < FULL_DUTY_ABOVE_C /\ FULL_DUTY_ABOVE_C \in Int
  BY TableFacts DEF Sound, FULL_DUTY_ABOVE_C
<1>2. c \in Int /\ c # NoReading
  BY DEF Readable
<1>3. ASSUME c >= FULL_DUTY_ABOVE_C PROVE InterpolateRpm(p, c) = MaxRpm
  BY <1>3 DEF InterpolateRpm
<1>4. ASSUME ~(c >= FULL_DUTY_ABOVE_C), c > last PROVE InterpolateRpm(p, c) = Beyond(p, c)
  BY <1>2, <1>4 DEF InterpolateRpm, Beyond
<1>5. ASSUME ~(c >= FULL_DUTY_ABOVE_C), ~(c > last)
      PROVE  InterpolateRpm(p, c) = TableAt(p.firmware_curve, c)
  BY <1>2, <1>5 DEF InterpolateRpm, TableAt
<1> HIDE DEF last
<1>6. /\ c < FULL_DUTY_ABOVE_C => ~(c >= FULL_DUTY_ABOVE_C)
      /\ c <= last => ~(c > last) /\ ~(c >= FULL_DUTY_ABOVE_C)
  BY <1>1, <1>2
<1> QED BY <1>1, <1>3, <1>4, <1>5, <1>6 DEF last

LEMMA BeyondFacts ==
  ASSUME NEW p, Sound(p), NEW x \in Int, x <= FULL_DUTY_ABOVE_C,
         x >= p.firmware_curve[Len(p.firmware_curve)][1]
  PROVE  /\ Beyond(p, x) \in Int
         /\ p.firmware_curve[Len(p.firmware_curve)][2] <= Beyond(p, x)
         /\ Beyond(p, x) <= p.duty_rpm[Len(p.duty_rpm)][2]
<1> DEFINE last == p.firmware_curve[Len(p.firmware_curve)][1]
           speed == p.firmware_curve[Len(p.firmware_curve)][2]
           top == p.duty_rpm[Len(p.duty_rpm)][2]
<1>1. last \in Int /\ speed \in Int /\ last < FULL_DUTY_ABOVE_C /\ FULL_DUTY_ABOVE_C \in Int
  BY TableFacts DEF Sound, FULL_DUTY_ABOVE_C
<1>2. top \in Int /\ speed <= top
  BY FanTableFacts DEF Sound
<1>3. Beyond(p, x) = Lerp(speed, top, x - last, FULL_DUTY_ABOVE_C - last)
  BY DEF Beyond
<1>4. x >= last
  OBVIOUS
<1> HIDE DEF last, speed, top
<1>5. FULL_DUTY_ABOVE_C - last \in Nat \ {0} /\ x - last \in 0..(FULL_DUTY_ABOVE_C - last)
  BY <1>1, <1>4
<1> QED BY <1>1, <1>2, <1>3, <1>5, LerpFacts DEF speed, top

LEMMA BeyondMonotone ==
  ASSUME NEW p, Sound(p), NEW x \in Int, NEW y \in Int, x <= y
  PROVE  Beyond(p, x) <= Beyond(p, y)
<1> DEFINE last == p.firmware_curve[Len(p.firmware_curve)][1]
           speed == p.firmware_curve[Len(p.firmware_curve)][2]
           top == p.duty_rpm[Len(p.duty_rpm)][2]
<1>1. last \in Int /\ speed \in Int /\ last < FULL_DUTY_ABOVE_C /\ FULL_DUTY_ABOVE_C \in Int
  BY TableFacts DEF Sound, FULL_DUTY_ABOVE_C
<1>2. top \in Int /\ speed <= top
  BY FanTableFacts DEF Sound
<1>3. /\ Beyond(p, x) = Lerp(speed, top, x - last, FULL_DUTY_ABOVE_C - last)
      /\ Beyond(p, y) = Lerp(speed, top, y - last, FULL_DUTY_ABOVE_C - last)
  BY DEF Beyond
<1> HIDE DEF last, speed, top
<1>4. /\ FULL_DUTY_ABOVE_C - last \in Nat \ {0}
      /\ x - last \in Int /\ y - last \in Int /\ x - last <= y - last
  BY <1>1
<1> QED BY <1>1, <1>2, <1>3, <1>4, LerpMonotone

\* The speed firmware would run the fan at is a speed, whatever the temperature.
LEMMA RpmType ==
  ASSUME NEW p, Sound(p), NEW c, Readable(c)
  PROVE  InterpolateRpm(p, c) \in Nat /\ InterpolateRpm(p, c) <= MaxRpm
<1> DEFINE t == p.firmware_curve
           last == t[Len(t)][1]
           top == p.duty_rpm[Len(p.duty_rpm)][2]
<1>1. /\ Ascending(t) /\ t[1][2] = 0 /\ t[Len(t)][2] <= top
      /\ top \in Nat /\ top <= MaxRpm /\ MaxRpm \in Nat
  BY FanTableFacts DEF Sound, MaxRpm
<1>2. /\ last \in Int /\ c \in Int /\ FULL_DUTY_ABOVE_C \in Int
      /\ t[Len(t)][2] \in Int /\ 0 <= t[Len(t)][2]
  BY <1>1, TableFacts DEF Readable, FULL_DUTY_ABOVE_C
<1>3. CASE c >= FULL_DUTY_ABOVE_C
  BY <1>1, <1>3, RpmCases
<1>4. CASE c < FULL_DUTY_ABOVE_C /\ c > last
  <2>1. InterpolateRpm(p, c) = Beyond(p, c)
    BY <1>4, RpmCases
  <2>2. c <= FULL_DUTY_ABOVE_C /\ c >= last
    BY <1>2, <1>4
  <2>3. Beyond(p, c) \in Int /\ t[Len(t)][2] <= Beyond(p, c) /\ Beyond(p, c) <= top
    BY <1>2, <2>2, BeyondFacts
  <2> HIDE DEF t, top
  <2> QED BY <1>1, <1>2, <2>1, <2>3
<1>5. CASE c <= last
  <2>1. InterpolateRpm(p, c) = TableAt(t, c)
    BY <1>5, RpmCases
  <2>2. TableAt(t, c) \in Int /\ t[1][2] <= TableAt(t, c) /\ TableAt(t, c) <= t[Len(t)][2]
    BY <1>1, <1>2, <1>5, TableRange
  <2> HIDE DEF t, top
  <2> QED BY <1>1, <1>2, <2>1, <2>2
<1> HIDE DEF last
<1> QED BY <1>2, <1>3, <1>4, <1>5

\* And it does not fall as the machine gets warmer.
LEMMA RpmMonotone ==
  ASSUME NEW p, Sound(p), NEW c, Readable(c), NEW d, Readable(d), c <= d
  PROVE  InterpolateRpm(p, c) <= InterpolateRpm(p, d)
<1> DEFINE t == p.firmware_curve
           last == t[Len(t)][1]
<1>1. Ascending(t)
  BY DEF Sound
<1>2. /\ last \in Int /\ c \in Int /\ d \in Int /\ FULL_DUTY_ABOVE_C \in Int
      /\ last < FULL_DUTY_ABOVE_C
  BY TableFacts DEF Sound, Readable, FULL_DUTY_ABOVE_C
<1>3. CASE d >= FULL_DUTY_ABOVE_C
  BY <1>3, RpmCases, RpmType
<1>4. CASE d < FULL_DUTY_ABOVE_C /\ c > last
  <2>1. InterpolateRpm(p, c) = Beyond(p, c) /\ InterpolateRpm(p, d) = Beyond(p, d)
    <3>1. c < FULL_DUTY_ABOVE_C /\ d > last
      BY <1>2, <1>4
    <3> QED BY <1>4, <3>1, RpmCases
  <2> QED BY <1>2, <2>1, BeyondMonotone
<1>5. CASE d < FULL_DUTY_ABOVE_C /\ c <= last /\ d > last
  <2>1. InterpolateRpm(p, c) = TableAt(t, c) /\ InterpolateRpm(p, d) = Beyond(p, d)
    BY <1>5, RpmCases
  <2>2. TableAt(t, c) \in Int /\ TableAt(t, c) <= t[Len(t)][2] /\ t[Len(t)][2] \in Int
    BY <1>1, <1>2, <1>5, TableRange, TableFacts
  <2>3. d <= FULL_DUTY_ABOVE_C /\ d >= last
    BY <1>2, <1>5
  <2>4. Beyond(p, d) \in Int /\ t[Len(t)][2] <= Beyond(p, d)
    BY <1>2, <2>3, BeyondFacts
  <2> HIDE DEF t
  <2> QED BY <2>1, <2>2, <2>4
<1>6. CASE d <= last
  <2>1. c <= last
    BY <1>2, <1>6
  <2>2. InterpolateRpm(p, c) = TableAt(t, c) /\ InterpolateRpm(p, d) = TableAt(t, d)
    BY <1>6, <2>1, RpmCases
  <2> QED BY <1>1, <1>2, <1>6, <2>2, TableMonotone
<1> HIDE DEF last
<1> QED BY <1>2, <1>3, <1>4, <1>5, <1>6
-----------------------------------------------------------------------------
(* What is demanded *)

LEMMA DutyType ==
  ASSUME NEW t, FanTable(t), NEW rpm \in Nat
  PROVE  DutyForRpm(t, rpm) \in Duty
<1>0. /\ Ascending(t) /\ t[1][1] = 0 /\ t[Len(t)][1] \in Nat /\ t[Len(t)][1] <= 255
      /\ t[Len(t)][2] \in Nat
  BY FanTableFacts
<1>1. CASE rpm = 0
  BY <1>1 DEF DutyForRpm, Duty
<1>2. CASE rpm # 0 /\ rpm >= t[Len(t)][2]
  BY <1>2 DEF DutyForRpm, Duty
<1>3. CASE 0 < rpm /\ rpm < t[Len(t)][2]
  <2> DEFINE i == Segment(t, 2, rpm)
             d == DutyForRpm(t, rpm)
  <2>1. i \in 2..Len(t) /\ d \in Int /\ t[i - 1][1] < d /\ d <= t[i][1]
    BY <1>3, DutyInSegment
  <2> HIDE DEF i, d
  <2>2. /\ 1 \in 1..Len(t) /\ i - 1 \in 1..Len(t) /\ 1 <= i - 1
        /\ i \in 1..Len(t) /\ Len(t) \in 1..Len(t) /\ i <= Len(t)
    BY <1>0, <2>1, TableFacts
  <2>3. t[1][1] <= t[i - 1][1] /\ t[i][1] <= t[Len(t)][1]
    BY <1>0, <2>2, TableOrder
  <2>4. t[i - 1][1] \in Int /\ t[i][1] \in Int
    BY <1>0, <2>1, SegmentEnds
  <2>5. d \in 0..255
    BY <1>0, <2>1, <2>3, <2>4
  <2> QED BY <2>5 DEF d, Duty
<1> QED BY <1>0, <1>1, <1>2, <1>3

\* A higher speed never takes a lower duty.
LEMMA DutyMonotone ==
  ASSUME NEW t, FanTable(t), NEW r \in Nat, NEW s \in Nat, r <= s
  PROVE  DutyForRpm(t, r) <= DutyForRpm(t, s)
<1> DEFINE e == DutyForRpm(t, r)
           f == DutyForRpm(t, s)
<1>0. /\ Ascending(t) /\ t[Len(t)][2] \in Nat
      /\ e \in 0..255 /\ f \in 0..255
  BY FanTableFacts, DutyType DEF Duty
<1> SUFFICES e <= f
  OBVIOUS
<1> HIDE DEF e, f
<1>1. CASE r = 0
  <2>1. e = 0
    BY <1>1 DEF DutyForRpm, e
  <2> QED BY <1>0, <2>1
<1>2. CASE r # 0 /\ s >= t[Len(t)][2]
  <2>1. s # 0
    BY <1>2
  <2>2. f = 255
    BY <1>2, <2>1 DEF DutyForRpm, f
  <2> QED BY <1>0, <2>2
<1>3. CASE 0 < r /\ s < t[Len(t)][2]
  <2>0. r < t[Len(t)][2] /\ 0 < s /\ r # 0 /\ s # 0
        /\ ~(r >= t[Len(t)][2]) /\ ~(s >= t[Len(t)][2])
    BY <1>0, <1>3
  <2> DEFINE i == Segment(t, 2, r)
             j == Segment(t, 2, s)
  <2>1. /\ i \in 2..Len(t) /\ t[i - 1][2] < r /\ r <= t[i][2]
        /\ e <= t[i][1]
    BY <1>3, <2>0, DutyInSegment DEF e
  <2>2. /\ j \in 2..Len(t) /\ t[j - 1][2] < s /\ s <= t[j][2]
        /\ t[j - 1][1] < f
    BY <1>3, <2>0, DutyInSegment DEF f
  <2>3. CASE i = j
    <3> DEFINE k == t[i][1] - t[i - 1][1]
               y == t[i - 1][2]
               n == t[i][2] - t[i - 1][2]
    <3>1. /\ e = t[i - 1][1] + CeilDiv((r - y) * k, n)
          /\ f = t[i - 1][1] + CeilDiv((s - y) * k, n)
      BY <2>0, <2>3 DEF DutyForRpm, e, f
    <3> HIDE DEF i, j
    <3>2. t[i - 1][1] \in Int /\ t[i][1] \in Int /\ t[i - 1][1] < t[i][1]
          /\ t[i - 1][2] \in Int /\ t[i][2] \in Int
      BY <1>0, <2>1, SegmentEnds
    <3>3. k \in Nat /\ y \in Int
      BY <3>2
    <3>7. t[i - 1][2] < t[i][2]
      BY <2>1, <3>2
    <3>8. n \in Nat \ {0}
      BY <3>2, <3>7
    <3> HIDE DEF k, y, n
    <3>4. r - y \in Int /\ s - y \in Int /\ r - y <= s - y
      BY <3>3
    <3>5. (r - y) * k \in Int /\ (s - y) * k \in Int /\ (r - y) * k <= (s - y) * k
      BY <3>3, <3>4, Products
    <3>6. /\ CeilDiv((r - y) * k, n) <= CeilDiv((s - y) * k, n)
          /\ CeilDiv((r - y) * k, n) \in Int /\ CeilDiv((s - y) * k, n) \in Int
      BY <3>5, <3>8, CeilDivMonotone, CeilDivFacts
    <3> QED BY <3>1, <3>2, <3>6
  <2> HIDE DEF i, j
  <2>4. CASE i < j
    <3>1. i \in 1..Len(t) /\ j - 1 \in 1..Len(t) /\ i <= j - 1
      BY <1>0, <2>1, <2>2, <2>4, TableFacts
    <3>2. t[i][1] <= t[j - 1][1] /\ t[i][1] \in Int /\ t[j - 1][1] \in Int
      BY <1>0, <3>1, TableOrder, TableFacts
    <3> QED BY <1>0, <2>1, <2>2, <3>2
  <2>5. CASE j < i
    <3>1. j \in 1..Len(t) /\ i - 1 \in 1..Len(t) /\ j <= i - 1
      BY <1>0, <2>1, <2>2, <2>5, TableFacts
    <3>2. t[j][2] <= t[i - 1][2] /\ t[j][2] \in Int /\ t[i - 1][2] \in Int
      BY <1>0, <3>1, TableOrder, TableFacts
    <3> QED BY <2>1, <2>2, <3>2
  <2>6. i \in Int /\ j \in Int
    BY <2>1, <2>2
  <2> QED BY <2>3, <2>4, <2>5, <2>6 DEF i, j
<1> QED BY <1>0, <1>1, <1>2, <1>3

LEMMA ColdFloorType ==
  ASSUME NEW p, Sound(p), NEW c, Readable(c)
  PROVE  ColdFloor(p, c) \in Duty
<1> DEFINE rpm == InterpolateRpm(p, c)
           d == DutyForRpm(p.duty_rpm, rpm)
<1>1. rpm \in Nat
  BY RpmType
<1> HIDE DEF rpm
<1>2. d \in 0..255
  BY <1>1, DutyType DEF Sound, Duty
<1>3. ColdFloor(p, c) = IF rpm = 0 THEN 0
                        ELSE Higher(TURNING_DUTY, Lowest(255, d + MARGIN_DUTY))
  BY DEF ColdFloor, rpm
<1> HIDE DEF d
<1> QED BY <1>2, <1>3 DEF Higher, Lowest, TURNING_DUTY, MARGIN_DUTY, Duty

\* The cold-start floor rises with the temperature.
LEMMA ColdFloorMonotone ==
  ASSUME NEW p, Sound(p), NEW c, Readable(c), NEW d, Readable(d), c <= d
  PROVE  ColdFloor(p, c) <= ColdFloor(p, d)
<1> DEFINE r == InterpolateRpm(p, c)
           s == InterpolateRpm(p, d)
           e == DutyForRpm(p.duty_rpm, r)
           f == DutyForRpm(p.duty_rpm, s)
<1>1. r \in Nat /\ s \in Nat /\ r <= s
  BY RpmType, RpmMonotone
<1> HIDE DEF r, s
<1>2. e \in 0..255 /\ f \in 0..255 /\ e <= f
  BY <1>1, DutyType, DutyMonotone DEF Sound, Duty
<1>3. /\ ColdFloor(p, c) = IF r = 0 THEN 0
                           ELSE Higher(TURNING_DUTY, Lowest(255, e + MARGIN_DUTY))
      /\ ColdFloor(p, d) = IF s = 0 THEN 0
                           ELSE Higher(TURNING_DUTY, Lowest(255, f + MARGIN_DUTY))
  BY DEF ColdFloor, r, s
<1> HIDE DEF e, f
<1> QED BY <1>1, <1>2, <1>3 DEF Higher, Lowest, TURNING_DUTY, MARGIN_DUTY

LEMMA PackFacts ==
  ASSUME NEW crit
  PROVE  PackLimit(crit) \in Int
  BY DEF PackLimit, FALLBACK_CRIT_C

LEMMA PackFloorType ==
  ASSUME NEW crit, NEW c, Readable(c)
  PROVE  PackFloor(c, crit) \in Duty
<1> DEFINE start == PackLimit(crit) - RAMP_BELOW_CRIT_C
           above == Lowest(c - start, 60) * 255
<1>1. start \in Int /\ c \in Int /\ c # NoReading
  BY PackFacts DEF Readable, RAMP_BELOW_CRIT_C
<1>2. PackFloor(c, crit) = IF c <= start THEN 0 ELSE Higher(TURNING_DUTY, CeilDiv(above, 60))
  BY <1>1 DEF PackFloor, RAMP_BELOW_CRIT_C, RELEASE_BELOW_CRIT_C
<1> HIDE DEF start
<1>3. ASSUME ~(c <= start) PROVE Higher(TURNING_DUTY, CeilDiv(above, 60)) \in Duty
  <2>1. above \in Int /\ above <= 60 * 255
    BY <1>1 DEF Lowest
  <2> HIDE DEF above
  <2>2. CeilDiv(above, 60) \in Int /\ CeilDiv(above, 60) <= 255
    BY <2>1, CeilDivFacts, CeilDivAtMost
  <2> QED BY <2>2 DEF Higher, TURNING_DUTY, Duty
<1> QED BY <1>2, <1>3 DEF Duty

\* The battery's floor rises with its temperature, whatever its critical point.
LEMMA PackFloorMonotone ==
  ASSUME NEW crit, NEW c, Readable(c), NEW d, Readable(d), c <= d
  PROVE  PackFloor(c, crit) <= PackFloor(d, crit)
<1> DEFINE start == PackLimit(crit) - RAMP_BELOW_CRIT_C
           above(x) == Lowest(x - start, 60) * 255
<1>1. start \in Int /\ c \in Int /\ c # NoReading /\ d \in Int /\ d # NoReading
  BY PackFacts DEF Readable, RAMP_BELOW_CRIT_C
<1>2. /\ PackFloor(c, crit) = IF c <= start THEN 0
                              ELSE Higher(TURNING_DUTY, CeilDiv(above(c), 60))
      /\ PackFloor(d, crit) = IF d <= start THEN 0
                              ELSE Higher(TURNING_DUTY, CeilDiv(above(d), 60))
  BY <1>1 DEF PackFloor, RAMP_BELOW_CRIT_C, RELEASE_BELOW_CRIT_C
<1> HIDE DEF start
<1>3. above(c) \in Int /\ above(d) \in Int /\ above(c) <= above(d)
  BY <1>1 DEF Lowest
<1> HIDE DEF above
<1>4. /\ CeilDiv(above(c), 60) \in Int /\ CeilDiv(above(d), 60) \in Int
      /\ CeilDiv(above(c), 60) <= CeilDiv(above(d), 60)
  BY <1>3, CeilDivFacts, CeilDivMonotone
<1> QED BY <1>1, <1>2, <1>4 DEF Higher, TURNING_DUTY
-----------------------------------------------------------------------------
(* The machine *)

Reading == Int \cup {NoReading}

Machine ==
  /\ identified \in PROFILES \cup {Unmeasured}
  /\ control = [celsius |-> control.celsius, crit |-> control.crit]
  /\ pack = [celsius |-> pack.celsius, crit |-> pack.crit]
  /\ control.celsius \in Reading /\ pack.celsius \in Reading

LEMMA MachineInit == ThermalInit => Machine
<1> SUFFICES ASSUME ThermalInit PROVE Machine
  OBVIOUS
<1>1. ASSUME NEW name PROVE Identified(name) \in PROFILES \cup {Unmeasured}
  <2>1. CASE \E p \in PROFILES : name \in p.measured_on
    <3>1. (CHOOSE p \in PROFILES : name \in p.measured_on) \in PROFILES
      BY <2>1
    <3> QED BY <2>1, <3>1 DEF Identified
  <2>2. CASE ~(\E p \in PROFILES : name \in p.measured_on)
    <3>1. CASE \E p \in PROFILES : name[1] = p.family
      <4>1. (CHOOSE p \in PROFILES : name[1] = p.family) \in PROFILES
        BY <3>1
      <4> QED BY <2>2, <3>1, <4>1 DEF Identified
    <3>2. CASE ~(\E p \in PROFILES : name[1] = p.family)
      BY <2>2, <3>2 DEF Identified
    <3> QED BY <3>1, <3>2
  <2> QED BY <2>1, <2>2
<1>2. identified \in PROFILES \cup {Unmeasured}
  BY <1>1 DEF ThermalInit
<1>3. /\ control = [celsius |-> control.celsius, crit |-> control.crit]
      /\ pack = [celsius |-> pack.celsius, crit |-> pack.crit]
      /\ control.celsius \in Reading /\ pack.celsius \in Reading
  BY ThermalAssumption DEF ThermalInit, Sensor, Reading
<1> QED BY <1>2, <1>3 DEF Machine

\* A sample changes one sensor's temperature and nothing else.
LEMMA SampleFacts ==
  ASSUME Machine, [ThermalNext]_thermalVars
  PROVE  /\ identified' = identified
         /\ control' = [celsius |-> control'.celsius, crit |-> control.crit]
         /\ pack' = [celsius |-> pack'.celsius, crit |-> pack.crit]
         /\ control'.celsius \in Reading /\ pack'.celsius \in Reading
<1>1. CASE ControlSample
  BY <1>1, ThermalAssumption DEF Machine, ControlSample, Reading
<1>2. CASE PackSample
  BY <1>2, ThermalAssumption DEF Machine, PackSample, Reading
<1>3. CASE UNCHANGED thermalVars
  BY <1>3 DEF Machine, thermalVars
<1> QED BY <1>1, <1>2, <1>3 DEF ThermalNext

\* No sample changes what the variables are made of.
LEMMA MachineStep == Machine /\ [ThermalNext]_thermalVars => Machine'
<1> SUFFICES ASSUME Machine, [ThermalNext]_thermalVars PROVE Machine'
  OBVIOUS
<1>1. /\ identified' = identified
      /\ control' = [celsius |-> control'.celsius, crit |-> control.crit]
      /\ pack' = [celsius |-> pack'.celsius, crit |-> pack.crit]
      /\ control'.celsius \in Reading /\ pack'.celsius \in Reading
  BY SampleFacts
<1>2. control'.crit = control.crit /\ pack'.crit = pack.crit
  BY <1>1
<1> QED BY <1>1, <1>2 DEF Machine

\* For any temperature the two tables of a measured board lead from what firmware would
\* do to a duty that really is as fast, or to the fan's top (floor_duty, duty_for_rpm).
LEMMA TablesReach == ASSUME Machine PROVE TablesReachFirmware
<1> SUFFICES ASSUME identified # Unmeasured
             PROVE  LET rpm == InterpolateRpm(identified, control.celsius)
                        d == DutyForRpm(identified.duty_rpm, rpm)
                    IN d = 255 \/ RpmOf(identified.duty_rpm, d) >= rpm
  BY DEF TablesReachFirmware
<1>1. Sound(identified) /\ FanTable(identified.duty_rpm)
  BY BoardsAscend DEF Machine, Sound
<1>2. CASE control.celsius = NoReading
  <2>1. InterpolateRpm(identified, control.celsius) = MaxRpm /\ MaxRpm \in Nat
    BY <1>2 DEF InterpolateRpm, MaxRpm
  <2> QED BY <1>1, <2>1, DutyReaches
<1>3. CASE Readable(control.celsius)
  <2>1. InterpolateRpm(identified, control.celsius) \in Nat
    BY <1>1, <1>3, RpmType
  <2> QED BY <1>1, <2>1, DutyReaches
<1> QED BY <1>2, <1>3 DEF Machine, Reading, Readable

\* The duty the cold-start floor takes from the two tables turns the fan at least as fast
\* as firmware would, at every temperature and with no sensor at all (floor.rs).
THEOREM TablesReachSafe == ThermalSpec => []TablesReachFirmware
<1>1. ThermalInit => Machine
  BY MachineInit
<1>2. Machine /\ [ThermalNext]_thermalVars => Machine'
  BY MachineStep
<1>3. Machine => TablesReachFirmware
  BY TablesReach
<1> QED BY <1>1, <1>2, <1>3, PTL DEF ThermalSpec

\* The limits are passed by anything above what passes them.
LEMMA LimitsMonotone ==
  ASSUME NEW c, Readable(c), NEW d, Readable(d), c <= d, NEW crit
  PROVE  /\ CeilingExceeded(c, crit) => CeilingExceeded(d, crit)
         /\ PackExceeded(c, crit) => PackExceeded(d, crit)
<1>1. c \in Int /\ d \in Int /\ c # NoReading /\ d # NoReading
  BY DEF Readable
<1>2. Ceiling(crit) \in Int
  BY DEF Ceiling, Lowest, CEILING_MARGIN_C, MAX_CEILING_C, FALLBACK_CEILING_C
<1>3. PackLimit(crit) - RELEASE_BELOW_CRIT_C \in Int
  BY PackFacts DEF RELEASE_BELOW_CRIT_C
<1>4. CeilingExceeded(c, crit) => CeilingExceeded(d, crit)
  BY <1>1, <1>2 DEF CeilingExceeded
<1>5. PackExceeded(c, crit) => PackExceeded(d, crit)
  BY <1>1, <1>3 DEF PackExceeded
<1> QED BY <1>4, <1>5

Rises(s, t) == s.celsius # NoReading /\ t.celsius # NoReading /\ t.celsius >= s.celsius

\* The higher of two keeps order.
LEMMA HigherMonotone ==
  ASSUME NEW a \in Int, NEW b \in Int, a <= b, NEW c \in Int, NEW d \in Int, c <= d
  PROVE  Higher(a, c) <= Higher(b, d)
  BY DEF Higher

\* Warmer sensors ask no less, and give up no later.
LEMMA DemandMonotone ==
  ASSUME NEW p \in PROFILES,
         NEW c, Readable(c), NEW d, Readable(d), c <= d,
         NEW k, Readable(k), NEW m, Readable(m), k <= m, NEW point
  PROVE  Higher(ColdFloor(p, d), PackFloor(m, point))
           >= Higher(ColdFloor(p, c), PackFloor(k, point))
<1>1. /\ ColdFloor(p, c) <= ColdFloor(p, d) /\ PackFloor(k, point) <= PackFloor(m, point)
      /\ ColdFloor(p, c) \in 0..255 /\ ColdFloor(p, d) \in 0..255
      /\ PackFloor(k, point) \in 0..255 /\ PackFloor(m, point) \in 0..255
  BY BoardsAscend, ColdFloorType, PackFloorType, ColdFloorMonotone, PackFloorMonotone
  DEF Duty
<1>2. /\ ColdFloor(p, c) \in Int /\ ColdFloor(p, d) \in Int
      /\ PackFloor(k, point) \in Int /\ PackFloor(m, point) \in Int
  BY <1>1
<1>3. Higher(ColdFloor(p, c), PackFloor(k, point))
        <= Higher(ColdFloor(p, d), PackFloor(m, point))
  BY <1>1, <1>2, HigherMonotone
<1>4. /\ Higher(ColdFloor(p, c), PackFloor(k, point)) \in Int
      /\ Higher(ColdFloor(p, d), PackFloor(m, point)) \in Int
  BY <1>2 DEF Higher
<1> QED BY <1>3, <1>4

\* For any temperatures and any critical points the sensors report, a sample that is not
\* cooler than the one before it never lowers the clamp, and never takes back a fan that
\* had been given up (enforce_floor, exceeded_by, BatteryGuard::floor_duty).
THEOREM HotterSafe == ThermalSpec => HotterAsksMore
<1> DEFINE Hotter ==
      LET rises(s) == s.celsius # NoReading /\ s'.celsius # NoReading
                      /\ s'.celsius >= s.celsius
      IN identified # Unmeasured /\ rises(control) /\ rises(pack)
           => /\ GivenUp => GivenUp'
              /\ Demand' >= Demand
<1>1. ThermalInit => Machine
  BY MachineInit
<1>2. Machine /\ [ThermalNext]_thermalVars => Machine'
  BY MachineStep
<1>3. Machine /\ [ThermalNext]_thermalVars => [Hotter]_thermalVars
  <2> SUFFICES ASSUME Machine, [ThermalNext]_thermalVars, identified # Unmeasured,
                      control.celsius # NoReading, control'.celsius # NoReading,
                      control'.celsius >= control.celsius,
                      pack.celsius # NoReading, pack'.celsius # NoReading,
                      pack'.celsius >= pack.celsius
               PROVE  (GivenUp => GivenUp') /\ Demand' >= Demand
    OBVIOUS
  <2>1. /\ identified' = identified
        /\ control' = [celsius |-> control'.celsius, crit |-> control.crit]
        /\ pack' = [celsius |-> pack'.celsius, crit |-> pack.crit]
        /\ control'.celsius \in Reading /\ pack'.celsius \in Reading
    BY SampleFacts
  <2>2. /\ identified \in PROFILES
        /\ control.celsius \in Reading /\ pack.celsius \in Reading
    BY DEF Machine
  <2>3. control'.crit = control.crit /\ pack'.crit = pack.crit
    BY <2>1
  <2>4. PICK c, d, k, m : /\ c = control.celsius /\ d = control'.celsius
                          /\ k = pack.celsius /\ m = pack'.celsius
    OBVIOUS
  <2>5. /\ Readable(c) /\ Readable(d) /\ Readable(k) /\ Readable(m)
        /\ c <= d /\ k <= m
    BY <2>1, <2>2, <2>4 DEF Reading, Readable
  <2>6. GivenUp => GivenUp'
    <3>1. /\ CeilingExceeded(c, control.crit) => CeilingExceeded(d, control.crit)
          /\ PackExceeded(k, pack.crit) => PackExceeded(m, pack.crit)
      BY <2>5, LimitsMonotone
    <3>2. GivenUp <=> \/ identified = Unmeasured \/ CeilingExceeded(c, control.crit)
                      \/ PackExceeded(k, pack.crit)
      BY <2>4 DEF GivenUp
    <3>3. GivenUp' <=> \/ identified = Unmeasured \/ CeilingExceeded(d, control.crit)
                       \/ PackExceeded(m, pack.crit)
      BY <2>1, <2>3, <2>4 DEF GivenUp
    <3> QED BY <3>1, <3>2, <3>3
  <2>7. Demand' >= Demand
    <3>1. Higher(ColdFloor(identified, d), PackFloor(m, pack.crit))
            >= Higher(ColdFloor(identified, c), PackFloor(k, pack.crit))
      BY <2>2, <2>5, DemandMonotone
    <3>2. Demand = Higher(ColdFloor(identified, c), PackFloor(k, pack.crit))
      BY <2>4 DEF Demand
    <3>3. Demand' = Higher(ColdFloor(identified, d), PackFloor(m, pack.crit))
      BY <2>1, <2>3, <2>4 DEF Demand
    <3> QED BY <3>1, <3>2, <3>3
  <2> QED BY <2>6, <2>7
<1> QED BY <1>1, <1>2, <1>3, PTL DEF ThermalSpec, HotterAsksMore
=============================================================================

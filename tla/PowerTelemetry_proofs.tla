----------------------- MODULE PowerTelemetry_proofs -----------------------
(***************************************************************************)
(* What is published of the package power is true, for any modulus of the   *)
(* counter, any longest gap and any draw for which a second wrap cannot      *)
(* happen within that gap, and any number of suspends.                       *)
(***************************************************************************)
EXTENDS PowerTelemetry, TLAPS

\* The reading before and the counter are apart by what was drawn, but for one wrap,
\* unless a suspend came between them or the gap is too long to be used.
Linked ==
  last # Nothing /\ ~unseen /\ last.ago <= MaxGap =>
    /\ spent * MaxGap <= last.ago * (Range_uj - 1)
    /\ energy_uj = last.uj + spent \/ energy_uj = last.uj + spent - Range_uj

CounterOK ==
  /\ energy_uj \in 0..(Range_uj - 1) /\ spent \in Nat
  /\ last # Nothing => last \in [uj : 0..(Range_uj - 1), ago : Nat]

TelemetryInv == CounterOK /\ Linked /\ WattsAreTrue
-----------------------------------------------------------------------------
(* Arithmetic *)

LEMMA WrapOnce ==
  ASSUME NEW r \in Nat \ {0}, NEW x \in Nat, x < 2 * r
  PROVE  x % r = x \/ x % r = x - r
<1>1. CASE x < r
  BY <1>1
<1>2. CASE x >= r
  <2>1. x = r * 1 + (x - r) /\ 0 <= x - r /\ x - r < r
    BY <1>2
  <2> QED BY <2>1
<1> QED BY <1>1, <1>2

\* One more second keeps the joules within their share of the modulus.
LEMMA OneMore ==
  ASSUME NEW s \in Nat, NEW j \in Nat, NEW a \in Nat, NEW m \in Nat, NEW r \in Nat \ {0},
         s * m <= a * (r - 1), j * m < r
  PROVE  (s + j) * m <= (a + 1) * (r - 1)
<1>1. (s + j) * m = s * m + j * m
  OBVIOUS
<1>2. (a + 1) * (r - 1) = a * (r - 1) + (r - 1)
  OBVIOUS
<1>3. s * m \in Int /\ j * m \in Int /\ a * (r - 1) \in Int
  OBVIOUS
<1> QED BY <1>1, <1>2, <1>3

\* Within the longest gap less than the modulus is drawn.
LEMMA WithinRange ==
  ASSUME NEW s \in Nat, NEW a \in Nat, NEW m \in Nat \ {0}, NEW r \in Nat \ {0},
         s * m <= a * (r - 1), a <= m
  PROVE  s < r
<1> SUFFICES ASSUME s >= r
             PROVE  FALSE
  OBVIOUS
<1>1. s * m >= r * m
  OBVIOUS
<1>2. a * (r - 1) <= m * (r - 1)
  OBVIOUS
<1>3. m * (r - 1) = r * m - m
  OBVIOUS
<1>4. r * m \in Int /\ s * m \in Int /\ a * (r - 1) \in Int /\ m * (r - 1) \in Int
  OBVIOUS
<1> QED BY <1>1, <1>2, <1>3, <1>4

LEMMA DrawBelowRange ==
  ASSUME NEW j \in Draw, MaxGap > 0
  PROVE  j \in Nat /\ j < Range_uj
<1>1. j \in Nat /\ MaxGap \in Nat /\ Range_uj \in Nat /\ j * MaxGap < Range_uj
  BY TelemetryAssumption
<1>2. j <= j * MaxGap /\ j * MaxGap \in Int
  BY <1>1
<1> QED BY <1>1, <1>2
-----------------------------------------------------------------------------
(* Steps *)

LEMMA SecondStep ==
  ASSUME TelemetryInv, NEW j \in Draw, Second(j)
  PROVE  TelemetryInv'
<1>1. /\ Range_uj \in Nat \ {0} /\ MaxGap \in Nat /\ j \in Nat
      /\ j * MaxGap < Range_uj
  BY TelemetryAssumption
<1>2. energy_uj' \in 0..(Range_uj - 1)
  <2>1. energy_uj + j \in Nat
    BY <1>1 DEF TelemetryInv, CounterOK
  <2>2. (energy_uj + j) % Range_uj \in 0..(Range_uj - 1)
    BY <1>1, <2>1
  <2> QED BY <2>2 DEF Second
<1>3. WattsAreTrue'
  BY DEF Second, TelemetryInv, WattsAreTrue
<1>4. CASE last = Nothing
  BY <1>2, <1>3, <1>4 DEF Second, TelemetryInv, CounterOK, Linked
<1>5. CASE last # Nothing
  <2>1. /\ last \in [uj : 0..(Range_uj - 1), ago : Nat]
        /\ last' = [last EXCEPT !.ago = @ + 1]
        /\ spent' = spent + j /\ spent \in Nat
    BY <1>5 DEF Second, TelemetryInv, CounterOK
  <2>2. /\ last'.uj = last.uj /\ last'.ago = last.ago + 1
        /\ last' \in [uj : 0..(Range_uj - 1), ago : Nat]
    BY <2>1
  <2>3. CounterOK'
    BY <1>1, <1>2, <2>1, <2>2 DEF CounterOK
  <2>4. ASSUME ~unseen', last'.ago <= MaxGap
        PROVE  /\ spent' * MaxGap <= last'.ago * (Range_uj - 1)
               /\ \/ energy_uj' = last'.uj + spent'
                  \/ energy_uj' = last'.uj + spent' - Range_uj
    <3>1. last.ago \in Nat /\ last.ago <= MaxGap /\ MaxGap \in Nat \ {0} /\ ~unseen
      BY <1>1, <2>1, <2>2, <2>4 DEF Second
    <3>2. /\ spent * MaxGap <= last.ago * (Range_uj - 1)
          /\ energy_uj = last.uj + spent \/ energy_uj = last.uj + spent - Range_uj
      BY <1>5, <3>1 DEF TelemetryInv, Linked
    <3>3. spent' * MaxGap <= last'.ago * (Range_uj - 1)
      BY <1>1, <2>1, <2>2, <3>1, <3>2, OneMore
    <3>4. spent' < Range_uj
      <4>1. spent' \in Nat /\ last'.ago \in Nat
        BY <1>1, <2>1, <2>2
      <4> QED BY <1>1, <2>4, <3>1, <3>3, <4>1, WithinRange, Zenon
    <3>5. j < Range_uj
      BY <3>1, DrawBelowRange
    <3>6. energy_uj \in 0..(Range_uj - 1) /\ last.uj \in 0..(Range_uj - 1)
      BY <2>1 DEF TelemetryInv, CounterOK
    <3>7. energy_uj + j \in Nat /\ energy_uj + j < 2 * Range_uj
      BY <1>1, <3>5, <3>6
    <3>8. energy_uj' = energy_uj + j \/ energy_uj' = energy_uj + j - Range_uj
      <4> DEFINE x == energy_uj + j
      <4>1. x \in Nat /\ x < 2 * Range_uj /\ energy_uj' = x % Range_uj
        BY <3>7 DEF Second
      <4> HIDE DEF x
      <4>2. energy_uj' = x \/ energy_uj' = x - Range_uj
        BY <1>1, <4>1, WrapOnce
      <4> QED BY <1>1, <3>6, <4>2 DEF x
    <3>9. energy_uj' = last'.uj + spent' \/ energy_uj' = last'.uj + spent' - Range_uj
      BY <1>1, <1>2, <2>1, <2>2, <3>2, <3>4, <3>6, <3>8
    <3> QED BY <3>3, <3>9
  <2>5. Linked'
    BY <2>4 DEF Linked
  <2> QED BY <1>3, <2>3, <2>5 DEF TelemetryInv
<1> QED BY <1>4, <1>5

\* What is sampled from a reading the counter is linked to is what was drawn.
LEMMA DeltaIsSpent ==
  ASSUME CounterOK, Linked, ~unseen, last # Nothing, Delta(last) # Nothing
  PROVE  Delta(last) = spent
<1>1. last \in [uj : 0..(Range_uj - 1), ago : Nat]
  BY DEF CounterOK
<1>2. last.ago # 0 /\ ~(last.ago > MaxGap)
  BY Zenon DEF Delta
<1>3. last.ago <= MaxGap /\ MaxGap \in Nat \ {0} /\ Range_uj \in Nat \ {0}
  BY <1>1, <1>2, TelemetryAssumption
<1>4. /\ spent * MaxGap <= last.ago * (Range_uj - 1)
      /\ energy_uj = last.uj + spent \/ energy_uj = last.uj + spent - Range_uj
  BY <1>3 DEF Linked
<1>5. spent \in Nat /\ spent < Range_uj
  BY <1>1, <1>3, <1>4, WithinRange DEF CounterOK
<1>6. Delta(last) = IF energy_uj >= last.uj THEN energy_uj - last.uj
                    ELSE Range_uj - last.uj + energy_uj
  BY <1>2, Zenon DEF Delta
<1>7. energy_uj \in Int /\ last.uj \in 0..(Range_uj - 1)
  BY <1>1, <1>3 DEF CounterOK
<1> QED BY <1>3, <1>4, <1>5, <1>6, <1>7

LEMMA SampleStep ==
  ASSUME TelemetryInv, SampleTick
  PROVE  TelemetryInv'
<1> DEFINE w == Sampled(Reference)
<1>1. /\ last' = [uj |-> energy_uj, ago |-> 0]
      /\ spent' = 0 /\ energy_uj' = energy_uj
  BY DEF SampleTick
<1>2. last'.uj = energy_uj /\ last'.ago = 0
  BY <1>1
<1>3. Range_uj \in Nat \ {0} /\ MaxGap \in Nat /\ energy_uj \in 0..(Range_uj - 1)
  BY TelemetryAssumption DEF TelemetryInv, CounterOK
<1>4. CounterOK'
  BY <1>1, <1>3 DEF CounterOK
<1>5. Linked'
  BY <1>1, <1>2, <1>3 DEF Linked
<1>6. WattsAreTrue'
  <2>1. CASE w = Nothing
    <3>1. watts' = Nothing
      BY <2>1, Zenon DEF SampleTick
    <3> QED BY <3>1 DEF WattsAreTrue
  <2>2. CASE w # Nothing
    <3>1. watts' = [tenths |-> w,
                    true |-> w = (20 * spent + last.ago) \div (2 * last.ago),
                    slept |-> unseen /\ ~resumed]
      BY <2>2, Zenon DEF SampleTick
    <3>2. Delta(Reference) # Nothing
      BY <2>2, Zenon DEF Sampled
    <3>3. Reference # Nothing
      BY <3>2, Zenon DEF Delta
    <3>4. ~resumed /\ Reference = last
      BY <3>3, Zenon DEF Reference
    <3>5. CASE unseen
      <4>1. watts'.slept = (unseen /\ ~resumed)
        BY <3>1, Zenon
      <4> QED BY <3>4, <3>5, <4>1, Zenon DEF WattsAreTrue
    <3>6. CASE ~unseen
      <4>1. Delta(last) = spent
        BY <3>2, <3>3, <3>4, <3>6, DeltaIsSpent DEF TelemetryInv
      <4>2. w = (20 * spent + last.ago) \div (2 * last.ago)
        BY <2>2, <3>4, <4>1, Zenon DEF Sampled
      <4>3. watts'.true = (w = (20 * spent + last.ago) \div (2 * last.ago))
        BY <3>1, Zenon
      <4> QED BY <4>2, <4>3, Zenon DEF WattsAreTrue
    <3> QED BY <3>5, <3>6
  <2> QED BY <2>1, <2>2
<1> QED BY <1>4, <1>5, <1>6 DEF TelemetryInv

LEMMA TelemetryStep == TelemetryInv /\ [TelemetryNext]_telemetryVars => TelemetryInv'
<1> SUFFICES ASSUME TelemetryInv, [TelemetryNext]_telemetryVars
             PROVE  TelemetryInv'
  OBVIOUS
<1>1. CASE \E j \in Draw : Second(j)
  BY <1>1, SecondStep
<1>2. CASE SleepWake
  <2>1. energy_uj' \in 0..(Range_uj - 1)
    BY <1>2, TelemetryAssumption DEF SleepWake, TelemetryInv, CounterOK
  <2> QED BY <1>2, <2>1 DEF SleepWake, TelemetryInv, CounterOK, Linked, WattsAreTrue
<1>3. CASE Resumed
  BY <1>3 DEF Resumed, TelemetryInv, CounterOK, Linked, WattsAreTrue
<1>4. CASE SampleTick
  BY <1>4, SampleStep
<1>5. CASE UNCHANGED telemetryVars
  BY <1>5 DEF telemetryVars, TelemetryInv, CounterOK, Linked, WattsAreTrue
<1> QED BY <1>1, <1>2, <1>3, <1>4, <1>5 DEF TelemetryNext

\* What is published is what the package drew, through wraps, late ticks and every
\* suspend the tick has been told of (EnergySampler::sample, Monitor::on_resume).
THEOREM WattsSafe == TelemetrySpec => []WattsAreTrue
<1>1. TelemetryInit => TelemetryInv
  BY TelemetryAssumption DEF TelemetryInit, TelemetryInv, CounterOK, Linked, WattsAreTrue
<1>2. TelemetryInv => WattsAreTrue
  BY DEF TelemetryInv
<1> QED BY <1>1, <1>2, TelemetryStep, PTL DEF TelemetrySpec
-----------------------------------------------------------------------------
(* The idle floor *)

\* A block that waits for confirmation is the latest one, and was below the floor.
Pending ==
  pending_low # Nothing =>
    /\ watts_floor # Nothing /\ blocks # <<>>
    /\ pending_low = blocks[1]
    /\ pending_low < watts_floor

\* What IdleFloorConfirmed says of a step.
Confirming ==
  watts_floor # Nothing /\ watts_floor' # watts_floor =>
    /\ Len(blocks') = 2
    /\ watts_floor' = TheHigher(blocks'[2], blocks'[1])
    /\ watts_floor' < watts_floor

\* One block.
LEMMA BlockStep ==
  ASSUME Pending, NEW sum,
         watts_floor' = FloorAfter(sum), pending_low' = PendingAfter(sum),
         blocks' = IF blocks = <<>> THEN <<sum>> ELSE <<sum, blocks[1]>>
  PROVE  Pending' /\ Confirming
<1>1. blocks' # <<>> /\ blocks'[1] = sum
  OBVIOUS
<1>2. CASE watts_floor = Nothing
  <2>1. pending_low' = pending_low /\ pending_low = Nothing
    BY <1>2, Zenon DEF PendingAfter, Pending
  <2> QED BY <1>2, <2>1 DEF Pending, Confirming
<1>3. CASE watts_floor # Nothing /\ Confirmed(sum)
  <2>1. /\ watts_floor' = TheHigher(pending_low, sum) /\ pending_low' = Nothing
        /\ pending_low # Nothing /\ sum < watts_floor
    BY <1>3, Zenon DEF FloorAfter, PendingAfter, Confirmed
  <2>2. blocks # <<>> /\ pending_low = blocks[1] /\ pending_low < watts_floor
    BY <2>1 DEF Pending
  <2>3. blocks' = <<sum, pending_low>>
    BY <2>2
  <2>4. Len(blocks') = 2 /\ blocks'[1] = sum /\ blocks'[2] = pending_low
    BY <2>3
  <2>5. TheHigher(pending_low, sum) \in {pending_low, sum}
    BY DEF TheHigher
  <2>6. TheHigher(pending_low, sum) < watts_floor
    BY <2>1, <2>2, <2>5
  <2> QED BY <2>1, <2>4, <2>6 DEF Pending, Confirming
<1>4. CASE watts_floor # Nothing /\ ~Confirmed(sum)
  <2>1. watts_floor' = watts_floor
    BY <1>4, Zenon DEF FloorAfter
  <2>2. pending_low' = Nothing \/ (pending_low' = sum /\ sum < watts_floor)
    BY <1>4, Zenon DEF PendingAfter
  <2> QED BY <1>1, <1>4, <2>1, <2>2 DEF Pending, Confirming
<1> QED BY <1>2, <1>3, <1>4

\* A step that finishes no block.
LEMMA QuietStep ==
  ASSUME Pending, UNCHANGED <<watts_floor, pending_low, blocks>>
  PROVE  Pending' /\ Confirming
  BY DEF Pending, Confirming

LEMMA PendingStep ==
  ASSUME Pending, [TelemetryNext]_telemetryVars
  PROVE  Pending' /\ Confirming
<1>1. CASE \E j \in Draw : Second(j)
  BY <1>1, QuietStep DEF Second
<1>2. CASE SleepWake \/ Resumed \/ UNCHANGED telemetryVars
  BY <1>2, QuietStep DEF SleepWake, Resumed, telemetryVars
<1>3. CASE SampleTick
  <2>1. Observe(Sampled(Reference))
    BY <1>3, Zenon DEF SampleTick
  <2>2. \/ UNCHANGED <<watts_floor, pending_low, blocks>>
        \/ \E sum : /\ watts_floor' = FloorAfter(sum) /\ pending_low' = PendingAfter(sum)
                    /\ blocks' = IF blocks = <<>> THEN <<sum>> ELSE <<sum, blocks[1]>>
    BY <2>1, Zenon DEF Observe
  <2> QED BY <2>2, QuietStep, BlockStep
<1> QED BY <1>1, <1>2, <1>3 DEF TelemetryNext

\* The idle floor falls only when two blocks in a row were below it, and to the higher of
\* the two (Monitor::observe_floor).
THEOREM IdleFloorSafe == TelemetrySpec => IdleFloorConfirmed
<1>1. TelemetryInit => Pending
  BY DEF TelemetryInit, Pending
<1>2. Pending /\ [TelemetryNext]_telemetryVars => Pending' /\ [Confirming]_telemetryVars
  BY PendingStep
<1>3. [Confirming]_telemetryVars
      <=> [watts_floor # Nothing /\ watts_floor' # watts_floor =>
             /\ Len(blocks') = 2
             /\ watts_floor' = TheHigher(blocks'[2], blocks'[1])
             /\ watts_floor' < watts_floor]_telemetryVars
  BY DEF Confirming
<1> QED BY <1>1, <1>2, <1>3, PTL DEF TelemetrySpec, IdleFloorConfirmed
=============================================================================

--------------------------- MODULE FirmwareFloor ---------------------------
(***************************************************************************)
(* The firmware floor (crates/fw-helper-core/src/floor.rs): the duty        *)
(* firmware has been seen running at, per temperature bucket, what a sample *)
(* adds to it, which way the temperature is going, and the lowest duty that *)
(* may be held.  These are the pure operations; FloorLearning calls them.   *)
(*                                                                         *)
(* Abstractions.  A temperature is a whole number of degrees (the sensor's  *)
(* own resolution).  What the board's two tables predict for a bucket       *)
(* nothing was seen in is the constant function Model.                      *)
(***************************************************************************)
EXTENDS FanDuty, FiniteSets

CONSTANTS
  Buckets,      \* how many buckets are tracked
  Celsius,      \* readable temperatures
  NoTemp,       \* an unreadable one
  Model         \* Model[c]: the duty the tables give for c, 0 where firmware is silent

ASSUME FloorAssumption ==
  /\ Buckets \in Nat \ {0}
  /\ Celsius \subseteq Int
  /\ NoTemp \notin Int
  /\ Model \in [Celsius -> Duty]

STICTION_DUTY == 33
FLOOR_MARGIN_DUTY == 2
BUCKET_C == 2
BUCKET_BASE_C == 30
DIRECTION_HYSTERESIS_C == 2

\* A bucket nothing was seen in is below every duty, so a first observation is
\* recorded like a louder one.
Unseen == -1
Observation == Duty \cup {Unseen}
Bucket == 0..(Buckets - 1)

Tracked(c) ==
  BUCKET_BASE_C <= c /\ c < BUCKET_BASE_C + BUCKET_C * Buckets
BucketOf(c) == (c - BUCKET_BASE_C) \div BUCKET_C
LowEdge(i) == BUCKET_BASE_C + BUCKET_C * i

Seen(floor) == {i \in Bucket : floor.duty[i] # Unseen}

\* for_board: nothing observed.
FreshFloor == [duty |-> [i \in Bucket |-> Unseen], revision |-> 0]
-----------------------------------------------------------------------------
(* Learning *)

\* record, for every bucket of S: only what was unseen or is louder changes.
Louder(floor, S, d) == {i \in S : floor.duty[i] < d}

\* Mutant: the revision counts buckets, not changes.
RecordNew(floor, S, d) ==
  [duty |-> [i \in Bucket |->
               IF i \in Louder(floor, S, d) THEN d ELSE floor.duty[i]],
   revision |-> floor.revision
                + Cardinality({i \in S : floor.duty[i] = Unseen})]

Record(floor, S, d) ==
  [duty |-> [i \in Bucket |->
               IF i \in Louder(floor, S, d) THEN d ELSE floor.duty[i]],
   revision |-> floor.revision + Cardinality(Louder(floor, S, d))]

\* Mutant: the last bucket of a span is left out.
SpanHalfOpen(from, to) ==
  IF Tracked(from) /\ Tracked(to)
  THEN IF from <= to THEN BucketOf(from)..(BucketOf(to) - 1)
                     ELSE BucketOf(to)..(BucketOf(from) - 1)
  ELSE {BucketOf(c) : c \in {x \in {from, to} : Tracked(x)}}

\* The buckets a pair of samples speaks for: everything between the two, or, when
\* one is outside the tracked range, only the other's.
Span(from, to) ==
  IF Tracked(from) /\ Tracked(to)
  THEN IF from <= to THEN BucketOf(from)..BucketOf(to)
                     ELSE BucketOf(to)..BucketOf(from)
  ELSE {BucketOf(c) : c \in {x \in {from, to} : Tracked(x)}}

ObserveSpan(floor, from, to, d, rising) ==
  IF rising THEN Record(floor, Span(from, to), d) ELSE floor

\* Mutant: buckets nothing was seen in are exported too.
ObservationsAll(floor) == {<<LowEdge(i), floor.duty[i]>> : i \in Bucket}

\* Mutant: a bucket firmware was silent in is not worth writing down.
ObservationsAboveZero(floor) ==
  {<<LowEdge(i), floor.duty[i]>> : i \in {j \in Seen(floor) : floor.duty[j] > 0}}

\* What is written to the state file, and what is made of it when it is read:
\* entries outside the tracked range are dropped.
Observations(floor) == {<<LowEdge(i), floor.duty[i]>> : i \in Seen(floor)}

Loaded(pairs, i) == {p[2] : p \in {q \in pairs : Tracked(q[1]) /\ BucketOf(q[1]) = i}}
Restored(pairs) ==
  LET duty == [i \in Bucket |->
        IF Loaded(pairs, i) = {} THEN Unseen
        ELSE CHOOSE d \in Loaded(pairs, i) : \A e \in Loaded(pairs, i) : e <= d]
  IN [duty |-> duty,
      revision |-> Cardinality({i \in Bucket : duty[i] # Unseen})]
-----------------------------------------------------------------------------
(* Direction: rising or not, and the extreme since the last flip *)

ColdDirection == [rising |-> FALSE, extreme |-> NoTemp]

\* The trough while falling, the peak while rising; a sample beyond it moves it, a
\* sample at least DIRECTION_HYSTERESIS_C away from it turns the direction.
Extreme(dir, c) ==
  IF dir.extreme = NoTemp \/ (dir.rising <=> dir.extreme < c)
  THEN c ELSE dir.extreme

Turned(dir, c) ==
  IF dir.rising THEN c <= Extreme(dir, c) - DIRECTION_HYSTERESIS_C
                ELSE c >= Extreme(dir, c) + DIRECTION_HYSTERESIS_C

Update(dir, c) ==
  IF c = NoTemp THEN dir
  ELSE IF Turned(dir, c)
       THEN [rising |-> ~dir.rising, extreme |-> c]
       ELSE [dir EXCEPT !.extreme = Extreme(dir, c)]
-----------------------------------------------------------------------------
(* The floor *)

\* The margin and the break-away duty, applied to every duty but silence.
Permitted(d) ==
  LET m == IF d + FLOOR_MARGIN_DUTY > 255 THEN 255 ELSE d + FLOOR_MARGIN_DUTY
  IN IF d = 0 THEN 0 ELSE IF m < STICTION_DUTY THEN STICTION_DUTY ELSE m

\* An observation wins outright over the model, an observed silence included.
Observed(floor, c) == Tracked(c) /\ floor.duty[BucketOf(c)] # Unseen

FloorDuty(floor, c) ==
  IF c = NoTemp THEN 255
  ELSE Permitted(IF Observed(floor, c) THEN floor.duty[BucketOf(c)]
                                       ELSE Model[c])
=============================================================================

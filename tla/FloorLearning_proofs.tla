------------------------ MODULE FloorLearning_proofs ------------------------
(***************************************************************************)
(* What the learned floor is worth, for any number of buckets, any          *)
(* temperatures, boards, firmware and state file.                           *)
(***************************************************************************)
EXTENDS FloorLearning, FiniteSetTheorems, TLAPS

FloorType == [duty : [Bucket -> Observation], revision : Nat]
-----------------------------------------------------------------------------
(* Buckets *)

\* A tracked temperature has a bucket.
LEMMA BucketType ==
  ASSUME NEW c \in Int, Tracked(c)
  PROVE  BucketOf(c) \in Bucket
  BY FloorAssumption
  DEF Tracked, BucketOf, Bucket, BUCKET_BASE_C, BUCKET_C

\* Exporting a bucket by its low edge loses nothing.
LEMMA EdgeOfBucket ==
  ASSUME NEW i \in Bucket
  PROVE  LowEdge(i) \in Int /\ Tracked(LowEdge(i)) /\ BucketOf(LowEdge(i)) = i
  BY FloorAssumption
  DEF LowEdge, Tracked, BucketOf, Bucket, BUCKET_BASE_C, BUCKET_C

\* A span credits buckets only, and that of its end among them.
LEMMA SpanFacts ==
  ASSUME NEW from \in Int, NEW to \in Int
  PROVE  /\ Span(from, to) \subseteq Bucket
         /\ Tracked(to) => BucketOf(to) \in Span(from, to)
<1>1. CASE Tracked(from) /\ Tracked(to)
  <2>1. BucketOf(from) \in Bucket /\ BucketOf(to) \in Bucket
    BY <1>1, BucketType
  <2>2. from <= to => BucketOf(from) <= BucketOf(to)
    BY DEF BucketOf, BUCKET_BASE_C, BUCKET_C
  <2>3. ~(from <= to) => BucketOf(to) <= BucketOf(from)
    BY DEF BucketOf, BUCKET_BASE_C, BUCKET_C
  <2> QED BY <1>1, <2>1, <2>2, <2>3, FloorAssumption DEF Span, Bucket
<1>2. CASE ~(Tracked(from) /\ Tracked(to))
  <2>1. Span(from, to) = {BucketOf(c) : c \in {x \in {from, to} : Tracked(x)}}
    BY <1>2 DEF Span
  <2> QED BY <2>1, BucketType
<1> QED BY <1>1, <1>2

\* The largest of some duties, without induction: m counts the numbers below one of
\* them, so none is above m, and were m not one of them there would be fewer.
LEMMA LoudestExists ==
  ASSUME NEW D \in SUBSET Duty, D # {}
  PROVE  \E m \in D : \A e \in D : e <= m
<1> DEFINE below == {n \in 0..254 : \E e \in D : n < e}
<1>1. IsFiniteSet(0..254)
  <2>1. 0 \in Int /\ 254 \in Int
    OBVIOUS
  <2> HIDE DEF below
  <2> QED BY <2>1, FS_Interval
<1>2. below \in SUBSET (0..254)
  OBVIOUS
<1>3. IsFiniteSet(below)
  BY <1>1, <1>2, FS_Subset
<1>4. Cardinality(below) \in Nat
  BY <1>3, FS_CardinalityType
<1>5. PICK m \in Nat : m = Cardinality(below)
  BY <1>4
<1>6. ASSUME NEW e \in D PROVE e <= m
  <2>1. e \in Int /\ e >= 0 /\ e <= 255
    BY DEF Duty
  <2>2. 0..(e - 1) \in SUBSET below
    BY <2>1
  <2>3. Cardinality(0..(e - 1)) = e
    BY <2>1, FS_Interval
  <2> HIDE DEF below
  <2>4. Cardinality(0..(e - 1)) <= Cardinality(below)
    BY <2>2, <1>3, FS_Subset
  <2> QED BY <2>3, <2>4, <1>5
<1>7. m \in D
  <2> SUFFICES ASSUME m \notin D PROVE FALSE
    OBVIOUS
  <2>1. \A e \in D : e \in Nat /\ e < m
    <3> HIDE DEF below
    <3> TAKE e \in D
    <3>1. e <= m /\ e # m
      BY <1>6
    <3> QED BY <3>1 DEF Duty
  <2>2. below \in SUBSET (0..(m - 2))
    BY <2>1
  <2> HIDE DEF below
  <2>3. m >= 1
    BY <2>1
  <2>4. Cardinality(0..(m - 2)) = m - 1 /\ IsFiniteSet(0..(m - 2))
    BY <2>3, FS_Interval
  <2>5. Cardinality(below) <= Cardinality(0..(m - 2))
    BY <2>2, <2>4, FS_Subset
  <2> QED BY <2>3, <2>4, <2>5, <1>5
<1> QED BY <1>6, <1>7
-----------------------------------------------------------------------------
(* Learning *)

\* Observations are numbers.
LEMMA NumberFacts ==
  /\ \A f \in FloorType : \A i \in Bucket : f.duty[i] \in Int
  /\ \A h \in [Celsius -> Observation] : \A c \in Celsius : h[c] \in Int
<1>1. Observation \subseteq Int
  BY DEF Observation, Unseen, Duty
<1> QED BY <1>1 DEF FloorType

\* Recording takes nothing back, makes every credited bucket at least as loud as the
\* duty, and changes something exactly when it moves the revision.
LEMMA RecordFacts ==
  ASSUME NEW f \in FloorType, NEW S \in SUBSET Bucket, NEW d \in Duty
  PROVE  /\ Record(f, S, d) \in FloorType
         /\ \A i \in Bucket : Record(f, S, d).duty[i] >= f.duty[i]
         /\ \A i \in S : Record(f, S, d).duty[i] >= d
         /\ Record(f, S, d) = f \/ Record(f, S, d).revision > f.revision
<1> DEFINE L == Louder(f, S, d)
           n == Cardinality(L)
<1>1. L \in SUBSET Bucket
  BY DEF Louder
<1>2. IsFiniteSet(Bucket)
  BY FloorAssumption, FS_Interval DEF Bucket
<1>3. n \in Nat /\ (n = 0 <=> L = {})
  BY <1>1, <1>2, FS_Subset, FS_CardinalityType, FS_EmptySet
<1>4. f.duty \in [Bucket -> Observation] /\ f.revision \in Nat
  BY DEF FloorType
<1>5. d \in Int /\ d \in Observation /\ \A i \in Bucket : f.duty[i] \in Int
  BY <1>4 DEF Observation, Unseen, Duty
<1>6. Record(f, S, d) = [duty |-> [i \in Bucket |-> IF i \in L THEN d ELSE f.duty[i]],
                         revision |-> f.revision + n]
  BY DEF Record
<1>7. \A i \in Bucket : i \in L <=> i \in S /\ f.duty[i] < d
  BY DEF Louder
<1> HIDE DEF L, n
<1>8. Record(f, S, d).duty = [i \in Bucket |-> IF i \in L THEN d ELSE f.duty[i]]
      /\ Record(f, S, d).revision = f.revision + n
  BY <1>6
<1>9. Record(f, S, d) \in FloorType
  BY <1>3, <1>4, <1>5, <1>6 DEF FloorType
<1>10. \A i \in Bucket : Record(f, S, d).duty[i] >= f.duty[i]
  BY <1>5, <1>7, <1>8
<1>11. \A i \in S : Record(f, S, d).duty[i] >= d
  BY <1>5, <1>7, <1>8
<1>12. CASE L = {}
  <2>1. n = 0
    BY <1>3, <1>12
  <2>2. [i \in Bucket |-> IF i \in L THEN d ELSE f.duty[i]] = f.duty
    BY <1>4, <1>12
  <2>3. Record(f, S, d) = [duty |-> f.duty, revision |-> f.revision]
    BY <1>4, <1>6, <2>1, <2>2
  <2>4. f = [duty |-> f.duty, revision |-> f.revision]
    BY DEF FloorType
  <2> QED BY <1>9, <1>10, <1>11, <2>3, <2>4
<1>13. CASE L # {}
  BY <1>3, <1>4, <1>8, <1>9, <1>10, <1>11, <1>13
<1> QED BY <1>12, <1>13

\* The same of a pair of samples, the last of which is tracked or not.
LEMMA ObserveFacts ==
  ASSUME NEW f \in FloorType, NEW from \in Int, NEW to \in Int, NEW d \in Duty,
         NEW rising \in BOOLEAN
  PROVE  LET g == ObserveSpan(f, from, to, d, rising) IN
         /\ g \in FloorType
         /\ \A i \in Bucket : g.duty[i] >= f.duty[i]
         /\ rising /\ Tracked(to) => g.duty[BucketOf(to)] >= d
         /\ g = f \/ g.revision > f.revision
<1>1. CASE rising
  <2>1. ObserveSpan(f, from, to, d, rising) = Record(f, Span(from, to), d)
    BY <1>1 DEF ObserveSpan
  <2> QED BY <2>1, SpanFacts, RecordFacts
<1>2. CASE ~rising
  <2>1. ObserveSpan(f, from, to, d, rising) = f
    BY <1>2 DEF ObserveSpan
  <2>2. \A i \in Bucket : f.duty[i] \in Int
    BY NumberFacts
  <2> QED BY <1>2, <2>1, <2>2
<1> QED BY <1>1, <1>2
-----------------------------------------------------------------------------
(* The state file *)

\* What is read of any file is a floor, and no entry in range is forgotten.
LEMMA RestoredFacts ==
  ASSUME NEW pairs \in SUBSET (Int \X Duty)
  PROVE  /\ Restored(pairs) \in FloorType
         /\ \A p \in pairs :
              Tracked(p[1]) => Restored(pairs).duty[BucketOf(p[1])] >= p[2]
<1> DEFINE best(i) == CHOOSE d \in Loaded(pairs, i) : \A e \in Loaded(pairs, i) : e <= d
           duty == [i \in Bucket |-> IF Loaded(pairs, i) = {} THEN Unseen ELSE best(i)]
           seen == {i \in Bucket : duty[i] # Unseen}
<1>1. Restored(pairs) = [duty |-> duty, revision |-> Cardinality(seen)]
  BY DEF Restored
<1>2. \A i \in Bucket : Loaded(pairs, i) \in SUBSET Duty
  BY DEF Loaded
<1>3. ASSUME NEW i \in Bucket, Loaded(pairs, i) # {}
      PROVE  best(i) \in Loaded(pairs, i) /\ \A e \in Loaded(pairs, i) : e <= best(i)
  <2>1. \E d \in Loaded(pairs, i) : \A e \in Loaded(pairs, i) : e <= d
    BY <1>2, <1>3, LoudestExists
  <2> QED BY <2>1
<1> HIDE DEF best
<1>4. duty \in [Bucket -> Observation]
  BY <1>2, <1>3 DEF Observation
<1>5. Cardinality(seen) \in Nat
  <2>1. IsFiniteSet(Bucket)
    BY FloorAssumption, FS_Interval DEF Bucket
  <2>2. seen \in SUBSET Bucket
    OBVIOUS
  <2> HIDE DEF seen, duty
  <2> QED BY <2>1, <2>2, FS_Subset, FS_CardinalityType
<1>6. ASSUME NEW p \in pairs, Tracked(p[1])
      PROVE  duty[BucketOf(p[1])] >= p[2]
  <2>1. p[1] \in Int /\ p[2] \in Duty
    OBVIOUS
  <2>2. BucketOf(p[1]) \in Bucket
    BY <2>1, <1>6, BucketType
  <2>3. p[2] \in Loaded(pairs, BucketOf(p[1]))
    BY <1>6 DEF Loaded
  <2>4. p[2] <= best(BucketOf(p[1])) /\ best(BucketOf(p[1])) \in Duty
    BY <2>2, <2>3, <1>2, <1>3
  <2> QED BY <2>1, <2>2, <2>3, <2>4 DEF Duty
<1> QED BY <1>1, <1>4, <1>5, <1>6 DEF FloorType

\* What is written is a list of degrees and duties.
LEMMA ObservationsType ==
  ASSUME NEW f \in FloorType
  PROVE  Observations(f) \in SUBSET (Int \X Duty)
<1>1. \A i \in Seen(f) : LowEdge(i) \in Int /\ f.duty[i] \in Duty
  BY EdgeOfBucket DEF Seen, FloorType, Observation
<1> QED BY <1>1 DEF Observations

\* A restart knows exactly what was saved: observations written out and read back are
\* the same floor (the revision starts over).
THEOREM RoundTrip ==
  ASSUME NEW f \in FloorType
  PROVE  Restored(Observations(f)).duty = f.duty
<1> DEFINE pairs == Observations(f)
<1>1. f.duty \in [Bucket -> Observation]
  BY DEF FloorType
<1>2. ASSUME NEW i \in Bucket
      PROVE  Loaded(pairs, i) = IF f.duty[i] = Unseen THEN {} ELSE {f.duty[i]}
  <2>1. \A q \in pairs : \E j \in Seen(f) :
          q = <<LowEdge(j), f.duty[j]>> /\ Tracked(q[1]) /\ BucketOf(q[1]) = j
    BY EdgeOfBucket DEF Observations, Seen
  <2>2. \A j \in Seen(f) : <<LowEdge(j), f.duty[j]>> \in pairs
    BY DEF Observations
  <2> HIDE DEF pairs
  <2>3. Loaded(pairs, i) \subseteq {f.duty[j] : j \in Seen(f) \cap {i}}
    BY <2>1 DEF Loaded
  <2>4. i \in Seen(f) => f.duty[i] \in Loaded(pairs, i)
    <3> SUFFICES ASSUME i \in Seen(f) PROVE f.duty[i] \in Loaded(pairs, i)
      OBVIOUS
    <3> DEFINE q == <<LowEdge(i), f.duty[i]>>
    <3>1. q \in pairs /\ q[1] = LowEdge(i) /\ q[2] = f.duty[i]
      BY <2>2
    <3>2. Tracked(q[1]) /\ BucketOf(q[1]) = i
      BY <3>1, EdgeOfBucket
    <3> HIDE DEF q
    <3> QED BY <3>1, <3>2 DEF Loaded
  <2> QED BY <2>3, <2>4 DEF Seen
<1> HIDE DEF pairs
<1>3. \A i \in Bucket :
        (IF Loaded(pairs, i) = {} THEN Unseen
         ELSE CHOOSE d \in Loaded(pairs, i) : \A e \in Loaded(pairs, i) : e <= d)
        = f.duty[i]
  <2> TAKE i \in Bucket
  <2>1. CASE f.duty[i] = Unseen
    BY <1>2, <2>1
  <2>2. CASE f.duty[i] # Unseen
    <3>1. Loaded(pairs, i) = {f.duty[i]} /\ f.duty[i] \in Int
      BY <1>1, <1>2, <2>2 DEF Observation, Duty
    <3>2. (CHOOSE d \in {f.duty[i]} : \A e \in {f.duty[i]} : e <= d) = f.duty[i]
      BY <3>1
    <3> QED BY <3>1, <3>2
  <2> QED BY <2>1, <2>2
<1>4. Restored(pairs).duty =
        [i \in Bucket |->
           IF Loaded(pairs, i) = {} THEN Unseen
           ELSE CHOOSE d \in Loaded(pairs, i) : \A e \in Loaded(pairs, i) : e <= d]
  BY DEF Restored
<1>5. Restored(pairs).duty = [i \in Bucket |-> f.duty[i]]
  BY <1>3, <1>4
<1> QED BY <1>1, <1>5 DEF pairs
-----------------------------------------------------------------------------
(* Type correctness *)

HistType == [heard : [Celsius -> Observation], origin : SUBSET Origin,
             saved : [Celsius -> Observation], savedOrigin : SUBSET Origin]
ShotType == [floor : SUBSET (Int \X Duty), heard : [Celsius -> Observation],
             origin : SUBSET Origin]

\* The direction stays a direction.
LEMMA UpdateType ==
  ASSUME NEW d \in [rising : BOOLEAN, extreme : Sample], NEW c \in Sample
  PROVE  Update(d, c) \in [rising : BOOLEAN, extreme : Sample]
<1>1. Extreme(d, c) \in Sample
  BY DEF Extreme
<1> QED BY <1>1 DEF Update

\* A machine that knows nothing.
LEMMA FreshType == FreshFloor \in FloorType
  BY DEF FreshFloor, FloorType, Observation

LEMMA NothingType == NothingHeard \in [Celsius -> Observation]
  BY DEF NothingHeard, Observation

\* So are the memory of a new process and a fan nobody has taken.
LEMMA BlankType ==
  /\ NoPast \in [celsius : Sample, duty : Duty \cup {NoDuty}]
  /\ ColdDirection \in [rising : BOOLEAN, extreme : Sample]
  /\ NoTick \in [at : {"idle", "observe"}, celsius : Sample, rising : BOOLEAN]
  /\ Firmware \in [owner : {"firmware", "manual"}, duty : Duty]
  /\ NoShot \in ShotType
<1>1. NoPast \in [celsius : Sample, duty : Duty \cup {NoDuty}]
  BY DEF NoPast, Sample
<1>2. ColdDirection \in [rising : BOOLEAN, extreme : Sample]
  BY DEF ColdDirection, Sample
<1>3. NoTick \in [at : {"idle", "observe"}, celsius : Sample, rising : BOOLEAN]
  BY DEF NoTick, Sample
<1>4. Firmware \in [owner : {"firmware", "manual"}, duty : Duty]
  BY DEF Firmware, Duty
<1>5. NoShot \in ShotType
  BY NothingType DEF NoShot, ShotType
<1> QED BY <1>1, <1>2, <1>3, <1>4, <1>5

\* What a process begins with is well typed.
LEMMA NoMemoryType ==
  ASSUME NoMemory
  PROVE  /\ savedRevision' \in Nat
         /\ past' \in [celsius : Sample, duty : Duty \cup {NoDuty}]
         /\ dir' \in [rising : BOOLEAN, extreme : Sample]
         /\ tick' \in [at : {"idle", "observe"}, celsius : Sample, rising : BOOLEAN]
         /\ fan' \in [owner : {"firmware", "manual"}, duty : Duty]
         /\ held' \in BOOLEAN
         /\ call' \in {"idle", "taken", "freed"}
         /\ shot' \in ShotType
  BY BlankType DEF NoMemory

\* Knowledge replaced by other knowledge.
LEMMA KnowType ==
  ASSUME hist \in HistType, NEW f \in FloorType,
         NEW heard \in [Celsius -> Observation], NEW origin \in SUBSET Origin,
         Know(f, heard, origin)
  PROVE  floor' \in FloorType /\ hist' \in HistType
  BY DEF Know, HistType

\* What there is to save, and a save.
LEMMA SnapshotType == TypeOK => Snapshot \in ShotType
<1> SUFFICES ASSUME TypeOK PROVE Snapshot \in ShotType
  OBVIOUS
<1>1. Observations(floor) \in SUBSET (Int \X Duty)
  BY ObservationsType DEF TypeOK, FloorType
<1>2. hist.heard \in [Celsius -> Observation] /\ hist.origin \in SUBSET Origin
  BY DEF TypeOK
<1> QED BY <1>1, <1>2 DEF Snapshot, ShotType

LEMMA SaveType ==
  ASSUME TypeOK, NEW s \in ShotType, SaveFloor(s)
  PROVE  /\ file' \in [floor : SUBSET (Int \X Duty), board : Board \cup {NoBoard}]
         /\ hist' \in HistType
<1>1. hist \in HistType /\ board \in Board
  BY DEF TypeOK, HistType
<1>2. s.floor \in SUBSET (Int \X Duty)
  BY DEF ShotType
<1>3. s.heard \in [Celsius -> Observation] /\ s.origin \in SUBSET Origin
  BY DEF ShotType
<1>4. file' \in [floor : SUBSET (Int \X Duty), board : Board \cup {NoBoard}]
  BY <1>1, <1>2 DEF SaveFloor
<1>5. hist' \in HistType
  BY <1>1, <1>3 DEF SaveFloor, HistType
<1> QED BY <1>4, <1>5

\* What an observation is made of: whole degrees and a duty.
LEMMA ObservedType ==
  ASSUME TypeOK, NEW d \in Readable, tick.celsius # NoTemp, d # NoDuty
  PROVE  /\ tick.celsius \in Celsius /\ tick.celsius \in Int
         /\ d \in Duty
         /\ From(tick.celsius, d) \in Int
         /\ Heard(tick.celsius, d) \in [Celsius -> Observation]
<1>1. tick.celsius \in Celsius /\ tick.celsius \in Int
  BY FloorAssumption DEF TypeOK, Sample
<1>2. d \in Duty
  BY LearningAssumption DEF TypeOK, Readable
<1>3. From(tick.celsius, d) \in Int
  BY <1>1, FloorAssumption DEF TypeOK, From, Sample
<1>4. Heard(tick.celsius, d) \in [Celsius -> Observation]
  BY <1>1, <1>2 DEF TypeOK, Heard, Observation
<1> QED BY <1>1, <1>2, <1>3, <1>4

\* Every step keeps the types.
LEMMA TypeStep == TypeOK /\ [Next]_vars => TypeOK'
<1> SUFFICES ASSUME TypeOK, [Next]_vars PROVE TypeOK'
  OBVIOUS
<1>0. floor \in FloorType /\ hist \in HistType /\ shot \in ShotType
  BY DEF TypeOK, FloorType, HistType, ShotType
<1>1. CASE Start
  <2>1. Restored(file.floor) \in FloorType
    BY RestoredFacts DEF TypeOK
  <2>2. hist.saved \in [Celsius -> Observation] /\ hist.savedOrigin \in SUBSET Origin
    BY <1>0 DEF HistType
  <2>3. floor' \in FloorType /\ hist' \in HistType
    BY <1>0, <1>1, <2>1, <2>2, KnowType, FreshType, NothingType DEF Start
  <2>4. NoMemory /\ proc' = "up" /\ UNCHANGED <<board, file>>
        /\ budget' = [budget EXCEPT !.starts = @ + 1]
    BY <1>1 DEF Start
  <2> QED BY <2>3, <2>4, NoMemoryType DEF TypeOK, FloorType, HistType, ShotType
<1>2. CASE ShutdownSave
  BY <1>0, <1>2, SaveType DEF ShutdownSave, TypeOK, HistType
<1>3. CASE Stop
  <2>1. floor' \in FloorType /\ hist' \in HistType
    BY <1>0, <1>3, KnowType, FreshType, NothingType DEF Stop
  <2>2. NoMemory /\ proc' = "off" /\ UNCHANGED <<board, file, budget>>
    BY <1>3 DEF Stop
  <2> QED BY <2>1, <2>2, NoMemoryType DEF TypeOK, FloorType, HistType, ShotType
<1>4. CASE Move
  BY <1>4 DEF Move, TypeOK
<1>5. CASE Take
  <2>1. \A d \in CallDuty : Manual(d) \in [owner : {"firmware", "manual"}, duty : Duty]
    BY LearningAssumption DEF Manual
  <2>2. fan' \in [owner : {"firmware", "manual"}, duty : Duty]
        /\ call' \in {"idle", "taken", "freed"}
    BY <1>5, <2>1, BlankType DEF Take, TypeOK
  <2>3. budget' \in [ticks : Nat, calls : Nat, starts : Nat]
    BY <1>5 DEF Take, Calls, TypeOK
  <2> QED BY <1>5, <2>2, <2>3 DEF Take, TypeOK
<1>6. CASE GiveBack
  BY <1>6 DEF GiveBack, Calls, Firmware, Duty, TypeOK
<1>7. CASE Mark
  BY <1>7 DEF Mark, TypeOK
<1>8. CASE PollSave
  BY <1>0, <1>8, SnapshotType, SaveType DEF PollSave, TypeOK, HistType
<1>9. CASE Govern
  <2>1. PICK c \in Sample :
          /\ dir' = Update(dir, c)
          /\ tick' = [at |-> "observe", celsius |-> c,
                      rising |-> (c # NoTemp /\ dir'.rising) \/ ~DependsOnDirection]
    BY <1>9 DEF Govern
  <2>2. dir' \in [rising : BOOLEAN, extreme : Sample]
    BY <2>1, UpdateType DEF TypeOK
  <2>3. tick' \in [at : {"idle", "observe"}, celsius : Sample, rising : BOOLEAN]
    BY <2>1
  <2> QED BY <1>9, <2>2, <2>3 DEF Govern, Ticks, TypeOK
<1>10. CASE Enforce
  <2>1. PICK c \in Sample :
          /\ dir' = Update(dir, c)
          /\ past' = [past EXCEPT !.celsius = c]
          /\ \/ c # NoTemp /\ fan' \in {fan, Firmware} \cup {Manual(d) : d \in CallDuty}
                /\ UNCHANGED held
             \/ fan' \in {Firmware, fan} /\ held' = FALSE
    BY <1>10 DEF Enforce
  <2>2. dir' \in [rising : BOOLEAN, extreme : Sample]
    BY <2>1, UpdateType DEF TypeOK
  <2>3. past' \in [celsius : Sample, duty : Duty \cup {NoDuty}]
    BY <2>1 DEF TypeOK
  <2>4. fan' \in [owner : {"firmware", "manual"}, duty : Duty] /\ held' \in BOOLEAN
    <3>1. fan \in [owner : {"firmware", "manual"}, duty : Duty] /\ held \in BOOLEAN
      BY DEF TypeOK
    <3>2. Firmware \in [owner : {"firmware", "manual"}, duty : Duty]
      BY DEF Firmware, Duty
    <3>3. \A d \in CallDuty : Manual(d) \in [owner : {"firmware", "manual"}, duty : Duty]
      BY LearningAssumption DEF Manual
    <3> QED BY <2>1, <3>1, <3>2, <3>3
  <2> QED BY <1>10, <2>2, <2>3, <2>4 DEF Enforce, Ticks, TypeOK
<1>11. CASE Observe
  <2>1. PICK d \in Readable :
          IF tick.celsius # NoTemp /\ d # NoDuty
          THEN /\ floor' = ObserveSpan(floor, From(tick.celsius, d), tick.celsius, d,
                                       tick.rising)
               /\ past' = [celsius |-> tick.celsius, duty |-> d]
               /\ hist' = [hist EXCEPT
                    !.heard = Heard(tick.celsius, d),
                    !.origin = IF Recorded(tick.celsius, d)
                               THEN @ \cup {Profile[board]} ELSE @]
          ELSE /\ past' = [celsius |-> tick.celsius, duty |-> NoDuty]
               /\ UNCHANGED <<floor, hist>>
    BY <1>11 DEF Observe
  <2>2. CASE tick.celsius # NoTemp /\ d # NoDuty
    <3> DEFINE c == tick.celsius
               from == From(c, d)
    <3>0. /\ c \in Celsius /\ c \in Int /\ from \in Int /\ d \in Duty
          /\ Heard(c, d) \in [Celsius -> Observation] /\ tick.rising \in BOOLEAN
      BY <2>2, ObservedType DEF TypeOK
    <3>1. floor' \in FloorType
      <4>1. floor' = ObserveSpan(floor, from, c, d, tick.rising)
        BY <2>1, <2>2
      <4> HIDE DEF c, from
      <4> QED BY <4>1, <1>0, <3>0, ObserveFacts
    <3>2. past' \in [celsius : Sample, duty : Duty \cup {NoDuty}]
      BY <2>1, <2>2, <3>0 DEF Sample
    <3>3. Profile[board] \in Origin
      BY DEF TypeOK, Origin
    <3>4. hist' \in HistType
      <4> DEFINE origin == IF Recorded(c, d) THEN hist.origin \cup {Profile[board]}
                           ELSE hist.origin
      <4>1. hist' = [hist EXCEPT !.heard = Heard(c, d), !.origin = origin]
        BY <2>1, <2>2
      <4>2. origin \in SUBSET Origin
        BY <1>0, <3>3 DEF HistType
      <4> HIDE DEF origin, c
      <4> QED BY <1>0, <3>0, <4>1, <4>2 DEF HistType
    <3> QED BY <1>11, <3>1, <3>2, <3>4
        DEF Observe, NoTick, Sample, TypeOK, FloorType, HistType
  <2>3. CASE ~(tick.celsius # NoTemp /\ d # NoDuty)
    BY <1>11, <2>1, <2>3 DEF Observe, NoTick, Sample, TypeOK
  <2> QED BY <2>2, <2>3
<1>12. CASE UNCHANGED vars
  BY <1>12 DEF vars, TypeOK
<1>13. CASE ShutdownSnapshot
  BY <1>0, <1>13, SnapshotType DEF ShutdownSnapshot, TypeOK, ShotType
<1> QED BY <1>1, <1>2, <1>3, <1>4, <1>5, <1>6, <1>7, <1>8, <1>9, <1>10, <1>11, <1>12,
           <1>13
    DEF Next

\* The initial state is well typed.
LEMMA TypeInit == Init => TypeOK
<1> SUFFICES ASSUME Init PROVE TypeOK
  OBVIOUS
<1>1. floor \in FloorType
  BY FreshType DEF Init
<1>2. hist \in HistType
  BY NothingType DEF Init, HistType, Origin
<1>3. file \in [floor : SUBSET (Int \X Duty), board : Board \cup {NoBoard}]
  BY LearningAssumption DEF Init
<1> QED BY <1>1, <1>2, <1>3, BlankType DEF Init, TypeOK, FloorType, HistType, ShotType

\* Types, of the state file and of all that is learned from it.
THEOREM TypeCorrect == Spec => []TypeOK
  BY TypeInit, TypeStep, PTL DEF Spec
-----------------------------------------------------------------------------
(* What one observation does, whatever the lease does meanwhile *)

\* An observation: the floor keeps all it had, and where the history heard firmware
\* the floor has it.
LEMMA ObserveStep ==
  ASSUME TypeOK, Observe
  PROVE  /\ floor' \in FloorType
         /\ \A i \in Bucket : floor'.duty[i] >= floor.duty[i]
         /\ floor' = floor \/ floor'.revision > floor.revision
         /\ hist'.saved = hist.saved /\ hist'.savedOrigin = hist.savedOrigin
         /\ hist'.origin \subseteq hist.origin \cup {Profile[board]}
         /\ \A c \in Celsius :
              \/ hist'.heard[c] = hist.heard[c]
              \/ Tracked(c) /\ hist'.heard[c] <= floor'.duty[BucketOf(c)]
<1>1. floor \in FloorType /\ hist \in HistType /\ tick.rising \in BOOLEAN
  BY DEF TypeOK, FloorType, HistType
<1>2. PICK d \in Readable :
        IF tick.celsius # NoTemp /\ d # NoDuty
        THEN /\ floor' = ObserveSpan(floor, From(tick.celsius, d), tick.celsius, d,
                                     tick.rising)
             /\ hist' = [hist EXCEPT
                  !.heard = Heard(tick.celsius, d),
                  !.origin = IF Recorded(tick.celsius, d)
                             THEN @ \cup {Profile[board]} ELSE @]
        ELSE UNCHANGED <<floor, hist>>
  BY DEF Observe
<1>3. CASE tick.celsius # NoTemp /\ d # NoDuty
  <2> DEFINE t == tick.celsius
             from == From(t, d)
  <2>1. t \in Celsius /\ t \in Int /\ from \in Int /\ d \in Duty
    BY <1>3, ObservedType
  <2>2. floor' = ObserveSpan(floor, from, t, d, tick.rising)
    BY <1>2, <1>3
  <2>3. /\ hist'.heard = Heard(t, d)
        /\ hist'.saved = hist.saved /\ hist'.savedOrigin = hist.savedOrigin
        /\ hist'.origin \subseteq hist.origin \cup {Profile[board]}
    BY <1>1, <1>2, <1>3 DEF HistType
  <2>4. /\ floor' \in FloorType
        /\ \A i \in Bucket : floor'.duty[i] >= floor.duty[i]
        /\ tick.rising /\ Tracked(t) => floor'.duty[BucketOf(t)] >= d
        /\ floor' = floor \/ floor'.revision > floor.revision
    <3> HIDE DEF t, from
    <3> QED BY <1>1, <2>1, <2>2, ObserveFacts
  <2>5. ASSUME NEW c \in Celsius, Heard(t, d)[c] # hist.heard[c]
        PROVE  Tracked(c) /\ Heard(t, d)[c] <= floor'.duty[BucketOf(c)]
    <3>1. c = t /\ tick.rising /\ Tracked(t) /\ Heard(t, d)[c] = d
      BY <1>1, <2>1, <2>5 DEF Heard, HistType
    <3>2. BucketOf(t) \in Bucket
      BY <2>1, <3>1, BucketType
    <3>3. floor'.duty[BucketOf(t)] >= d /\ floor'.duty[BucketOf(t)] \in Int
      <4> HIDE DEF t
      <4> QED BY <2>4, <3>1, <3>2 DEF FloorType, Observation, Unseen, Duty
    <3> HIDE DEF t
    <3> QED BY <2>1, <3>1, <3>3 DEF Duty
  <2> HIDE DEF t
  <2> QED BY <2>3, <2>4, <2>5
<1>4. CASE ~(tick.celsius # NoTemp /\ d # NoDuty)
  <2>1. floor' = floor /\ hist' = hist
    BY <1>2, <1>4
  <2>2. \A i \in Bucket : floor.duty[i] \in Int
    BY <1>1, NumberFacts
  <2> QED BY <1>1, <2>1, <2>2
<1> QED BY <1>3, <1>4

\* The steps that touch neither the floor, nor the file, nor what is known of both.
Idle == UNCHANGED <<board, file, floor, savedRevision, shot, hist>>

\* Every step is a start, a snapshot, a save, a stop, a move, an observation, or none of these.
LEMMA Steps ==
  ASSUME [Next]_vars
  PROVE  \/ Start \/ ShutdownSnapshot \/ ShutdownSave \/ Stop \/ Move \/ PollSave \/ Observe
         \/ Idle /\ proc' = proc
<1>1. CASE Take \/ GiveBack \/ Mark
  BY <1>1 DEF Take, GiveBack, Mark, Idle
<1>2. CASE Govern \/ Enforce
  BY <1>2 DEF Govern, Enforce, Idle
<1>3. CASE UNCHANGED vars
  BY <1>3 DEF vars, Idle
<1> QED BY <1>1, <1>2, <1>3 DEF Next

\* What is read of nothing, and of what was just written.
LEMMA MemoryFacts ==
  /\ Restored({}).duty = Memory!Blank
  /\ FreshFloor.duty = Memory!Blank
  /\ TypeOK => Restored(Snapshot.floor).duty = floor.duty
<1>1. \A i \in Bucket : Loaded({}, i) = {}
  BY DEF Loaded
<1>2. Restored({}).duty = Memory!Blank
  BY <1>1 DEF Restored, Memory!Blank
<1>3. FreshFloor.duty = Memory!Blank
  BY DEF FreshFloor, Memory!Blank
<1>4. TypeOK => Restored(Snapshot.floor).duty = floor.duty
  BY RoundTrip DEF TypeOK, FloorType, Snapshot
<1> QED BY <1>2, <1>3, <1>4

\* Learning, saving, shutting down and starting again implement FloorMemory: while the
\* process lives no bucket falls, and a start knows exactly what was saved, or nothing,
\* under any interleaving of calls, samples, saves and crashes.
THEOREM FloorRemembers == Spec => FloorIsMemory
<1>1. Init => Memory!MemoryInit
  <2> SUFFICES ASSUME Init PROVE Memory!MemoryInit
    OBVIOUS
  <2>1. file.floor \in SUBSET (Int \X Duty)
    BY TypeInit DEF TypeOK
  <2>2. Restored(file.floor).duty \in [Bucket -> Observation]
    BY <2>1, RestoredFacts DEF FloorType
  <2>3. ~Running /\ floor = FreshFloor /\ shot.floor = {}
    BY DEF Init, Running, NoShot
  <2> QED BY <2>2, <2>3, MemoryFacts DEF Memory!MemoryInit, Memory!Asleep
<1>2. TypeOK /\ [Next]_vars => [Memory!MemoryNext]_(Memory!memoryVars)
  <2> SUFFICES ASSUME TypeOK, [Next]_vars
               PROVE  Memory!MemoryNext \/ UNCHANGED Memory!memoryVars
    OBVIOUS
  <2>1. CASE Start
    <3>1. ~Running /\ Running' /\ UNCHANGED file /\ shot'.floor = {}
      BY <2>1 DEF Start, Running, NoMemory, NoShot
    <3>2. floor' = Restored(file.floor) \/ floor' = FreshFloor
      BY <2>1 DEF Start, Know
    <3>3. floor'.duty \in {Restored(file.floor).duty, Memory!Blank}
      BY <3>2, MemoryFacts
    <3>4. Memory!Wake
      BY <3>1, <3>3, MemoryFacts DEF Memory!Wake
    <3> QED BY <3>4 DEF Memory!MemoryNext
  <2>2. CASE ShutdownSnapshot
    <3>1. Running /\ Running' /\ UNCHANGED <<file, floor>>
      BY <2>2 DEF ShutdownSnapshot, Running
    <3>2. CASE shot' = shot
      BY <3>1, <3>2 DEF Memory!memoryVars
    <3>3. CASE shot' = Snapshot
      <4>1. Memory!TakeAside
        BY <3>1, <3>3, MemoryFacts DEF Memory!TakeAside
      <4> QED BY <4>1 DEF Memory!MemoryNext
    <3> QED BY <2>2, <3>2, <3>3 DEF ShutdownSnapshot
  <2>3. CASE ShutdownSave
    <3>1. Running /\ Running' /\ file'.floor = shot.floor /\ UNCHANGED <<floor, shot>>
      BY <2>3 DEF ShutdownSave, Running, SaveFloor
    <3>2. Memory!SaveAside
      BY <3>1 DEF Memory!SaveAside
    <3> QED BY <3>2 DEF Memory!MemoryNext
  <2>4. CASE PollSave
    <3>1. Running /\ Running' /\ file'.floor = Snapshot.floor /\ UNCHANGED <<floor, shot>>
      BY <2>4 DEF PollSave, Running, SaveFloor
    <3>2. Memory!SaveNow
      BY <3>1, MemoryFacts DEF Memory!SaveNow
    <3> QED BY <3>2 DEF Memory!MemoryNext
  <2>5. CASE Stop
    <3>1. Running /\ ~Running' /\ UNCHANGED file /\ floor' = FreshFloor /\ shot'.floor = {}
      BY <2>5 DEF Stop, Running, NoMemory, NoShot, Know
    <3>2. Memory!Sleep
      BY <3>1, MemoryFacts DEF Memory!Sleep, Memory!Asleep, Memory!Blank
    <3> QED BY <3>2 DEF Memory!MemoryNext
  <2>6. CASE Observe
    <3>1. Running /\ Running' /\ UNCHANGED <<file, shot>>
      BY <2>6 DEF Observe, Running
    <3>2. /\ floor'.duty \in [Bucket -> Observation]
          /\ \A i \in Bucket : floor'.duty[i] >= floor.duty[i]
      BY <2>6, ObserveStep DEF FloorType
    <3>3. Memory!Learn
      BY <3>1, <3>2 DEF Memory!Learn
    <3> QED BY <3>3 DEF Memory!MemoryNext
  <2>7. CASE Move \/ (Idle /\ proc' = proc)
    BY <2>7 DEF Move, Idle, Running, Memory!memoryVars
  <2> QED BY <2>1, <2>2, <2>3, <2>4, <2>5, <2>6, <2>7, Steps
<1> QED BY <1>1, <1>2, TypeCorrect, PTL DEF Spec, FloorIsMemory, Memory!MemorySpec
-----------------------------------------------------------------------------
(* Where what is known comes from *)

\* The profile of the board the file was learned on.
FileProfile == IF file.board = NoBoard THEN LegacyProfile ELSE Profile[file.board]

\* What is in use, and what shutdown is about to save, was learned here, and what is
\* saved where the file says: only the last part carries NoForeignFloor over a
\* restart on another machine.
OriginInv == /\ NoForeignFloor
             /\ proc = "saving" => shot.origin \subseteq {Profile[board]}
             /\ hist.savedOrigin \subseteq {FileProfile}

\* A save writes down the board it is made on.
LEMMA SaveOrigin ==
  ASSUME TypeOK, NEW s \in ShotType, s.origin \subseteq {Profile[board]},
         SaveFloor(s), UNCHANGED board
  PROVE  hist'.savedOrigin \subseteq {FileProfile'} /\ hist'.origin = hist.origin
<1>1. hist' = [hist EXCEPT !.saved = s.heard, !.savedOrigin = s.origin]
      /\ file'.board = board
  BY DEF SaveFloor
<1>2. hist'.origin = hist.origin /\ hist'.savedOrigin = s.origin
  BY <1>1 DEF TypeOK
<1>3. FileProfile' = Profile[board]
  BY <1>1, LearningAssumption DEF FileProfile, TypeOK
<1> QED BY <1>2, <1>3

\* A floor from another board's profile is never used, wherever the disk has been.
THEOREM NativeFloor == Spec => []NoForeignFloor
<1>1. Init => OriginInv
  BY DEF Init, OriginInv, NoForeignFloor, Running, FileProfile
<1>2. TypeOK /\ OriginInv /\ [Next]_vars => OriginInv'
  <2> SUFFICES ASSUME TypeOK, OriginInv, [Next]_vars PROVE OriginInv'
    OBVIOUS
  <2>0. hist \in HistType /\ shot \in ShotType
    BY DEF TypeOK, HistType, ShotType
  <2>1. CASE Start
    <3>1. UNCHANGED <<board, file>> /\ proc' = "up" /\ hist'.savedOrigin = hist.savedOrigin
      BY <2>0, <2>1 DEF Start, Know, HistType
    <3>2. hist'.origin = IF Applies(file.board) THEN hist.savedOrigin ELSE {}
      BY <2>0, <2>1 DEF Start, Know, HistType
    <3>3. Applies(file.board) => FileProfile = Profile[board]
      BY DEF Applies, FileProfile
    <3> QED BY <3>1, <3>2, <3>3 DEF OriginInv, NoForeignFloor, FileProfile
  <2>2. CASE ShutdownSave
    <3>1. proc' = "saved" /\ UNCHANGED board /\ Running /\ SaveFloor(shot)
          /\ shot.origin \subseteq {Profile[board]}
      BY <2>2 DEF ShutdownSave, Running, OriginInv
    <3> QED BY <2>0, <3>1, SaveOrigin DEF OriginInv, NoForeignFloor
  <2>8. CASE ShutdownSnapshot
    <3>1. Running /\ UNCHANGED <<board, file, hist>> /\ proc' \in {"saving", "saved"}
          /\ (proc' = "saving" => shot' = Snapshot)
      BY <2>8 DEF ShutdownSnapshot, Running
    <3>2. Snapshot.origin = hist.origin
      BY DEF Snapshot
    <3> QED BY <3>1, <3>2 DEF OriginInv, NoForeignFloor, FileProfile
  <2>3. CASE Stop
    <3>1. UNCHANGED <<board, file>> /\ proc' = "off"
          /\ hist'.savedOrigin = hist.savedOrigin
      BY <2>0, <2>3 DEF Stop, Know, HistType
    <3> QED BY <3>1 DEF OriginInv, NoForeignFloor, Running, FileProfile
  <2>4. CASE Move
    BY <2>4 DEF Move, OriginInv, NoForeignFloor, Running, FileProfile
  <2>5. CASE PollSave
    <3>1. Running /\ SaveFloor(Snapshot) /\ UNCHANGED <<board, proc, shot>>
      BY <2>5 DEF PollSave
    <3>2. Snapshot.origin \subseteq {Profile[board]}
      BY <3>1 DEF OriginInv, NoForeignFloor, Snapshot
    <3> QED BY <3>1, <3>2, SnapshotType, SaveOrigin DEF OriginInv, NoForeignFloor, Running
  <2>6. CASE Observe
    <3>1. UNCHANGED <<board, proc, file, shot>> /\ Running
      BY <2>6 DEF Observe
    <3>2. hist'.savedOrigin = hist.savedOrigin
          /\ hist'.origin \subseteq hist.origin \cup {Profile[board]}
      BY <2>6, ObserveStep
    <3> QED BY <3>1, <3>2 DEF OriginInv, NoForeignFloor, FileProfile
  <2>7. CASE Idle /\ proc' = proc
    BY <2>7 DEF Idle, OriginInv, NoForeignFloor, Running, FileProfile
  <2> QED BY <2>1, <2>2, <2>3, <2>4, <2>5, <2>6, <2>7, <2>8, Steps
<1>3. OriginInv => NoForeignFloor
  BY DEF OriginInv
<1> QED BY <1>1, <1>2, <1>3, TypeCorrect, PTL DEF Spec
-----------------------------------------------------------------------------
(* What is saved *)

\* The saved revision is never ahead: otherwise learning could bring the revision up
\* to it again with something that was not saved.
RevisionInv == /\ SavedMeansSaved
               /\ savedRevision <= floor.revision

\* Between two saves of one revision nothing was learned that the file lacks.
THEOREM NothingUnsaved == Spec => []SavedMeansSaved
<1>1. Init => RevisionInv
  BY DEF Init, RevisionInv, SavedMeansSaved, FreshFloor
<1>2. TypeOK /\ RevisionInv /\ [Next]_vars => RevisionInv'
  <2> SUFFICES ASSUME TypeOK, RevisionInv, [Next]_vars PROVE RevisionInv'
    OBVIOUS
  <2>0. floor \in FloorType /\ floor.revision \in Nat /\ savedRevision \in Nat
    BY DEF TypeOK, FloorType
  <2>1. CASE Start \/ Stop
    <3>1. savedRevision' = 0
      BY <2>1 DEF Start, Stop, NoMemory
    <3>2. floor'.revision \in Nat
      BY TypeStep DEF TypeOK
    <3> QED BY <3>1, <3>2 DEF RevisionInv, SavedMeansSaved
  <2>2. CASE ShutdownSave
    BY <2>2 DEF ShutdownSave, RevisionInv, SavedMeansSaved
  <2>7. CASE ShutdownSnapshot
    <3>1. proc = "up" /\ UNCHANGED <<board, file, floor, savedRevision>>
      BY <2>7 DEF ShutdownSnapshot
    <3> QED BY <3>1 DEF RevisionInv, SavedMeansSaved
  <2>3. CASE Move
    BY <2>3 DEF Move, RevisionInv, SavedMeansSaved
  <2>4. CASE PollSave
    <3>1. file' = [floor |-> Observations(floor), board |-> board]
          /\ savedRevision' = floor.revision /\ UNCHANGED <<board, floor>>
      BY <2>4 DEF PollSave, SaveFloor, Snapshot
    <3> QED BY <2>0, <3>1 DEF RevisionInv, SavedMeansSaved
  <2>5. CASE Observe
    <3>1. UNCHANGED <<board, file, savedRevision, proc>> /\ Running
      BY <2>5 DEF Observe
    <3>2. floor' \in FloorType /\ (floor' = floor \/ floor'.revision > floor.revision)
      BY <2>5, ObserveStep
    <3>3. CASE floor' = floor
      BY <3>1, <3>3 DEF RevisionInv, SavedMeansSaved
    <3>4. CASE floor'.revision > floor.revision
      <4>1. floor'.revision \in Nat
        BY <3>2 DEF FloorType
      <4>2. savedRevision' < floor'.revision
        BY <2>0, <3>1, <3>4, <4>1 DEF RevisionInv
      <4> QED BY <2>0, <3>1, <4>1, <4>2 DEF RevisionInv, SavedMeansSaved
    <3> QED BY <3>2, <3>3, <3>4
  <2>6. CASE Idle /\ proc' = proc
    BY <2>6 DEF Idle, RevisionInv, SavedMeansSaved
  <2> QED BY <2>1, <2>2, <2>3, <2>4, <2>5, <2>6, <2>7, Steps
<1>3. RevisionInv => SavedMeansSaved
  BY DEF RevisionInv
<1> QED BY <1>1, <1>2, <1>3, TypeCorrect, PTL DEF Spec
-----------------------------------------------------------------------------
(* What the floor is worth *)

\* What was heard is in the floor; what had been heard when the file was written is
\* in the file, and likewise shutdown's snapshot: a pair of the same bucket, no
\* quieter.
Covered ==
  \A c \in Celsius : hist.heard[c] # Unseen =>
    Tracked(c) /\ hist.heard[c] <= floor.duty[BucketOf(c)]
PairsCover(pairs, heard) ==
  \A c \in Celsius : heard[c] # Unseen =>
    /\ Tracked(c)
    /\ \E p \in pairs :
         Tracked(p[1]) /\ BucketOf(p[1]) = BucketOf(c) /\ heard[c] <= p[2]
FileCovers == PairsCover(file.floor, hist.saved)
ShotCovers == PairsCover(shot.floor, shot.heard)

\* Margin and break-away duty only add.
LEMMA PermittedFacts ==
  ASSUME NEW d \in Duty
  PROVE  Permitted(d) \in Int /\ Permitted(d) >= d /\ Permitted(d) >= 0
  BY DEF Permitted, Duty, FLOOR_MARGIN_DUTY, STICTION_DUTY

\* A floor that covers what was heard permits nothing below it.
LEMMA CoveredFloor == TypeOK /\ Covered => FloorCoversFirmware
<1> SUFFICES ASSUME TypeOK, Covered, NEW c \in Celsius
             PROVE  FloorDuty(floor, c) >= hist.heard[c]
  BY DEF FloorCoversFirmware
<1>1. floor \in FloorType /\ hist \in HistType
  BY DEF TypeOK, FloorType, HistType
<1>2. c \in Int /\ c # NoTemp /\ Model[c] \in Duty
  BY FloorAssumption
<1>3. hist.heard[c] \in Observation
  BY <1>1 DEF HistType
<1>4. ASSUME Tracked(c), floor.duty[BucketOf(c)] # Unseen
      PROVE  floor.duty[BucketOf(c)] \in Duty
  BY <1>1, <1>2, <1>4, BucketType DEF FloorType, Observation
<1>5. CASE hist.heard[c] = Unseen
  <2> DEFINE d == IF Observed(floor, c) THEN floor.duty[BucketOf(c)] ELSE Model[c]
  <2>1. FloorDuty(floor, c) = Permitted(d)
    BY <1>2 DEF FloorDuty
  <2>2. d \in Duty
    BY <1>2, <1>4 DEF Observed
  <2> HIDE DEF d
  <2> QED BY <1>5, <2>1, <2>2, PermittedFacts DEF Unseen
<1>6. CASE hist.heard[c] # Unseen
  <2>1. Tracked(c) /\ hist.heard[c] <= floor.duty[BucketOf(c)]
    BY <1>6 DEF Covered
  <2>2. hist.heard[c] \in Int /\ hist.heard[c] >= 0
    BY <1>3, <1>6 DEF Observation, Duty
  <2>3. floor.duty[BucketOf(c)] # Unseen
    BY <2>1, <2>2 DEF Unseen
  <2>4. FloorDuty(floor, c) = Permitted(floor.duty[BucketOf(c)])
    BY <1>2, <2>1, <2>3 DEF FloorDuty, Observed
  <2>5. floor.duty[BucketOf(c)] \in Duty
    BY <1>4, <2>1, <2>3
  <2>6. floor.duty[BucketOf(c)] \in Int
    BY <2>5 DEF Duty
  <2> QED BY <2>1, <2>2, <2>4, <2>5, <2>6, PermittedFacts
<1> QED BY <1>5, <1>6

\* A snapshot has all that was heard.
LEMMA SnapshotCovers ==
  ASSUME TypeOK, Covered
  PROVE  PairsCover(Snapshot.floor, Snapshot.heard)
<1>1. floor \in FloorType /\ hist \in HistType
  BY DEF TypeOK, FloorType, HistType
<1>2. Snapshot.floor = Observations(floor) /\ Snapshot.heard = hist.heard
  BY DEF Snapshot
<1>3. ASSUME NEW c \in Celsius, hist.heard[c] # Unseen
      PROVE  /\ Tracked(c)
             /\ \E p \in Observations(floor) :
                  Tracked(p[1]) /\ BucketOf(p[1]) = BucketOf(c) /\ hist.heard[c] <= p[2]
  <2> DEFINE i == BucketOf(c)
             p == <<LowEdge(i), floor.duty[i]>>
  <2>1. c \in Int /\ Tracked(c) /\ hist.heard[c] <= floor.duty[i]
    BY <1>3, FloorAssumption DEF Covered
  <2>2. i \in Bucket
    BY <2>1, BucketType
  <2>3. hist.heard[c] \in Int /\ hist.heard[c] >= 0
    BY <1>1, <1>3 DEF HistType, Observation, Duty
  <2>4. i \in Seen(floor)
    BY <2>1, <2>2, <2>3 DEF Seen, Unseen
  <2>5. p \in Observations(floor) /\ p[1] = LowEdge(i) /\ p[2] = floor.duty[i]
    BY <2>4 DEF Observations
  <2>6. Tracked(p[1]) /\ BucketOf(p[1]) = i
    BY <2>2, <2>5, EdgeOfBucket
  <2> HIDE DEF p
  <2> QED BY <2>1, <2>5, <2>6
<1> QED BY <1>2, <1>3 DEF PairsCover

\* A save takes it into the file, and leaves the rest of the history alone.
LEMMA SaveCovers ==
  ASSUME TypeOK, NEW s \in ShotType, PairsCover(s.floor, s.heard), SaveFloor(s)
  PROVE  FileCovers' /\ hist'.heard = hist.heard
<1>1. hist \in HistType
  BY DEF TypeOK, HistType
<1>2. hist'.heard = hist.heard /\ hist'.saved = s.heard /\ file'.floor = s.floor
  BY <1>1 DEF SaveFloor, HistType
<1> QED BY <1>2 DEF FileCovers

\* Whatever firmware was heard running at a temperature, the floor there is no
\* lower, through later samples, spans, saves and restarts.
THEOREM FloorCovers == Spec => []FloorCoversFirmware
<1> DEFINE Inv == Covered /\ FileCovers /\ ShotCovers
<1>0. PairsCover({}, NothingHeard)
  BY DEF PairsCover, NothingHeard
<1>1. Init => Inv
  <2> SUFFICES ASSUME Init PROVE Inv
    OBVIOUS
  <2>1. hist.heard = NothingHeard /\ hist.saved = NothingHeard /\ shot = NoShot
    BY DEF Init
  <2> QED BY <1>0, <2>1
      DEF Covered, FileCovers, ShotCovers, PairsCover, NothingHeard, NoShot
<1>2. TypeOK /\ Inv /\ [Next]_vars => Inv'
  <2> SUFFICES ASSUME TypeOK, Covered, FileCovers, ShotCovers, [Next]_vars
               PROVE  Covered' /\ FileCovers' /\ ShotCovers'
    OBVIOUS
  <2>0. floor \in FloorType /\ hist \in HistType /\ shot \in ShotType
    BY DEF TypeOK, FloorType, HistType, ShotType
  <2>1. CASE Start
    <3>1. file' = file /\ hist'.saved = hist.saved /\ shot' = NoShot
      BY <2>0, <2>1 DEF Start, Know, NoMemory, HistType
    <3>2. \/ floor' = Restored(file.floor) /\ hist'.heard = hist.saved
          \/ hist'.heard = NothingHeard
      BY <2>0, <2>1 DEF Start, Know, HistType
    <3>3. ASSUME floor' = Restored(file.floor), hist'.heard = hist.saved,
                 NEW c \in Celsius, hist.saved[c] # Unseen
          PROVE  Tracked(c) /\ hist'.heard[c] <= floor'.duty[BucketOf(c)]
      <4>1. PICK p \in file.floor :
              Tracked(p[1]) /\ BucketOf(p[1]) = BucketOf(c) /\ hist.saved[c] <= p[2]
        BY <3>3 DEF FileCovers, PairsCover
      <4>2. file.floor \in SUBSET (Int \X Duty)
        BY DEF TypeOK
      <4>3. Restored(file.floor) \in FloorType
            /\ Restored(file.floor).duty[BucketOf(p[1])] >= p[2]
        BY <4>1, <4>2, RestoredFacts
      <4>4. Tracked(c) /\ c \in Int
        BY <3>3, FloorAssumption DEF FileCovers, PairsCover
      <4>5. BucketOf(c) \in Bucket
        BY <4>4, BucketType
      <4>6. p[2] \in Int
        BY <4>1, <4>2 DEF Duty
      <4>7. hist.saved \in [Celsius -> Observation]
        BY <2>0 DEF HistType
      <4>8. hist.saved[c] \in Int /\ Restored(file.floor).duty[BucketOf(c)] \in Int
        BY <4>3, <4>5, <4>7, NumberFacts
      <4> QED BY <3>3, <4>1, <4>3, <4>4, <4>6, <4>8
    <3>4. Covered'
      BY <3>2, <3>3 DEF Covered, NothingHeard
    <3> QED BY <1>0, <3>1, <3>4 DEF FileCovers, ShotCovers, NoShot
  <2>2. CASE ShutdownSave
    <3>1. SaveFloor(shot) /\ UNCHANGED <<floor, shot>>
      BY <2>2 DEF ShutdownSave
    <3>2. FileCovers' /\ hist'.heard = hist.heard
      BY <2>0, <3>1, SaveCovers DEF ShotCovers
    <3> QED BY <3>1, <3>2 DEF Covered, ShotCovers
  <2>7. CASE ShutdownSnapshot
    <3>1. UNCHANGED <<file, floor, hist>> /\ shot' \in {shot, Snapshot}
      BY <2>7 DEF ShutdownSnapshot
    <3> QED BY <3>1, SnapshotCovers DEF Covered, FileCovers, ShotCovers
  <2>3. CASE Stop
    <3>1. /\ hist'.heard = NothingHeard /\ hist'.saved = hist.saved /\ file' = file
          /\ shot' = NoShot
      BY <2>0, <2>3 DEF Stop, Know, NoMemory, HistType
    <3> QED BY <1>0, <3>1 DEF Covered, FileCovers, ShotCovers, NothingHeard, NoShot
  <2>4. CASE Move \/ Idle
    BY <2>4 DEF Move, Idle, Covered, FileCovers, ShotCovers
  <2>5. CASE PollSave
    <3>1. SaveFloor(Snapshot) /\ UNCHANGED <<floor, shot>>
      BY <2>5 DEF PollSave
    <3>2. FileCovers' /\ hist'.heard = hist.heard
      BY <3>1, SnapshotType, SnapshotCovers, SaveCovers
    <3> QED BY <3>1, <3>2 DEF Covered, ShotCovers
  <2>6. CASE Observe
    <3>1. UNCHANGED <<file, shot>> /\ hist'.saved = hist.saved
      BY <2>6, ObserveStep DEF Observe
    <3>2. ASSUME NEW c \in Celsius, hist'.heard[c] # Unseen
          PROVE  Tracked(c) /\ hist'.heard[c] <= floor'.duty[BucketOf(c)]
      <4>1. CASE hist'.heard[c] = hist.heard[c]
        <5>1. Tracked(c) /\ hist.heard[c] <= floor.duty[BucketOf(c)] /\ c \in Int
          BY <3>2, <4>1, FloorAssumption DEF Covered
        <5>2. BucketOf(c) \in Bucket
          BY <5>1, BucketType
        <5>3. floor' \in FloorType
              /\ floor'.duty[BucketOf(c)] >= floor.duty[BucketOf(c)]
          BY <2>6, <5>2, ObserveStep
        <5>4. floor'.duty[BucketOf(c)] \in Int /\ floor.duty[BucketOf(c)] \in Int
          BY <2>0, <5>2, <5>3, NumberFacts
        <5>5. hist.heard[c] \in Int
          BY <2>0, NumberFacts DEF HistType
        <5> QED BY <4>1, <5>1, <5>3, <5>4, <5>5
      <4>2. CASE hist'.heard[c] # hist.heard[c]
        BY <2>6, <4>2, ObserveStep
      <4> QED BY <4>1, <4>2
    <3> QED BY <3>1, <3>2 DEF Covered, FileCovers, ShotCovers
  <2> QED BY <2>1, <2>2, <2>3, <2>4, <2>5, <2>6, <2>7, Steps
<1>3. TypeOK /\ Inv => FloorCoversFirmware
  BY CoveredFloor
<1> HIDE DEF Inv
<1> QED BY <1>1, <1>2, <1>3, TypeCorrect, PTL DEF Spec
=============================================================================

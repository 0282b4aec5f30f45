--------------------------- MODULE PowerTelemetry ---------------------------
(***************************************************************************)
(* Package power (energy.rs and Monitor, telemetry.rs): a wrapping energy   *)
(* counter turned into watts once per tick of poll_loop, and the machine's  *)
(* idle floor learnt from block averages.  The counter is the kernel's; a   *)
(* suspend may reset it, and the monotonic clock does not count the sleep.  *)
(*                                                                         *)
(* Abstractions.  Energy is in joules and time in seconds; watts are kept   *)
(* as published, in tenths.  All blocks have the same length, so they are   *)
(* compared by their sums.                                                  *)
(***************************************************************************)
EXTENDS Integers, Sequences

CONSTANTS
  Range_uj,           \* the counter's modulus
  MaxGap,             \* DEFAULT_MAX_GAP
  IMPLAUSIBLE_WATTS,
  Draw,               \* joules the package may draw in a second
  FLOOR_WINDOW,       \* samples per block
  Nothing,            \* Option::None
  MaxSleeps           \* bound: suspends

ASSUME TelemetryAssumption ==
  /\ Range_uj \in Nat \ {0} /\ MaxGap \in Nat /\ IMPLAUSIBLE_WATTS \in Nat
  /\ Draw \subseteq Nat /\ FLOOR_WINDOW \in Nat \ {0}
  /\ Nothing \notin Int
  \* What makes a single wrap the only one that can be taken for a reading.
  /\ \A j \in Draw : j * MaxGap < Range_uj

VARIABLES
  energy_uj,   \* the counter
  last,        \* EnergySampler::last: the reading, and the seconds since
  resumed,     \* the flag the logind task sets after a wake
  sleeps,      \* suspends so far
  due,         \* a wake logind has not signalled yet
  spent,       \* history: joules drawn since `last`
  unseen,      \* history: a suspend since `last` that no tick has been told of
  watts,       \* package_watts as published, in tenths, and whether it is true
  window,      \* Monitor::window
  watts_floor, pending_low,  \* Monitor
  blocks       \* history: the last two block sums, latest first

telemetryVars == <<energy_uj, last, resumed, sleeps, due, spent, unseen, watts,
                   window, watts_floor, pending_low, blocks>>

Sum2(s) == LET f[i \in 0..Len(s)] == IF i = 0 THEN 0 ELSE f[i - 1] + s[i] IN f[Len(s)]
TheHigher(a, b) == IF a >= b THEN a ELSE b

TelemetryInit ==
  /\ energy_uj \in 0..(Range_uj - 1)
  /\ last = Nothing /\ spent = 0
  /\ resumed = FALSE /\ sleeps = 0 /\ due = FALSE /\ unseen = FALSE
  /\ watts = Nothing
  /\ window = <<>> /\ watts_floor = Nothing /\ pending_low = Nothing /\ blocks = <<>>

\* A second passes.  Ticks may come late: the seconds since `last` are counted one
\* past MaxGap.
Second(j) ==
  /\ last # Nothing => last.ago <= MaxGap
  /\ energy_uj' = (energy_uj + j) % Range_uj
  /\ last' = IF last = Nothing THEN last ELSE [last EXCEPT !.ago = @ + 1]
  /\ spent' = IF last = Nothing THEN 0 ELSE spent + j
  /\ UNCHANGED <<resumed, sleeps, due, unseen, watts, window, watts_floor, pending_low,
                 blocks>>

\* The machine sleeps and wakes; logind's signal reaches the daemon later.
SleepWake ==
  /\ sleeps < MaxSleeps
  /\ sleeps' = sleeps + 1
  /\ energy_uj' \in {0, energy_uj}
  /\ due' = TRUE /\ unseen' = TRUE
  /\ UNCHANGED <<last, resumed, spent, watts, window, watts_floor, pending_low, blocks>>

\* watch_sleep, PrepareForSleep(false)
Resumed ==
  /\ due
  /\ resumed' = TRUE /\ due' = FALSE
  /\ UNCHANGED <<energy_uj, last, sleeps, spent, unseen, watts, window, watts_floor,
                 pending_low, blocks>>

\* The joules since the reading before, wrapped once at most; nothing when no time or
\* too much time has passed.
Delta(before) ==
  IF before = Nothing \/ before.ago = 0 \/ before.ago > MaxGap THEN Nothing
  ELSE IF energy_uj >= before.uj THEN energy_uj - before.uj
  ELSE Range_uj - before.uj + energy_uj

\* EnergySampler::sample and quantize: tenths, halves up.
Sampled(before) ==
  LET d == Delta(before)
  IN IF d = Nothing \/ d > IMPLAUSIBLE_WATTS * before.ago THEN Nothing
     ELSE (20 * d + before.ago) \div (2 * before.ago)

\* observe_floor on a finished block.
Confirmed(sum) == watts_floor # Nothing /\ sum < watts_floor /\ pending_low # Nothing

FloorAfter(sum) ==
  IF watts_floor = Nothing THEN sum
  ELSE IF Confirmed(sum) THEN TheHigher(pending_low, sum)
  ELSE watts_floor

\* Mutant: a block that is not low leaves the one that waits for confirmation.
PendingKept(sum) ==
  IF watts_floor = Nothing THEN pending_low
  ELSE IF sum < watts_floor /\ pending_low = Nothing THEN sum
  ELSE IF Confirmed(sum) THEN Nothing ELSE pending_low

PendingAfter(sum) ==
  IF watts_floor = Nothing THEN pending_low
  ELSE IF sum < watts_floor /\ pending_low = Nothing THEN sum
  ELSE Nothing

\* observe_sample: readings of nothing are refused, a full window is one block.
Observe(w) ==
  LET sum == Sum2(Append(window, w))
  IN IF w = Nothing \/ w = 0 THEN UNCHANGED <<window, watts_floor, pending_low, blocks>>
     ELSE IF Len(window) + 1 < FLOOR_WINDOW
     THEN /\ window' = Append(window, w)
          /\ UNCHANGED <<watts_floor, pending_low, blocks>>
     ELSE /\ window' = <<>>
          /\ watts_floor' = FloorAfter(sum)
          /\ pending_low' = PendingAfter(sum)
          /\ blocks' = IF blocks = <<>> THEN <<sum>> ELSE <<sum, blocks[1]>>

\* Mutant: the reference point survives a suspend.
ReferenceKept == last

\* on_resume, when this tick is told of a wake, drops the reference point.
Reference == IF resumed THEN Nothing ELSE last

\* The head of a tick of poll_loop: on_resume, then Monitor::sample.
SampleTick ==
  LET w == Sampled(Reference)
  IN /\ resumed' = FALSE
     /\ watts' = IF w = Nothing THEN Nothing
                 ELSE [tenths |-> w,
                       true |-> w = (20 * spent + last.ago) \div (2 * last.ago),
                       slept |-> unseen /\ ~resumed]
     /\ last' = [uj |-> energy_uj, ago |-> 0]
     /\ spent' = 0
     /\ unseen' = FALSE
     /\ Observe(w)
     /\ UNCHANGED <<energy_uj, sleeps, due>>

TelemetryNext ==
  \/ \E j \in Draw : Second(j)
  \/ SleepWake \/ Resumed \/ SampleTick

TelemetrySpec == TelemetryInit /\ [][TelemetryNext]_telemetryVars

\* What is published is what the package drew: through a wrap, a late tick and every
\* suspend the tick has been told of (EnergySampler::sample, Monitor::on_resume).  A wake
\* that is announced after the next sample is the exception, and only then.
WattsAreTrue == watts # Nothing => watts.true \/ watts.slept

\* The idle floor only falls, and only when two blocks in a row were below it, to the
\* higher of the two: one quiet outlier does not set it (Monitor::observe_floor).
IdleFloorConfirmed ==
  [][watts_floor # Nothing /\ watts_floor' # watts_floor =>
       /\ Len(blocks') = 2
       /\ watts_floor' = TheHigher(blocks'[2], blocks'[1])
       /\ watts_floor' < watts_floor]_telemetryVars
=============================================================================

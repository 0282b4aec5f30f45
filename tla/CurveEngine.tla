---------------------------- MODULE CurveEngine ----------------------------
(***************************************************************************)
(* A fan curve followed over time: CurveEngine (curve.rs), and the slot of  *)
(* FanLease (fan.rs) that holds the engine while a curve is active.  What   *)
(* the floor and the guards do to the duty afterwards is FanLease's.        *)
(***************************************************************************)
EXTENDS FanCurve

CONSTANTS
  Curves,        \* the curves that may be given to the engine: sequences of points
  CurveCelsius,  \* samples of the control sensor
  NoCelsius,     \* not a temperature: a sample that is NaN, an engine not yet ticked
  NoCurveDuty    \* the engine has no ramp

ASSUME CurveAssumption ==
  /\ \A k \in Curves : /\ Len(k) \in Nat \ {0}
                       /\ k \in Seq([celsius : Int, duty : Duty])
  /\ CurveCelsius \subseteq Int
  /\ NoCelsius \notin Int
  /\ NoCurveDuty \notin Duty

VARIABLES
  celsius,  \* the sample the next tick reads
  slot,     \* FanLease::curve: an engine, or none
  curve,    \* CurveEngine, meaningful while slot = "active"
  working_c,  \* the temperature the curve is evaluated at
  last_duty,     \* the last duty of the ramp
  fresh     \* history: the ramp starts over with this step

curveVars == <<celsius, slot, curve, working_c, last_duty, fresh>>

HYSTERESIS_C == 2
RAMP_UP_PER_TICK == 12
RAMP_DOWN_PER_TICK == 4

\* Heat is followed at once, cold once it is worth acting on.
Working(previous, c) ==
  IF previous = NoCelsius \/ c >= previous \/ c <= previous - HYSTERESIS_C THEN c ELSE previous

Ramp(from, target) ==
  IF from = NoCurveDuty THEN target
  ELSE IF target > from + RAMP_UP_PER_TICK THEN from + RAMP_UP_PER_TICK
  ELSE IF target < from - RAMP_DOWN_PER_TICK THEN from - RAMP_DOWN_PER_TICK
  ELSE target

\* Mutant: a duty that cannot turn the fan is skipped on the way up too.
StoppedAlways(duty, target) == IF 0 < duty /\ duty < STICTION_DUTY THEN 0 ELSE duty

\* On the way to a stop the duties that turn nothing are skipped.
Stopped(duty, target) ==
  IF 0 < duty /\ duty < STICTION_DUTY /\ target = 0 THEN 0 ELSE duty

NextDuty(from, k, c) == Stopped(Ramp(from, DutyAt(k, c)), DutyAt(k, c))

CurveInit ==
  /\ celsius \in CurveCelsius
  /\ slot = "none" /\ curve \in Curves
  /\ working_c = NoCelsius /\ last_duty = NoCurveDuty /\ fresh = TRUE

\* FanLease::set_curve, its write accepted: a new engine, ticked once.
Follow ==
  /\ celsius # NoCelsius
  /\ slot' = "active" /\ curve' \in Curves
  /\ working_c' = celsius
  /\ last_duty' = NextDuty(NoCurveDuty, curve', celsius)
  /\ fresh' = TRUE
  /\ UNCHANGED celsius

\* CurveEngine::tick, called by enforce_floor, which gives the fan up at a sample that
\* is no temperature before it asks the engine.
EngineTick ==
  /\ slot = "active" /\ celsius # NoCelsius
  /\ working_c' = Working(working_c, celsius)
  /\ last_duty' = NextDuty(last_duty, curve, working_c')
  /\ fresh' = (last_duty = NoCurveDuty)
  /\ UNCHANGED <<celsius, slot, curve>>

\* CurveEngine::tick at a sample that is no temperature; its caller filters them.
EngineTickBlind ==
  /\ slot = "active" /\ celsius = NoCelsius
  /\ working_c' = NoCelsius /\ last_duty' = NoCurveDuty /\ fresh' = TRUE
  /\ UNCHANGED <<celsius, slot, curve>>

\* Mutant: a new curve starts a new ramp at its own duty.
SwapAndJump(k) ==
  /\ slot = "active"
  /\ curve' = k
  /\ last_duty' = IF celsius = NoCelsius THEN last_duty ELSE DutyAt(k, celsius)
  /\ fresh' = FALSE
  /\ UNCHANGED <<celsius, slot, working_c>>

\* CurveEngine::set_curve
Swap(k) ==
  /\ slot = "active"
  /\ curve' = k
  /\ fresh' = FALSE
  /\ UNCHANGED <<celsius, slot, working_c, last_duty>>

\* restore_after_resume resets the engine.
ResetRamp ==
  /\ slot = "active"
  /\ working_c' = NoCelsius /\ last_duty' = NoCurveDuty /\ fresh' = TRUE
  /\ UNCHANGED <<celsius, slot, curve>>

\* FanLease::release
ClearCurve ==
  /\ slot = "active"
  /\ slot' = "none"
  /\ working_c' = NoCelsius /\ last_duty' = NoCurveDuty /\ fresh' = TRUE
  /\ UNCHANGED <<celsius, curve>>

Weather ==
  /\ celsius' \in CurveCelsius \cup {NoCelsius}
  /\ UNCHANGED <<slot, curve, working_c, last_duty, fresh>>

CurveNext ==
  \/ Follow \/ EngineTick \/ EngineTickBlind \/ ResetRamp \/ ClearCurve \/ Weather
  \/ \E k \in Curves : Swap(k)

\* poll_loop ticks for as long as it lives.
CurveFairness == WF_curveVars(EngineTick)

CurveSpec == CurveInit /\ [][CurveNext]_curveVars /\ CurveFairness

CurveTypeOK ==
  /\ celsius \in CurveCelsius \cup {NoCelsius}
  /\ slot \in {"none", "active"}
  /\ curve \in Curves
  /\ working_c \in CurveCelsius \cup {NoCelsius}
  /\ last_duty \in Duty \cup {NoCurveDuty}
  /\ fresh \in BOOLEAN

\* While one ramp lasts, whatever the samples do and whatever curve replaces the one
\* that is followed, the request moves at most RAMP_UP_PER_TICK up and
\* RAMP_DOWN_PER_TICK down; only the last step to a stop may be longer, and it starts
\* no higher than where the fan stops turning plus one step (CurveEngine::tick).
RampBounded ==
  [][~fresh' /\ last_duty \in Duty =>
       /\ last_duty' <= last_duty + RAMP_UP_PER_TICK
       /\ \/ last_duty' >= last_duty - RAMP_DOWN_PER_TICK
          \/ last_duty' = 0 /\ last_duty < STICTION_DUTY + RAMP_DOWN_PER_TICK]_curveVars

\* A steady temperature is answered: when nothing but ticks happens, the ramp comes to a
\* duty the curve asks for at that temperature or less than HYSTERESIS_C above it, and
\* stays, however it is reached, from below through duties that do not turn the fan too
\* (CurveEngine::tick).
SettlesOnCurve ==
  <>[][EngineTick]_curveVars =>
    <>[](slot = "active" /\ celsius # NoCelsius =>
           last_duty \in DutyAt(curve, celsius)..DutyAt(curve, celsius + HYSTERESIS_C - 1))
=============================================================================

--------------------------- MODULE ThermalLimits ---------------------------
(***************************************************************************)
(* What temperatures demand of the fan before anything has been learnt: the *)
(* measured boards (board.rs), the cold-start floor computed from their two *)
(* tables (floor.rs), the ceiling (ceiling.rs) and the battery guard        *)
(* (battery.rs), put together the way enforce_floor does (fan.rs).          *)
(*                                                                         *)
(* Temperatures are tenths of a degree, as the tables are.                  *)
(***************************************************************************)
EXTENDS FanDuty, Sequences

CONSTANTS
  Dmi,           \* DMI board names: <<family, number>>
  ControlTenths, \* samples of the control sensor
  ControlCrit,   \* what that sensor reports as its critical point
  PackTenths,    \* samples of the battery sensor
  PackCrit,      \* what that sensor reports
  NoReading      \* no such sensor, no such value, or an unreadable one

ASSUME ThermalAssumption ==
  /\ ControlTenths \cup PackTenths \subseteq Int
  /\ NoReading \notin Int

VARIABLES
  identified, \* the board profile main has found at its start
  control,  \* the control sensor: celsius and critical point
  pack      \* the battery's sensor: likewise

thermalVars == <<identified, control, pack>>

TURNING_DUTY == 33
MARGIN_DUTY == 2
FULL_DUTY_ABOVE_C == 950
CEILING_MARGIN_C == 150
MAX_CEILING_C == 1000
FALLBACK_CEILING_C == 970
FALLBACK_CRIT_C == 500
RAMP_BELOW_CRIT_C == 80
RELEASE_BELOW_CRIT_C == 20

\* Faster than any fan: u16::MAX.
MaxRpm == 65535
-----------------------------------------------------------------------------
(* The measured boards *)

INTEL_CORE_ULTRA_3 ==
  [measured_on |-> {<<"FRANMJCP", "07">>}, family |-> "FRANMJCP",
   duty_rpm |-> <<<<0, 0>>, <<20, 0>>, <<30, 1107>>, <<40, 1512>>, <<50, 1879>>,
                  <<65, 2296>>, <<77, 2693>>, <<90, 3052>>, <<100, 3355>>,
                  <<120, 3840>>, <<150, 4551>>, <<180, 5201>>>>,
   firmware_curve |-> <<<<439, 0>>, <<449, 0>>, <<539, 2020>>, <<648, 2925>>,
                        <<768, 3100>>>>]

AMD_RYZEN_AI_300 ==
  [measured_on |-> {<<"FRANMGCP", "05">>, <<"FRANMGCP", "09">>}, family |-> "FRANMGCP",
   duty_rpm |-> <<<<0, 0>>, <<20, 0>>, <<26, 967>>, <<31, 1221>>, <<36, 1456>>,
                  <<41, 1689>>, <<46, 1916>>, <<51, 2155>>, <<64, 2664>>, <<77, 3160>>,
                  <<89, 3614>>, <<102, 4045>>, <<115, 4468>>, <<128, 4890>>,
                  <<153, 5585>>, <<179, 6182>>, <<204, 6779>>, <<230, 7336>>,
                  <<255, 7864>>>>,
   firmware_curve |-> <<<<499, 0>>, <<500, 2265>>, <<519, 2472>>, <<529, 2679>>,
                        <<539, 2928>>, <<559, 3342>>, <<579, 3797>>, <<599, 4212>>,
                        <<619, 4667>>, <<639, 5081>>, <<658, 5537>>, <<678, 5951>>,
                        <<688, 6200>>>>]

PROFILES == {INTEL_CORE_ULTRA_3, AMD_RYZEN_AI_300}
Unmeasured == [measured_on |-> {}, family |-> "none"]

\* identify_name: the board itself, or a sibling of a measured one.
Identified(name) ==
  IF \E p \in PROFILES : name \in p.measured_on
  THEN CHOOSE p \in PROFILES : name \in p.measured_on
  ELSE IF \E p \in PROFILES : name[1] = p.family
       THEN CHOOSE p \in PROFILES : name[1] = p.family
       ELSE Unmeasured
-----------------------------------------------------------------------------
(* The cold-start floor *)

Lowest(a, b) == IF a <= b THEN a ELSE b

\* The first segment of a table that reaches x, in column n.
Segment(table, n, x) ==
  CHOOSE i \in 2..Len(table) : /\ x <= table[i][n]
                               /\ \A j \in 2..(i - 1) : x > table[j][n]

\* lerp, the result cast to an integer: rounded down.
Lerp(a, b, num, den) == a + ((b - a) * num) \div den

\* Mutant: past the table the line starts over, from nothing.
InterpolateRpmRestarted(p, c) ==
  LET curve == p.firmware_curve
      end == curve[Len(curve)]
      top == p.duty_rpm[Len(p.duty_rpm)][2]
      i == Segment(curve, 1, c)
  IN IF c = NoReading \/ c >= FULL_DUTY_ABOVE_C THEN MaxRpm
     ELSE IF c > end[1] THEN Lerp(0, top, c - end[1], FULL_DUTY_ABOVE_C - end[1])
     ELSE IF c <= curve[1][1] THEN curve[1][2]
     ELSE Lerp(curve[i - 1][2], curve[i][2], c - curve[i - 1][1],
               curve[i][1] - curve[i - 1][1])

InterpolateRpm(p, c) ==
  LET curve == p.firmware_curve
      end == curve[Len(curve)]
      top == p.duty_rpm[Len(p.duty_rpm)][2]
      i == Segment(curve, 1, c)
  IN IF c = NoReading \/ c >= FULL_DUTY_ABOVE_C THEN MaxRpm
     ELSE IF c > end[1]
     THEN Lerp(end[2], top, c - end[1], FULL_DUTY_ABOVE_C - end[1])
     ELSE IF c <= curve[1][1] THEN curve[1][2]
     ELSE Lerp(curve[i - 1][2], curve[i][2], c - curve[i - 1][1],
               curve[i][1] - curve[i - 1][1])

CeilDiv(a, b) == (a + b - 1) \div b

\* Mutant: the duty is rounded down.
DutyForRpmFloor(table, rpm) ==
  LET i == Segment(table, 2, rpm)
  IN IF rpm = 0 THEN 0
     ELSE IF rpm >= table[Len(table)][2] THEN 255
     ELSE table[i - 1][1] + ((rpm - table[i - 1][2]) * (table[i][1] - table[i - 1][1]))
                              \div (table[i][2] - table[i - 1][2])

\* The lowest duty that reaches rpm, rounded up.
DutyForRpm(table, rpm) ==
  LET i == Segment(table, 2, rpm)
  IN IF rpm = 0 THEN 0
     ELSE IF rpm >= table[Len(table)][2] THEN 255
     ELSE table[i - 1][1] + CeilDiv((rpm - table[i - 1][2]) * (table[i][1] - table[i - 1][1]),
                                    table[i][2] - table[i - 1][2])

\* floor_duty where nothing was observed: the tables, the margin, the break-away duty.
ColdFloor(p, c) ==
  LET rpm == InterpolateRpm(p, c)
  IN IF rpm = 0 THEN 0
     ELSE Higher(TURNING_DUTY, Lowest(255, DutyForRpm(p.duty_rpm, rpm) + MARGIN_DUTY))
-----------------------------------------------------------------------------
(* Ceiling and battery guard *)

Ceiling(crit) ==
  IF crit # NoReading /\ crit \in 0..1500
  THEN Lowest(crit - CEILING_MARGIN_C, MAX_CEILING_C)
  ELSE FALLBACK_CEILING_C

CeilingExceeded(c, crit) == c = NoReading \/ c >= Ceiling(crit)

PackLimit(crit) == IF crit # NoReading /\ crit \in 200..800 THEN crit ELSE FALLBACK_CRIT_C

\* BatteryGuard::floor_duty: a line from nothing to full duty, at least a turning one.
PackFloor(c, crit) ==
  LET start == PackLimit(crit) - RAMP_BELOW_CRIT_C
      span == RAMP_BELOW_CRIT_C - RELEASE_BELOW_CRIT_C
  IN IF c = NoReading \/ c <= start THEN 0
     ELSE Higher(TURNING_DUTY, CeilDiv(Lowest(c - start, span) * 255, span))

PackExceeded(c, crit) == c # NoReading /\ c >= PackLimit(crit) - RELEASE_BELOW_CRIT_C
-----------------------------------------------------------------------------
(* enforce_floor: what the duty is clamped to, and when the fan is given up *)

Demand == Higher(ColdFloor(identified, control.celsius), PackFloor(pack.celsius, pack.crit))
GivenUp ==
  \/ identified = Unmeasured  \* refused from the start
  \/ CeilingExceeded(control.celsius, control.crit)
  \/ PackExceeded(pack.celsius, pack.crit)

Sensor(cs, crits) == [celsius : cs \cup {NoReading}, crit : crits \cup {NoReading}]

ThermalInit ==
  /\ \E name \in Dmi : identified = Identified(name)
  /\ control \in Sensor(ControlTenths, ControlCrit)
  /\ pack \in Sensor(PackTenths, PackCrit)

\* A sensor moves, or becomes unreadable; its critical point stays.
ControlSample ==
  /\ \E c \in ControlTenths \cup {NoReading} : control' = [control EXCEPT !.celsius = c]
  /\ UNCHANGED <<identified, pack>>

PackSample ==
  /\ \E c \in PackTenths \cup {NoReading} : pack' = [pack EXCEPT !.celsius = c]
  /\ UNCHANGED <<identified, control>>

ThermalNext == ControlSample \/ PackSample

ThermalSpec == ThermalInit /\ [][ThermalNext]_thermalVars
-----------------------------------------------------------------------------
\* The speed a duty gives on a board, at least: its table's line, rounded down.
RpmOf(table, d) ==
  LET i == Segment(table, 1, d)
  IN IF d >= table[Len(table)][1] THEN table[Len(table)][2]
     ELSE Lerp(table[i - 1][2], table[i][2], d - table[i - 1][1], table[i][1] - table[i - 1][1])

\* On a measured board the duty the two tables give for a temperature really turns the
\* fan as fast as firmware would at that temperature, before the margin is added and as
\* far as anything was measured (floor.rs: landing one count short of firmware is the
\* failure the floor exists to prevent).
TablesReachFirmware ==
  identified # Unmeasured =>
    LET rpm == InterpolateRpm(identified, control.celsius)
        d == DutyForRpm(identified.duty_rpm, rpm)
    IN d = 255 \/ RpmOf(identified.duty_rpm, d) >= rpm

\* A warmer machine never asks less of its fan: when the sensors' readings rise the clamp
\* does not fall, and a fan that was given up is not taken back, across the ends of the
\* tables, the switch to full duty, the battery's ramp and whatever critical points the
\* sensors report (enforce_floor).  Giving up is no part of that order: what firmware then
\* does may be less air (ceiling.rs:7-13).
HotterAsksMore ==
  [][LET rises(s) == s.celsius # NoReading /\ s'.celsius # NoReading
                     /\ s'.celsius >= s.celsius
     IN identified # Unmeasured /\ rises(control) /\ rises(pack)
          => /\ GivenUp => GivenUp'
             /\ Demand' >= Demand]_thermalVars

\* What ceiling.rs:11-13 says: the floor demands full duty before the ceiling is reached,
\* so that as much air as there is has been tried when the fan is given up.
FullDutyBeforeCeiling ==
  /\ identified # Unmeasured
  /\ control.celsius # NoReading /\ CeilingExceeded(control.celsius, control.crit)
    => ColdFloor(identified, control.celsius) = 255
=============================================================================

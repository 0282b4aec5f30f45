--------------------------- MODULE PowerProfiles ---------------------------
(***************************************************************************)
(* A profile is a position of the desktop's power slider, a power limit and *)
(* a fan curve.  This module has every path that applies one or sets its    *)
(* parts: SetProfile, SetPowerLimit and SetAutoProfiles (iface.rs); in      *)
(* poll_loop (main.rs) the persisted profile at start, the profile of a new *)
(* power source, the slider that moved, the re-application after a resume   *)
(* and the bounded enforcement of the limit; the register (power.rs), the   *)
(* watcher (ppd.rs) with its echo of the daemon's own changes, and what is  *)
(* persisted (state.rs).                                                    *)
(*                                                                         *)
(* Abstractions.  The fan's part is which profile's curve was set last      *)
(* (FanLease has the fan) and the profile's charge limit is ChargeLimit's.  *)
(* PPD is there and answers (PpdAdoption has the rest), the set of known    *)
(* profiles does not change (ProfileStore), the register exists.            *)
(***************************************************************************)
EXTENDS StateFile

CONSTANTS
  Book,               \* Book[n]: the position and the watts of profile n
  Canonical,          \* Canonical[c]: the profile the slider stands for at position c
  Watts,              \* what clients ask for
  MAX_WATTS,          \* the zone's maximum
  FirmwareWatts,      \* what firmware puts in the register by itself
  AutoChoices,        \* pairs (on AC, on battery) clients choose
  InitialState,       \* what the state file may hold at first
  MAX_POWER_CORRECTIONS,
  MaxEvents,          \* bound on calls, slides, rewrites, changes of source and faults
  MaxProfileStarts    \* bound on starts

MIN_WATTS == 8
Known == DOMAIN Book
Code == DOMAIN Canonical

ASSUME ProfileAssumption ==
  /\ \A n \in Known : Book[n].ppd \in Code /\ Book[n].watts \in Nat
  /\ \A c \in Code : Canonical[c] \in Known /\ Book[Canonical[c]].ppd = c
  /\ Code \subseteq Nat \ {0} /\ None \notin Known \cup Nat
  /\ MAX_POWER_CORRECTIONS \in Nat /\ Watts \subseteq Nat
  /\ \A s \in InitialState : s = [f \in DOMAIN DefaultState |-> s[f]]

VARIABLES
  daemon,       \* "off" or "up"
  ppd,          \* the slider, as PPD has it
  changed,      \* PPD has announced a change the watcher has not seen
  pending_ppd,  \* the watcher's note to the poll task, 0 for none
  applied_ppd,  \* the position the daemon has just asked for, 0 for none
  pl1,          \* the register, in watts
  curve_of,     \* the profile whose curve the fan follows
  settings,     \* Daemon::state
  saved,        \* the state file
  on_ac, resumedPower,  \* the power source; a resume the poll task has not taken
  poll,         \* where the tick is, and the profile it applies
  loop,         \* poll_loop's variables
  call,         \* the D-Bus call in progress
  past,         \* history, see below
  left          \* counters behind the Max* bounds

profileVars == <<daemon, ppd, changed, pending_ppd, applied_ppd, pl1, curve_of, settings,
                 saved, on_ac, resumedPower, poll, loop, call, past, left>>

(* past.chosen: the profile and watts a client chose last, as long as nothing  *)
(* else has had a reason to change them; past.raced: the slider was asked for  *)
(* or moved while an earlier position was outstanding; past.overlap: a call    *)
(* and the poll task applied something at the same time; past.parted: the last *)
(* application failed half-way or overlapped; past.setAgain: the limit was  *)
(* set last after the daemon had given up enforcing it.                        *)
NoChoice == [name |-> None, watts |-> None]
NoHistory == [chosen |-> NoChoice, raced |-> FALSE, overlap |-> FALSE, parted |-> TRUE,
              setAgain |-> FALSE]
IdleCall == [pc |-> "idle", name |-> None, watts |-> 0]
IdlePoll == [pc |-> "resume", name |-> None, then |-> "resume"]
FreshLoop(s) == [startup |-> s["profile"], override |-> s["power_limit"],
                 last_on_ac |-> None, corrections |-> 0, desired |-> None]

Spend(f) == left[f] > 0 /\ left' = [left EXCEPT ![f] = @ - 1]
InAxis == call.pc = "axis" \/ poll.pc = "axis"
Outstanding == changed \/ pending_ppd # 0 \/ InAxis
CallBusy == call.pc # "idle"
PollApplying == poll.name # None

\* Mutant: only the upper end of the range is checked.
Affordable(w) == w <= MAX_WATTS

\* PowerLimit::set refuses what is outside the range.
Writable(w) == MIN_WATTS <= w /\ w <= MAX_WATTS

\* record_profile, SetProfile's record, SetPowerLimit's record: in memory, then saved.
Save(s) == settings' = s /\ saved' = s

\* reapply_power_limit: a limit that is there is left alone, and a failure is only logged.
Reasserted(w) == IF w # None /\ w # pl1 /\ Writable(w) THEN {pl1, w} ELSE {pl1}

ProfileInit ==
  /\ daemon = "off" /\ ppd \in Code /\ changed = FALSE
  /\ pending_ppd = 0 /\ applied_ppd = 0
  /\ pl1 \in FirmwareWatts /\ curve_of = None
  /\ saved \in InitialState /\ settings = DefaultState
  /\ on_ac = TRUE /\ resumedPower = FALSE
  /\ poll = IdlePoll /\ loop = FreshLoop(DefaultState) /\ call = IdleCall
  /\ past = NoHistory
  /\ left = [events |-> MaxEvents, starts |-> MaxProfileStarts]
-----------------------------------------------------------------------------
(* Start, crash, and the world around *)

\* main: the limit is re-applied before the bus is served; the profile waits for a tick.
StartProfiles ==
  /\ daemon = "off" /\ Spend("starts")
  /\ daemon' = "up"
  /\ settings' = saved
  /\ pl1' \in Reasserted(saved["power_limit"])
  /\ loop' = FreshLoop(saved)
  /\ past' = [past EXCEPT !.parted = TRUE]
  /\ UNCHANGED <<ppd, changed, pending_ppd, applied_ppd, curve_of, saved, on_ac,
                 resumedPower, poll, call>>

\* A crash: ExecStopPost gives the fan back, the atomics are gone; with the power failing
\* too the file may be cut.
CrashProfiles ==
  /\ daemon = "up"
  /\ daemon' = "off"
  /\ \/ UNCHANGED <<saved, left>>
     \/ Spend("events") /\ saved' \in Loadable(saved) \ {saved}
  /\ changed' = FALSE /\ pending_ppd' = 0 /\ applied_ppd' = 0
  /\ curve_of' = None /\ resumedPower' = FALSE
  /\ poll' = IdlePoll /\ call' = IdleCall
  /\ settings' = DefaultState /\ loop' = FreshLoop(DefaultState)
  /\ past' = [past EXCEPT !.raced = FALSE, !.overlap = FALSE, !.setAgain = FALSE,
                           !.chosen = IF saved' = saved THEN @ ELSE NoChoice]
  /\ UNCHANGED <<ppd, pl1, on_ac>>

\* The user moves the desktop's slider.
Slide ==
  /\ Spend("events")
  /\ ppd' \in Code \ {ppd}
  /\ changed' = (daemon = "up")
  /\ past' = [past EXCEPT !.chosen = IF daemon = "up" THEN NoChoice ELSE @,
                           !.raced = @ \/ CallBusy \/ PollApplying]
  /\ UNCHANGED <<daemon, pending_ppd, applied_ppd, pl1, curve_of, settings, saved, on_ac,
                 resumedPower, poll, loop, call>>

\* Firmware re-derives PL1, at any time or over a suspend.
FirmwareRewrites ==
  /\ Spend("events")
  /\ pl1' \in FirmwareWatts
  /\ resumedPower' \in {resumedPower, daemon = "up"}
  /\ UNCHANGED <<daemon, ppd, changed, pending_ppd, applied_ppd, curve_of, settings, saved,
                 on_ac, poll, loop, call, past>>

\* A cable is plugged in or out.
PowerSource ==
  /\ Spend("events")
  /\ on_ac' = ~on_ac
  /\ past' = IF daemon = "up" /\ loop.last_on_ac # None
             THEN [past EXCEPT !.chosen = NoChoice] ELSE past
  /\ UNCHANGED <<daemon, ppd, changed, pending_ppd, applied_ppd, pl1, curve_of, settings,
                 saved, resumedPower, poll, loop, call>>

\* The watcher's stream keeps the latest value only.
Watch ==
  /\ daemon = "up" /\ changed
  /\ changed' = FALSE
  /\ pending_ppd' = ppd
  /\ UNCHANGED <<daemon, ppd, applied_ppd, pl1, curve_of, settings, saved, on_ac,
                 resumedPower, poll, loop, call, past, left>>
-----------------------------------------------------------------------------
(* The steps calls and the poll task share *)

\* Mutant: the position is announced as the one the slider is at.
MarkOld(n) == applied_ppd' = ppd

\* applied_ppd.store, before PPD is asked.
Mark(n) == applied_ppd' = Book[n].ppd

\* A history: a profile begins to be applied.
Beginning(other) == [past EXCEPT !.raced = @ \/ Outstanding, !.overlap = other]

\* ProfileAxis::set: PPD announces a change only when there is one.
AxisSet(n) ==
  /\ ppd' = Book[n].ppd
  /\ changed' = (changed \/ ppd # Book[n].ppd)

\* PowerLimit::set: the range first, then the register and the read-back.
SetRegister(w) == Writable(w) /\ pl1' = w

\* PowerLimit::set that fails: nothing is written, or the register has moved and could not
\* be read back or read back as something else.
SetFails(w) == pl1' = pl1 \/ SetRegister(w)

\* A step that fails.  What was done before it stays done.
Failing == /\ Spend("events")
           /\ past' = [past EXCEPT !.parted = TRUE, !.chosen = NoChoice]

\* Nothing is on its way that would change what a client has just chosen.
Undisputed == /\ ~past.raced /\ ~past.overlap /\ loop.startup = None
              /\ loop.last_on_ac \in {None, on_ac}
-----------------------------------------------------------------------------
(* D-Bus calls, past their polkit checks *)

\* The daemon no longer corrects the register.
GivenUpOn == loop.corrections = MAX_POWER_CORRECTIONS

CallSetProfile(n) ==
  /\ daemon = "up" /\ call.pc = "idle" /\ Spend("events")
  /\ call' = [pc |-> "axis", name |-> n, watts |-> Book[n].watts]
  /\ Mark(n)
  /\ past' = [Beginning(PollApplying) EXCEPT !.chosen = NoChoice, !.setAgain = FALSE]
  /\ UNCHANGED <<daemon, ppd, changed, pending_ppd, pl1, curve_of, settings, saved, on_ac,
                 resumedPower, poll, loop>>

CallAxis ==
  /\ call.pc = "axis"
  /\ \/ /\ AxisSet(call.name)
        /\ call' = [call EXCEPT !.pc = "pl1"]
        /\ UNCHANGED <<past, left>>
     \/ Failing /\ call' = IdleCall /\ UNCHANGED <<ppd, changed>>
  /\ UNCHANGED <<daemon, pending_ppd, applied_ppd, pl1, curve_of, settings, saved, on_ac,
                 resumedPower, poll, loop>>

CallPl1 ==
  /\ call.pc = "pl1"
  /\ \/ /\ SetRegister(call.watts)
        /\ call' = [call EXCEPT !.pc = "curve"]
        /\ UNCHANGED <<past, left>>
     \/ Failing /\ call' = IdleCall /\ SetFails(call.watts)
  /\ UNCHANGED <<daemon, ppd, changed, pending_ppd, applied_ppd, curve_of, settings, saved,
                 on_ac, resumedPower, poll, loop>>

\* Mutant: a curve that is refused is passed over.
CallCurveAnyway ==
  /\ call.pc = "curve"
  /\ call' = [call EXCEPT !.pc = "record"]
  /\ \/ curve_of' = call.name /\ UNCHANGED <<past, left>>
     \/ Failing /\ UNCHANGED curve_of
  /\ UNCHANGED <<daemon, ppd, changed, pending_ppd, applied_ppd, pl1, settings, saved, on_ac,
                 resumedPower, poll, loop>>

\* set_curve: refused without a temperature, or past a limit.
CallCurve ==
  /\ call.pc = "curve"
  /\ \/ /\ curve_of' = call.name
        /\ call' = [call EXCEPT !.pc = "record"]
        /\ UNCHANGED <<past, left>>
     \/ Failing /\ call' = IdleCall /\ UNCHANGED curve_of
  /\ UNCHANGED <<daemon, ppd, changed, pending_ppd, applied_ppd, pl1, settings, saved, on_ac,
                 resumedPower, poll, loop>>

CallRecord ==
  /\ call.pc = "record"
  /\ Save([settings EXCEPT !["profile"] = call.name, !["power_limit"] = call.watts])
  /\ call' = IdleCall
  /\ past' = [past EXCEPT
                !.parted = past.overlap,
                !.chosen = IF Undisputed THEN [name |-> call.name, watts |-> call.watts]
                                         ELSE NoChoice]
  /\ UNCHANGED <<daemon, ppd, changed, pending_ppd, applied_ppd, pl1, curve_of, on_ac,
                 resumedPower, poll, loop, left>>

\* SetPowerLimit: the register first, the record after it.  A set that fails once the
\* register has moved records nothing.
CallSetLimit(w) ==
  /\ daemon = "up" /\ call.pc = "idle" /\ Spend("events")
  /\ SetRegister(w)
  /\ \/ /\ call' = [pc |-> "limit", name |-> None, watts |-> w]
        /\ past' = [past EXCEPT !.overlap = PollApplying, !.setAgain = GivenUpOn]
     \/ UNCHANGED <<call, past>>
  /\ UNCHANGED <<daemon, ppd, changed, pending_ppd, applied_ppd, curve_of, settings, saved,
                 on_ac, resumedPower, poll, loop>>

CallRecordLimit ==
  /\ call.pc = "limit"
  /\ Save([settings EXCEPT !["power_limit"] = call.watts])
  /\ call' = IdleCall
  /\ past' = [past EXCEPT
                !.chosen = IF Undisputed /\ ~Outstanding
                           THEN [name |-> settings["profile"], watts |-> call.watts]
                           ELSE NoChoice]
  /\ UNCHANGED <<daemon, ppd, changed, pending_ppd, applied_ppd, pl1, curve_of, on_ac,
                 resumedPower, poll, loop, left>>

\* SetAutoProfiles: both sides are stored, whatever they were.
CallSetAuto(pair) ==
  /\ daemon = "up" /\ call.pc = "idle" /\ Spend("events")
  /\ Save([settings EXCEPT !["profile_on_ac"] = pair[1], !["profile_on_battery"] = pair[2]])
  /\ UNCHANGED <<daemon, ppd, changed, pending_ppd, applied_ppd, pl1, curve_of, on_ac,
                 resumedPower, poll, loop, call, past>>
-----------------------------------------------------------------------------
(* poll_loop, one tick: resume, startup, source, slider, enforce *)

Goto(pc) == poll' = [IdlePoll EXCEPT !.pc = pc]
Apply(n, first, then) == poll' = [pc |-> first, name |-> n, then |-> then]

PollResume ==
  /\ daemon = "up" /\ poll.pc = "resume"
  /\ resumedPower' = FALSE
  /\ pl1' \in IF resumedPower THEN Reasserted(settings["power_limit"]) ELSE {pl1}
  /\ Goto(IF loop.startup = None THEN "source" ELSE "startup")
  /\ UNCHANGED <<daemon, ppd, changed, pending_ppd, applied_ppd, curve_of, settings, saved,
                 on_ac, loop, call, past, left>>

PollStartup ==
  /\ poll.pc = "startup"
  /\ loop' = [loop EXCEPT !.startup = None,
                          !.corrections = IF loop.startup \in Known THEN 0 ELSE @]
  /\ IF loop.startup \in Known
     THEN /\ Mark(loop.startup)
          /\ Apply(loop.startup, "axis", "source")
          /\ past' = Beginning(CallBusy)
     ELSE Goto("source") /\ UNCHANGED <<applied_ppd, past>>
  /\ UNCHANGED <<daemon, ppd, changed, pending_ppd, pl1, curve_of, settings, saved, on_ac,
                 resumedPower, call, left>>

\* is_power_source_change
SourceChanged(previous, now) == previous # None /\ previous # now

AutoProfile == settings[IF on_ac THEN "profile_on_ac" ELSE "profile_on_battery"]

PollSource ==
  /\ poll.pc = "source"
  /\ IF SourceChanged(loop.last_on_ac, on_ac) /\ AutoProfile \in Known
     THEN /\ Mark(AutoProfile)
          /\ Apply(AutoProfile, "axis", "slider")
          /\ past' = Beginning(CallBusy)
          /\ loop' = [loop EXCEPT !.last_on_ac = on_ac, !.corrections = 0]
     ELSE /\ Goto("slider")
          /\ loop' = [loop EXCEPT !.last_on_ac = on_ac]
          /\ UNCHANGED <<applied_ppd, past>>
  /\ UNCHANGED <<daemon, ppd, changed, pending_ppd, pl1, curve_of, settings, saved, on_ac,
                 resumedPower, call, left>>

\* The slider moved, unless it is the daemon's own echo: both notes are taken, and the
\* canonical profile of the position is applied without telling PPD.
PollSlider ==
  /\ poll.pc = "slider"
  /\ pending_ppd' = 0
  /\ applied_ppd' = IF pending_ppd = 0 THEN applied_ppd ELSE 0
  /\ IF pending_ppd # 0 /\ applied_ppd # pending_ppd
     THEN /\ Apply(Canonical[pending_ppd], "pl1", "enforce")
          /\ loop' = [loop EXCEPT !.corrections = 0]
          /\ past' = [past EXCEPT !.raced = changed \/ InAxis, !.overlap = CallBusy]
     ELSE /\ Goto("enforce")
          /\ past' = IF pending_ppd = 0 THEN past
                     ELSE [past EXCEPT !.raced = changed \/ InAxis]
          /\ UNCHANGED loop
  /\ UNCHANGED <<daemon, ppd, changed, pl1, curve_of, settings, saved, on_ac, resumedPower,
                 call, left>>

\* apply_profile: PPD, unless it is PPD that is followed; the register; the curve.
\* Whatever fails ends it there.
PollAxis ==
  /\ poll.pc = "axis"
  /\ \/ /\ AxisSet(poll.name)
        /\ poll' = [poll EXCEPT !.pc = "pl1"]
        /\ UNCHANGED <<past, left>>
     \/ Failing /\ Goto(poll.then) /\ UNCHANGED <<ppd, changed>>
  /\ UNCHANGED <<daemon, pending_ppd, applied_ppd, pl1, curve_of, settings, saved, on_ac,
                 resumedPower, loop, call>>

PollPl1 ==
  /\ poll.pc = "pl1"
  /\ \/ /\ SetRegister(Book[poll.name].watts)
        /\ poll' = [poll EXCEPT !.pc = "curve"]
        /\ UNCHANGED <<past, left>>
     \/ Failing /\ Goto(poll.then) /\ SetFails(Book[poll.name].watts)
  /\ UNCHANGED <<daemon, ppd, changed, pending_ppd, applied_ppd, curve_of, settings, saved,
                 on_ac, resumedPower, loop, call>>

PollCurve ==
  /\ poll.pc = "curve"
  /\ \/ /\ curve_of' = poll.name
        /\ poll' = [poll EXCEPT !.pc = "record"]
        /\ UNCHANGED <<past, left>>
     \/ Failing /\ Goto(poll.then) /\ UNCHANGED curve_of
  /\ UNCHANGED <<daemon, ppd, changed, pending_ppd, applied_ppd, pl1, settings, saved, on_ac,
                 resumedPower, loop, call>>

\* A limit set by hand after the profile was chosen, which a start puts back on top.
Override ==
  IF poll.then = "source" /\ loop.override # None THEN loop.override ELSE Book[poll.name].watts

\* record_profile, at a start after the override; a limit that cannot be written is
\* given up for the profile's.
PollRecord ==
  /\ poll.pc = "record"
  /\ \/ /\ LET w == IF Writable(Override) THEN Override ELSE Book[poll.name].watts
           IN /\ pl1' = IF w = Book[poll.name].watts THEN pl1 ELSE w
              /\ Save([settings EXCEPT !["profile"] = poll.name, !["power_limit"] = w])
        /\ past' = [past EXCEPT !.parted = past.overlap]
        /\ UNCHANGED left
     \/ /\ Override # Book[poll.name].watts /\ SetFails(Override)
        /\ Save([settings EXCEPT !["profile"] = poll.name,
                                 !["power_limit"] = Book[poll.name].watts])
        /\ past' = [past EXCEPT !.parted = past.overlap, !.chosen = NoChoice]
        /\ Spend("events")
  /\ Goto(poll.then)
  /\ UNCHANGED <<daemon, ppd, changed, pending_ppd, applied_ppd, curve_of, on_ac,
                 resumedPower, loop, call>>

\* enforce_power_limit reads what is desired, and then the register.
PollEnforce ==
  /\ poll.pc = "enforce"
  /\ IF loop.corrections < MAX_POWER_CORRECTIONS /\ settings["power_limit"] # None
     THEN /\ loop' = [loop EXCEPT !.desired = settings["power_limit"]]
          /\ Goto("assert")
     ELSE Goto("resume") /\ UNCHANGED loop
  /\ UNCHANGED <<daemon, ppd, changed, pending_ppd, applied_ppd, pl1, curve_of, settings,
                 saved, on_ac, resumedPower, call, past, left>>

\* Mutant: only a limit that was raised is corrected.
PollAssertLower ==
  /\ poll.pc = "assert"
  /\ IF pl1 > loop.desired /\ Writable(loop.desired)
     THEN /\ pl1' = loop.desired
          /\ loop' = [loop EXCEPT !.corrections = @ + 1, !.desired = None]
     ELSE /\ loop' = [loop EXCEPT !.desired = None]
          /\ UNCHANGED pl1
  /\ Goto("resume")
  /\ UNCHANGED <<daemon, ppd, changed, pending_ppd, applied_ppd, curve_of, settings, saved,
                 on_ac, resumedPower, call, past, left>>

\* A correction that fails is not counted, whatever it has done to the register.
PollAssert ==
  /\ poll.pc = "assert"
  /\ \/ /\ pl1 # loop.desired /\ SetRegister(loop.desired)
        /\ loop' = [loop EXCEPT !.corrections = @ + 1, !.desired = None]
        /\ UNCHANGED left
     \/ /\ pl1 = loop.desired \/ ~Writable(loop.desired)
        /\ loop' = [loop EXCEPT !.desired = None]
        /\ UNCHANGED <<pl1, left>>
     \/ /\ pl1 # loop.desired /\ SetFails(loop.desired)
        /\ loop' = [loop EXCEPT !.desired = None]
        /\ Spend("events")
  /\ Goto("resume")
  /\ UNCHANGED <<daemon, ppd, changed, pending_ppd, applied_ppd, curve_of, settings,
                 saved, on_ac, resumedPower, call, past>>

PollStep ==
  \/ PollResume \/ PollStartup \/ PollSource \/ PollSlider \/ PollAxis \/ PollPl1
  \/ PollCurve \/ PollRecord \/ PollEnforce \/ PollAssert

CallStep ==
  \/ CallAxis \/ CallPl1 \/ CallCurve \/ CallRecord \/ CallRecordLimit

ProfileNext ==
  \/ StartProfiles \/ CrashProfiles \/ Slide \/ FirmwareRewrites \/ PowerSource \/ Watch
  \/ PollStep \/ CallStep
  \/ \E n \in Known : CallSetProfile(n)
  \/ \E w \in Watts : CallSetLimit(w)
  \/ \E pair \in AutoChoices : CallSetAuto(pair)

\* The poll task ticks every second and a call that was authorized runs to its end.
ProfileFairness == WF_profileVars(PollStep) /\ WF_profileVars(CallStep)

ProfileSpec == ProfileInit /\ [][ProfileNext]_profileVars /\ ProfileFairness
-----------------------------------------------------------------------------
AtRest ==
  /\ daemon = "up" /\ ~CallBusy /\ poll.pc = "resume" /\ loop.startup = None
  /\ ~changed /\ pending_ppd = 0

\* With nothing under way the slider, the curve and the recorded profile are one
\* profile's, whoever moved last, the desktop, a client, a cable or a start; unless the
\* last application failed half-way or a call and the poll task overlapped (set_profile,
\* apply_profile, record_profile and the echo filter together).
WholeProfile ==
  AtRest /\ ~past.parted =>
    /\ settings["profile"] \in Known
    /\ curve_of = settings["profile"]
    /\ ppd = Book[settings["profile"]].ppd

\* What a client chose last, a profile or watts on top of one, stays what is recorded and
\* restored until the desktop or a cable changes it: the daemon does not follow its own
\* echo to another profile of the same position, a start re-applies it with the hand-set
\* limit on top, and a start on another power source is not a change of source.
ChoiceStays ==
  AtRest /\ past.chosen # NoChoice =>
    /\ settings["profile"] = past.chosen.name
    /\ settings["power_limit"] = past.chosen.watts

\* No limit is ever written that nobody chose: the register holds what a client asked
\* for, a profile's budget or what firmware put there, also after a start from a file cut
\* in the middle of a number (State::load, PowerLimit::set).  It rests on the zone: a cut
\* number has one digit less, so where the maximum is below 80 W it falls below MIN_WATTS
\* and is refused; on a zone that takes 80 W or more a cut 120 would be written as 12.
LimitIsChosen ==
  pl1 \in Watts \cup {Book[n].watts : n \in Known} \cup FirmwareWatts
          \cup {s["power_limit"] : s \in InitialState}

\* Firmware that moves the register is corrected, and a correction decided on a limit a
\* call has just replaced is corrected in turn, until the corrections are used up
\* (enforce_power_limit).
LimitEnforced ==
  []<>(\/ daemon = "off" \/ settings["power_limit"] = None
       \/ ~Writable(settings["power_limit"])
       \/ pl1 = settings["power_limit"]
       \/ GivenUpOn)

\* main.rs:843 "giving up until it is set again": once a limit is set again it is
\* enforced again, against as many rewrites as before.
SetAgainEnforces ==
  past.setAgain /\ call.pc = "idle" /\ pl1 # settings["power_limit"]
    ~> pl1 = settings["power_limit"] \/ ~past.setAgain
=============================================================================

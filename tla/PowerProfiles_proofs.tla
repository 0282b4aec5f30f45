------------------------ MODULE PowerProfiles_proofs ------------------------
(***************************************************************************)
(* What profiles promise, for any profiles, clients, slider moves, cables,  *)
(* rewrites, failures, crashes and state files cut short: with nothing      *)
(* under way a profile is whole, what a client chose stays, and whatever    *)
(* the register comes to hold, somebody has chosen it (the last on a zone   *)
(* of less than ten times MIN_WATTS).                                       *)
(***************************************************************************)
EXTENDS PowerProfiles, TLAPS

Applying == {"axis", "pl1", "curve", "record"}

\* A record of every field of the settings.
Kept(s) == s = [f \in DOMAIN DefaultState |-> s[f]]

\* Nothing of a daemon that is off is left but the file.
Dead ==
  /\ call = IdleCall /\ poll = IdlePoll /\ loop = FreshLoop(DefaultState)
  /\ ~changed /\ pending_ppd = 0 /\ applied_ppd = 0

CallShape ==
  /\ call = [pc |-> call.pc, name |-> call.name, watts |-> call.watts]
  /\ call.pc \in {"idle", "limit"} \cup Applying
  /\ call.pc \in Applying => call.name \in Known
  /\ call.pc # "idle" => call.watts \in Nat
  /\ call.pc \in {"curve", "record", "limit"} => Writable(call.watts)

PollShape ==
  /\ poll = [pc |-> poll.pc, name |-> poll.name, then |-> poll.then]
  /\ poll.pc \in Applying => poll.name \in Known
  /\ poll.pc \notin Applying => poll.name = None
  /\ poll.then \notin Applying

LoopShape ==
  loop = [startup |-> loop.startup, override |-> loop.override,
          last_on_ac |-> loop.last_on_ac, corrections |-> loop.corrections,
          desired |-> loop.desired]

PastShape ==
  past = [chosen |-> past.chosen, raced |-> past.raced, overlap |-> past.overlap,
          parted |-> past.parted, setAgain |-> past.setAgain]

Base ==
  /\ daemon \in {"off", "up"} /\ (daemon = "off" => Dead)
  /\ ppd \in Code /\ pending_ppd \in Code \cup {0}
  /\ CallShape /\ PollShape /\ LoopShape /\ PastShape
  /\ Kept(settings) /\ Kept(saved)

LEMMA FieldNames ==
  {"profile", "power_limit", "profile_on_ac", "profile_on_battery"}
    \subseteq DOMAIN DefaultState
<1>1. /\ Fields[2] = "power_limit" /\ Fields[3] = "profile"
      /\ Fields[4] = "profile_on_ac" /\ Fields[5] = "profile_on_battery"
  BY DEF Fields
<1>2. DOMAIN DefaultState = {Fields[i] : i \in 1..5}
  BY DEF DefaultState
<1> QED BY <1>1, <1>2

\* A file cut short still reads as settings.
LEMMA LoadableIsKept ==
  ASSUME NEW s, Kept(s), NEW r \in Loadable(s) PROVE Kept(r)
<1>1. CASE r = s
  BY <1>1
<1>2. CASE r # s
  <2>1. PICK n \in 1..5 : r \in TornAt(s, n)
    BY <1>2 DEF Loadable
  <2>2. PICK v \in Cut(Fields[n], s[Fields[n]]) :
          r = [f \in DOMAIN s |-> IF f = Fields[n] THEN v
                                  ELSE IF \E i \in 1..(n - 1) : f = Fields[i]
                                       THEN s[f] ELSE None]
    BY <2>1 DEF TornAt
  <2>3. DOMAIN s = DOMAIN DefaultState
    BY DEF Kept
  <2> QED BY <2>2, <2>3 DEF Kept
<1> QED BY <1>1, <1>2

LEMMA FreshIsKept == Kept(DefaultState)
  BY DEF Kept, DefaultState

LEMMA BaseInit == ASSUME ProfileInit PROVE Base
<1>1. Kept(settings) /\ Kept(saved)
  BY FreshIsKept, ProfileAssumption DEF ProfileInit, Kept
<1>2. daemon \in {"off", "up"} /\ Dead /\ ppd \in Code /\ pending_ppd \in Code \cup {0}
  BY DEF ProfileInit, Dead
<1>3. CallShape /\ PollShape
  BY ProfileAssumption DEF ProfileInit, CallShape, PollShape, IdleCall, IdlePoll, Applying
<1>4. LoopShape
  BY DEF ProfileInit, LoopShape, FreshLoop
<1>5. PastShape
  BY DEF ProfileInit, PastShape, NoHistory
<1> QED BY <1>1, <1>2, <1>3, <1>4, <1>5 DEF Base

LEMMA DeadCall ==
  ASSUME Base, call.pc # "idle" \/ poll.pc # "resume" \/ changed
  PROVE  daemon = "up"
  BY DEF Base, Dead, IdleCall, IdlePoll

LEMMA BaseWorld ==
  ASSUME Base,
         StartProfiles \/ CrashProfiles \/ Slide \/ FirmwareRewrites \/ PowerSource \/ Watch
  PROVE  Base'
<1>1. CASE StartProfiles
  <2>1. /\ daemon' = "up" /\ settings' = saved /\ loop' = FreshLoop(saved)
        /\ past' = [past EXCEPT !.parted = TRUE]
        /\ UNCHANGED <<ppd, changed, pending_ppd, applied_ppd, saved, poll, call>>
    BY <1>1 DEF StartProfiles
  <2>2. LoopShape'
    BY <2>1 DEF LoopShape, FreshLoop
  <2>3. PastShape'
    BY <2>1 DEF PastShape, Base
  <2> QED BY <2>1, <2>2, <2>3 DEF Base, CallShape, PollShape, Kept
<1>2. CASE CrashProfiles
  <2>1. /\ daemon' = "off" /\ settings' = DefaultState /\ loop' = FreshLoop(DefaultState)
        /\ call' = IdleCall /\ poll' = IdlePoll
        /\ changed' = FALSE /\ pending_ppd' = 0 /\ applied_ppd' = 0 /\ ppd' = ppd
    BY <1>2 DEF CrashProfiles
  <2>2. PastShape'
    BY <1>2 DEF PastShape, Base, CrashProfiles
  <2>3. Kept(saved')
    BY <1>2, LoadableIsKept DEF CrashProfiles, Base
  <2>4. LoopShape'
    BY <2>1 DEF LoopShape, FreshLoop
  <2>5. CallShape' /\ PollShape'
    BY <2>1, ProfileAssumption DEF CallShape, PollShape, IdleCall, IdlePoll, Applying
  <2>6. Dead'
    BY <2>1 DEF Dead
  <2> QED BY <2>1, <2>2, <2>3, <2>4, <2>5, <2>6, FreshIsKept DEF Base
<1>3. CASE Slide \/ FirmwareRewrites \/ PowerSource \/ Watch
  <2>1. UNCHANGED <<daemon, settings, saved, call, poll, loop>>
    BY <1>3 DEF Slide, FirmwareRewrites, PowerSource, Watch
  <2>2. PastShape'
    BY <1>3 DEF Slide, FirmwareRewrites, PowerSource, Watch, PastShape, Base
  <2>3. ppd' \in Code /\ pending_ppd' \in Code \cup {0}
    BY <1>3 DEF Slide, FirmwareRewrites, PowerSource, Watch, Base
  <2>4. daemon = "off" => Dead'
    BY <1>3, <2>1 DEF Slide, FirmwareRewrites, PowerSource, Watch, Base, Dead
  <2> QED BY <2>1, <2>2, <2>3, <2>4 DEF Base, CallShape, PollShape, LoopShape
<1> QED BY <1>1, <1>2, <1>3

LEMMA BaseCall ==
  ASSUME Base,
         \/ CallStep
         \/ \E n \in Known : CallSetProfile(n)
         \/ \E w \in Watts : CallSetLimit(w)
         \/ \E pair \in AutoChoices : CallSetAuto(pair)
  PROVE  Base'
<1>0. daemon = "up" /\ UNCHANGED <<daemon, pending_ppd, poll, loop>>
  BY DeadCall DEF CallStep, CallAxis, CallPl1, CallCurve, CallRecord, CallRecordLimit,
     CallSetProfile, CallSetLimit, CallSetAuto
<1>1. PastShape'
  BY DEF CallStep, CallAxis, CallPl1, CallCurve, CallRecord, CallRecordLimit,
     CallSetProfile, CallSetLimit, CallSetAuto, Base, PastShape, Failing, Beginning
<1>2. Kept(settings') /\ Kept(saved')
  BY DEF CallStep, CallAxis, CallPl1, CallCurve, CallRecord, CallRecordLimit,
     CallSetProfile, CallSetLimit, CallSetAuto, Base, Kept, Save
<1>3. ppd' \in Code
  BY ProfileAssumption DEF CallStep, CallAxis, CallPl1, CallCurve, CallRecord, CallRecordLimit,
     CallSetProfile, CallSetLimit, CallSetAuto, Base, CallShape, AxisSet, Applying
<1>4. CallShape'
  <2>1. CASE call' = IdleCall
    BY <2>1 DEF CallShape, IdleCall, Applying
  <2>2. CASE CallAxis /\ call' = [call EXCEPT !.pc = "pl1"]
    BY <2>2 DEF CallShape, Base, CallAxis, Applying
  <2>3. CASE CallPl1 /\ call' = [call EXCEPT !.pc = "curve"] /\ SetRegister(call.watts)
    BY <2>3 DEF CallShape, Base, CallPl1, Applying, SetRegister
  <2>4. CASE CallCurve /\ call' = [call EXCEPT !.pc = "record"]
    BY <2>4 DEF CallShape, Base, CallCurve, Applying
  <2>5. ASSUME NEW n \in Known, CallSetProfile(n) PROVE CallShape'
    BY <2>5, ProfileAssumption DEF CallShape, CallSetProfile, Applying
  <2>6. ASSUME NEW w \in Watts, CallSetLimit(w) PROVE CallShape'
    <3>1. CASE call' = [pc |-> "limit", name |-> None, watts |-> w]
      BY <2>6, <3>1, ProfileAssumption DEF CallShape, CallSetLimit, Applying, SetRegister
    <3>2. CASE UNCHANGED call
      BY <3>2 DEF CallShape, Base
    <3> QED BY <2>6, <3>1, <3>2 DEF CallSetLimit
  <2>7. CASE UNCHANGED call
    BY <2>7 DEF CallShape, Base
  <2> QED BY <2>1, <2>2, <2>3, <2>4, <2>5, <2>6, <2>7
       DEF CallStep, CallAxis, CallPl1, CallCurve,
     CallRecord, CallRecordLimit, CallSetAuto
<1> QED BY <1>0, <1>1, <1>2, <1>3, <1>4 DEF Base, PollShape, LoopShape

LEMMA BasePoll == ASSUME Base, PollStep PROVE Base'
<1>0. daemon = "up" /\ UNCHANGED <<daemon, call>>
  BY DeadCall DEF PollStep, PollResume, PollStartup, PollSource, PollSlider, PollAxis,
     PollPl1, PollCurve, PollRecord, PollEnforce, PollAssert
<1>1. PastShape'
  BY DEF PollStep, PollResume, PollStartup, PollSource, PollSlider, PollAxis,
     PollPl1, PollCurve, PollRecord, PollEnforce, PollAssert, Base, PastShape, Failing, Beginning
<1>2. Kept(settings') /\ Kept(saved')
  BY DEF PollStep, PollResume, PollStartup, PollSource, PollSlider, PollAxis,
     PollPl1, PollCurve, PollRecord, PollEnforce, PollAssert, Base, Kept, Save
<1>3. pending_ppd' \in Code \cup {0}
  BY DEF PollStep, PollResume, PollStartup, PollSource, PollSlider, PollAxis,
     PollPl1, PollCurve, PollRecord, PollEnforce, PollAssert, Base
<1>4. ppd' \in Code
  BY ProfileAssumption DEF PollStep, PollResume, PollStartup, PollSource, PollSlider, PollAxis,
     PollPl1, PollCurve, PollRecord, PollEnforce, PollAssert, Base, PollShape, AxisSet, Applying
<1>5. LoopShape'
  BY DEF PollStep, PollResume, PollStartup, PollSource, PollSlider, PollAxis,
     PollPl1, PollCurve, PollRecord, PollEnforce, PollAssert, Base, LoopShape
<1>6. PollShape'
  <2>1. ASSUME NEW pc, pc \notin Applying, Goto(pc) PROVE PollShape'
    BY <2>1 DEF Goto, PollShape, IdlePoll, Applying
  <2>2. ASSUME NEW n \in Known, NEW pc \in Applying, NEW then, then \notin Applying,
               Apply(n, pc, then) PROVE PollShape'
    BY <2>2 DEF Apply, PollShape
  <2>3. CASE /\ poll.pc \in Applying /\ poll'.pc \in Applying
             /\ poll' = [poll EXCEPT !.pc = poll'.pc]
    BY <2>3 DEF PollShape, Base
  <2>4. poll.then \notin Applying
    BY DEF Base, PollShape
  <2>5. CASE PollResume
    BY <2>1, <2>5 DEF PollResume, Applying
  <2>6. CASE PollStartup \/ PollSource
    BY <2>1, <2>2, <2>6 DEF PollStartup, PollSource, Applying
  <2>7. CASE PollSlider
    <3>1. pending_ppd # 0 => Canonical[pending_ppd] \in Known
      BY ProfileAssumption DEF Base
    <3> QED BY <2>1, <2>2, <2>7, <3>1 DEF PollSlider, Applying
  <2>8. CASE PollAxis
    BY <2>1, <2>3, <2>4, <2>8 DEF PollAxis, Applying, Base, PollShape
  <2>9. CASE PollPl1
    BY <2>1, <2>3, <2>4, <2>9 DEF PollPl1, Applying, Base, PollShape
  <2>10. CASE PollCurve
    BY <2>1, <2>3, <2>4, <2>10 DEF PollCurve, Applying, Base, PollShape
  <2>11. CASE PollRecord \/ PollEnforce \/ PollAssert
    BY <2>1, <2>4, <2>11 DEF PollRecord, PollEnforce, PollAssert, Applying
  <2> QED BY <2>5, <2>6, <2>7, <2>8, <2>9, <2>10, <2>11 DEF PollStep
<1> QED BY <1>0, <1>1, <1>2, <1>3, <1>4, <1>5, <1>6 DEF Base, CallShape

LEMMA BaseStep == Base /\ [ProfileNext]_profileVars => Base'
<1>1. ASSUME Base, UNCHANGED profileVars PROVE Base'
  BY <1>1 DEF profileVars, Base, Dead, CallShape, PollShape, LoopShape, PastShape
<1>2. ASSUME Base, ProfileNext PROVE Base'
  BY <1>2, BaseWorld, BaseCall, BasePoll DEF ProfileNext
<1> QED BY <1>1, <1>2

-----------------------------------------------------------------------------
(* The profile in use is whole *)

CallApplying == call.pc \in Applying

\* The position of profile n is the slider's, or a change is still to be followed.
Followed(n) == changed \/ pending_ppd # 0 \/ ppd = Book[n].ppd

\* Profile n has been applied as far as pc.
Underway(n, pc) ==
  /\ n \in Known /\ applied_ppd \in {0, Book[n].ppd}
  /\ pc # "axis" => Followed(n)
  /\ pc = "record" => curve_of = n

\* Why WholeProfile holds: an application that overlaps no other leaves the slider, the
\* curve and the record as far along as its step, a slider that is elsewhere is still to
\* be followed, and the moment both actors apply something past.overlap says so.
WholeInv ==
  daemon = "up" =>
    /\ pending_ppd # 0 /\ ~changed => pending_ppd = ppd
    /\ PollApplying /\ CallBusy => past.overlap
    /\ CallApplying /\ ~past.overlap => Underway(call.name, call.pc)
    /\ PollApplying /\ ~past.overlap => Underway(poll.name, poll.pc)
    /\ ~past.parted /\ ~CallApplying /\ ~PollApplying
         => Underway(settings["profile"], "record")

\* Whoever is applying is at one of the four steps.
LEMMA AtWork ==
  ASSUME Base
  PROVE  /\ PollApplying <=> poll.pc \in Applying
         /\ CallApplying => CallBusy
  BY ProfileAssumption DEF Base, PollShape, PollApplying, CallApplying, CallBusy, Applying

\* What touches neither slider, curve, record nor an application disturbs nothing.
LEMMA WholeFrame ==
  ASSUME WholeInv,
         UNCHANGED <<daemon, ppd, changed, pending_ppd, applied_ppd, curve_of, call, poll>>,
         settings'["profile"] = settings["profile"],
         past'.overlap = past.overlap, past'.parted = past.parted
  PROVE  WholeInv'
  BY DEF WholeInv, PollApplying, CallBusy, CallApplying, Underway, Followed

\* Starts, crashes, the slider, firmware, the cable and the watcher.
LEMMA WholeWorld ==
  ASSUME Base, WholeInv,
         StartProfiles \/ CrashProfiles \/ Slide \/ FirmwareRewrites \/ PowerSource \/ Watch
  PROVE  WholeInv'
<1>1. CASE StartProfiles
  <2>1. /\ Dead /\ UNCHANGED <<pending_ppd, poll, call>>
    BY <1>1 DEF StartProfiles, Base
  <2>2. past'.parted
    BY <1>1 DEF StartProfiles, Base, PastShape
  <2>3. ~PollApplying' /\ ~CallApplying' /\ pending_ppd' = 0
    BY <2>1 DEF PollApplying, CallApplying, Dead, IdleCall, IdlePoll, Applying
  <2> QED BY <2>2, <2>3 DEF WholeInv
<1>2. CASE CrashProfiles
  BY <1>2 DEF CrashProfiles, WholeInv
<1>3. CASE Slide
  <2>1. /\ changed' = (daemon = "up")
        /\ UNCHANGED <<daemon, pending_ppd, applied_ppd, curve_of, settings, call, poll>>
    BY <1>3 DEF Slide
  <2>2. past'.overlap = past.overlap /\ past'.parted = past.parted
    BY <1>3 DEF Slide, Base, PastShape
  <2> QED BY <2>1, <2>2 DEF WholeInv, PollApplying, CallBusy, CallApplying, Underway, Followed
<1>4. CASE FirmwareRewrites
  BY <1>4, WholeFrame DEF FirmwareRewrites
<1>5. CASE PowerSource
  <2>1. past'.overlap = past.overlap /\ past'.parted = past.parted
    BY <1>5 DEF PowerSource, Base, PastShape
  <2> QED BY <1>5, <2>1, WholeFrame DEF PowerSource
<1>6. CASE Watch
  <2>1. /\ changed' = FALSE /\ pending_ppd' = ppd /\ ppd # 0
        /\ UNCHANGED <<daemon, ppd, applied_ppd, curve_of, settings, call, poll, past>>
    BY <1>6, ProfileAssumption DEF Watch, Base
  <2> QED BY <2>1 DEF WholeInv, PollApplying, CallBusy, CallApplying, Underway, Followed
<1> QED BY <1>1, <1>2, <1>3, <1>4, <1>5, <1>6

\* An application that fails half-way.
LEMMA FailingParts == ASSUME PastShape, Failing
  PROVE past'.parted /\ past'.overlap = past.overlap /\ past'.chosen = NoChoice
  BY DEF PastShape, Failing

\* A call begins, or is all of it.
LEMMA WholeCalls ==
  ASSUME Base, WholeInv,
         \/ \E n \in Known : CallSetProfile(n)
         \/ \E w \in Watts : CallSetLimit(w)
         \/ \E pair \in AutoChoices : CallSetAuto(pair)
  PROVE  WholeInv'
<1>1. ASSUME NEW n \in Known, CallSetProfile(n) PROVE WholeInv'
  <2>1. /\ daemon = "up" /\ call.pc = "idle" /\ applied_ppd' = Book[n].ppd
        /\ call' = [pc |-> "axis", name |-> n, watts |-> Book[n].watts]
        /\ UNCHANGED <<daemon, ppd, changed, pending_ppd, curve_of, settings, poll>>
    BY <1>1 DEF CallSetProfile, Mark
  <2>2. past'.overlap = PollApplying
    BY <1>1 DEF CallSetProfile, Beginning, Base, PastShape
  <2>3. CallApplying' /\ CallBusy' /\ PollApplying' = PollApplying /\ Underway(n, "axis")'
    BY <2>1 DEF CallApplying, CallBusy, PollApplying, Underway, Applying
  <2>4. call'.name = n /\ call'.pc = "axis"
    BY <2>1
  <2> QED BY <2>1, <2>2, <2>3, <2>4 DEF WholeInv
<1>2. ASSUME NEW w \in Watts, CallSetLimit(w) PROVE WholeInv'
  <2>1. /\ daemon = "up" /\ call.pc = "idle"
        /\ UNCHANGED <<daemon, ppd, changed, pending_ppd, applied_ppd, curve_of, settings, poll>>
    BY <1>2 DEF CallSetLimit
  <2>2. CASE call' = [pc |-> "limit", name |-> None, watts |-> w]
             /\ past' = [past EXCEPT !.overlap = PollApplying, !.setAgain = GivenUpOn]
    <3>1. past'.overlap = PollApplying /\ past'.parted = past.parted
      BY <2>2 DEF Base, PastShape
    <3>2. ~CallApplying /\ ~CallApplying'
      BY <2>1, <2>2 DEF CallApplying, Applying
    <3> QED BY <2>1, <3>1, <3>2 DEF WholeInv, PollApplying, Underway, Followed
  <2>3. CASE UNCHANGED <<call, past>>
    BY <2>1, <2>3, WholeFrame
  <2> QED BY <1>2, <2>2, <2>3 DEF CallSetLimit
<1>3. ASSUME NEW pair \in AutoChoices, CallSetAuto(pair) PROVE WholeInv'
  <2>1. settings'["profile"] = settings["profile"]
    BY <1>3, FieldNames DEF CallSetAuto, Save, Base, Kept
  <2> QED BY <1>3, <2>1, WholeFrame DEF CallSetAuto
<1> QED BY <1>1, <1>2, <1>3

\* The steps of set_profile and set_power_limit.
LEMMA WholeCallStep == ASSUME Base, WholeInv, CallStep PROVE WholeInv'
<1>0. daemon = "up" /\ daemon' = "up" /\ UNCHANGED <<pending_ppd, applied_ppd, poll>>
  BY DeadCall DEF CallStep, CallAxis, CallPl1, CallCurve, CallRecord, CallRecordLimit
<1>1. CASE Failing /\ call' = IdleCall /\ UNCHANGED <<ppd, changed, curve_of>>
  <2>1. past'.parted /\ past'.overlap = past.overlap
    BY <1>1, FailingParts DEF Base
  <2>2. ~CallApplying' /\ ~CallBusy'
    BY <1>1 DEF CallApplying, CallBusy, IdleCall, Applying
  <2> QED BY <1>0, <1>1, <2>1, <2>2 DEF WholeInv, PollApplying, Underway, Followed
<1>2. ASSUME call.pc \in Applying, call'.pc \in Applying, call'.name = call.name,
             UNCHANGED past, pending_ppd # 0 /\ ~changed' => pending_ppd = ppd',
             ~past.overlap => Underway(call.name, call.pc)'
      PROVE  WholeInv'
  <2>1. CallApplying /\ CallApplying' /\ CallBusy /\ CallBusy'
    BY <1>2 DEF CallApplying, CallBusy, Applying
  <2>2. PollApplying => past.overlap
    BY <1>0, <2>1 DEF WholeInv
  <2> QED BY <1>0, <1>2, <2>1, <2>2 DEF WholeInv, PollApplying
<1>3. CASE /\ CallAxis /\ AxisSet(call.name)
           /\ call' = [call EXCEPT !.pc = "pl1"] /\ UNCHANGED past
  <2>1. /\ call.pc = "axis" /\ call' = [call EXCEPT !.pc = "pl1"] /\ UNCHANGED past
        /\ ppd' = Book[call.name].ppd /\ changed' = (changed \/ ppd # Book[call.name].ppd)
        /\ UNCHANGED <<pending_ppd, applied_ppd>>
    BY <1>3 DEF CallAxis, AxisSet
  <2>2. call'.pc = "pl1" /\ call'.name = call.name
    BY <2>1 DEF Base, CallShape
  <2>3. ~past.overlap => Underway(call.name, call.pc)'
    BY <1>0, <2>1, <2>2 DEF WholeInv, CallApplying, Applying, Underway, Followed
  <2>4. pending_ppd # 0 /\ ~changed' => pending_ppd = ppd'
    BY <1>0, <2>1 DEF WholeInv
  <2> QED BY <1>2, <2>1, <2>2, <2>3, <2>4 DEF Applying
<1>4. CASE /\ CallPl1 /\ SetRegister(call.watts)
           /\ call' = [call EXCEPT !.pc = "curve"] /\ UNCHANGED past
  <2>1. /\ call.pc = "pl1" /\ call' = [call EXCEPT !.pc = "curve"] /\ UNCHANGED past
        /\ UNCHANGED <<ppd, changed, pending_ppd, applied_ppd>>
    BY <1>4 DEF CallPl1
  <2>2. call'.pc = "curve" /\ call'.name = call.name
    BY <2>1 DEF Base, CallShape
  <2>3. ~past.overlap => Underway(call.name, call.pc)'
    BY <1>0, <2>1, <2>2 DEF WholeInv, CallApplying, Applying, Underway, Followed
  <2>4. pending_ppd # 0 /\ ~changed' => pending_ppd = ppd'
    BY <1>0, <2>1 DEF WholeInv
  <2> QED BY <1>2, <2>1, <2>2, <2>3, <2>4 DEF Applying
<1>5. CASE /\ CallCurve /\ curve_of' = call.name
           /\ call' = [call EXCEPT !.pc = "record"] /\ UNCHANGED past
  <2>1. /\ call.pc = "curve" /\ call' = [call EXCEPT !.pc = "record"] /\ UNCHANGED past
        /\ curve_of' = call.name
        /\ UNCHANGED <<ppd, changed, pending_ppd, applied_ppd>>
    BY <1>5 DEF CallCurve
  <2>2. call'.pc = "record" /\ call'.name = call.name
    BY <2>1 DEF Base, CallShape
  <2>3. ~past.overlap => Underway(call.name, call.pc)'
    BY <1>0, <2>1, <2>2 DEF WholeInv, CallApplying, Applying, Underway, Followed
  <2>4. pending_ppd # 0 /\ ~changed' => pending_ppd = ppd'
    BY <1>0, <2>1 DEF WholeInv
  <2> QED BY <1>2, <2>1, <2>2, <2>3, <2>4 DEF Applying
<1>6. CASE CallRecord
  <2>1. /\ call.pc = "record" /\ call' = IdleCall
        /\ settings' = [settings EXCEPT !["profile"] = call.name,
                                        !["power_limit"] = call.watts]
        /\ UNCHANGED <<ppd, changed, pending_ppd, applied_ppd, curve_of, poll>>
    BY <1>6 DEF CallRecord, Save
  <2>2. past'.parted = past.overlap /\ past'.overlap = past.overlap
    <3>1. PICK c : past' = [past EXCEPT !.parted = past.overlap, !.chosen = c]
      BY <1>6 DEF CallRecord
    <3> QED BY <3>1 DEF Base, PastShape
  <2>3. settings'["profile"] = call.name
    BY <2>1, FieldNames DEF Base, Kept
  <2>4. CallApplying /\ CallBusy /\ ~CallApplying' /\ ~CallBusy'
    BY <2>1 DEF CallApplying, CallBusy, IdleCall, Applying
  <2>5. PICK n : n = call.name
    OBVIOUS
  <2>6. ~past.overlap => Underway(n, "record")' /\ ~PollApplying
    BY <1>0, <2>1, <2>4, <2>5 DEF WholeInv, Underway, Followed
  <2> QED BY <1>0, <2>1, <2>2, <2>3, <2>4, <2>5, <2>6
          DEF WholeInv, PollApplying, Underway, Followed
<1>7. CASE CallRecordLimit
  <2>1. /\ call.pc = "limit" /\ call' = IdleCall
        /\ settings' = [settings EXCEPT !["power_limit"] = call.watts]
        /\ UNCHANGED <<ppd, changed, pending_ppd, applied_ppd, curve_of, poll>>
    BY <1>7 DEF CallRecordLimit, Save
  <2>2. past'.parted = past.parted /\ past'.overlap = past.overlap
    BY <1>7 DEF CallRecordLimit, Base, PastShape
  <2>3. settings'["profile"] = settings["profile"]
    BY <2>1, FieldNames DEF Base, Kept
  <2>4. ~CallApplying /\ ~CallApplying' /\ ~CallBusy'
    BY <2>1 DEF CallApplying, CallBusy, IdleCall, Applying
  <2> QED BY <1>0, <2>1, <2>2, <2>3, <2>4 DEF WholeInv, PollApplying, Underway, Followed
<1> QED BY <1>1, <1>3, <1>4, <1>5, <1>6, <1>7 DEF CallStep, CallAxis, CallPl1, CallCurve

\* The tick up to the application of a profile.
LEMMA WholePollChooses ==
  ASSUME Base, WholeInv, PollResume \/ PollStartup \/ PollSource \/ PollSlider
  PROVE  WholeInv'
<1>0. /\ daemon = "up" /\ daemon' = "up" /\ ~PollApplying
      /\ UNCHANGED <<ppd, changed, curve_of, settings, call>>
  <2>1. poll.pc \notin Applying
    BY DEF PollResume, PollStartup, PollSource, PollSlider, Applying
  <2>2. daemon = "up"
    BY DeadCall DEF PollResume, PollStartup, PollSource, PollSlider
  <2> QED BY <2>1, <2>2, AtWork DEF PollResume, PollStartup, PollSource, PollSlider
<1>1. ASSUME NEW pc, Goto(pc), UNCHANGED <<applied_ppd, pending_ppd>>,
             past'.overlap = past.overlap, past'.parted = past.parted
      PROVE  WholeInv'
  <2>1. ~PollApplying'
    BY <1>1 DEF Goto, PollApplying, IdlePoll
  <2> QED BY <1>0, <1>1, <2>1
          DEF WholeInv, CallBusy, CallApplying, Underway, Followed
<1>2. ASSUME NEW n \in Known, NEW then, Mark(n), Apply(n, "axis", then),
             UNCHANGED pending_ppd, past'.overlap = CallBusy
      PROVE  WholeInv'
  <2>1. /\ PollApplying' /\ poll'.name = n /\ poll'.pc = "axis"
        /\ CallBusy' = CallBusy /\ CallApplying' = CallApplying
    BY <1>0, <1>2, ProfileAssumption DEF Apply, PollApplying, CallBusy, CallApplying
  <2>2. CallApplying => CallBusy
    BY AtWork
  <2>3. Underway(n, "axis")'
    BY <1>2 DEF Underway, Mark
  <2> QED BY <1>0, <1>2, <2>1, <2>2, <2>3 DEF WholeInv
<1>3. CASE PollResume
  BY <1>1, <1>3 DEF PollResume
<1>4. CASE PollStartup
  <2>1. CASE loop.startup \in Known
    <3>1. past'.overlap = CallBusy
      BY <1>4, <2>1 DEF PollStartup, Beginning, Base, PastShape
    <3> QED BY <1>2, <1>4, <2>1, <3>1 DEF PollStartup
  <2>2. CASE loop.startup \notin Known
    BY <1>1, <1>4, <2>2 DEF PollStartup
  <2> QED BY <2>1, <2>2
<1>5. CASE PollSource
  <2>1. CASE SourceChanged(loop.last_on_ac, on_ac) /\ AutoProfile \in Known
    <3>1. past'.overlap = CallBusy
      BY <1>5, <2>1 DEF PollSource, Beginning, Base, PastShape
    <3> QED BY <1>2, <1>5, <2>1, <3>1 DEF PollSource
  <2>2. CASE ~(SourceChanged(loop.last_on_ac, on_ac) /\ AutoProfile \in Known)
    BY <1>1, <1>5, <2>2 DEF PollSource
  <2> QED BY <2>1, <2>2
<1>6. CASE PollSlider
  <2>1. pending_ppd' = 0 /\ applied_ppd' = IF pending_ppd = 0 THEN applied_ppd ELSE 0
    BY <1>6 DEF PollSlider
  <2>2. CASE pending_ppd # 0 /\ applied_ppd # pending_ppd
    <3>1. Apply(Canonical[pending_ppd], "pl1", "enforce") /\ past'.overlap = CallBusy
      BY <1>6, <2>2 DEF PollSlider, Base, PastShape
    <3>2. PICK n \in Known : n = Canonical[pending_ppd] /\ Book[n].ppd = pending_ppd
      BY <2>2, ProfileAssumption DEF Base
    <3>3. /\ PollApplying' /\ poll'.name = n /\ poll'.pc = "pl1"
          /\ CallBusy' = CallBusy /\ CallApplying' = CallApplying
      BY <1>0, <3>1, <3>2, ProfileAssumption DEF Apply, PollApplying, CallBusy, CallApplying
    <3>4. CallApplying => CallBusy
      BY AtWork
    <3>5. Underway(n, "pl1")'
      BY <1>0, <2>1, <2>2, <3>2 DEF WholeInv, Underway, Followed
    <3> QED BY <1>0, <2>1, <3>1, <3>3, <3>4, <3>5 DEF WholeInv
  <2>3. CASE ~(pending_ppd # 0 /\ applied_ppd # pending_ppd)
    <3>1. Goto("enforce") /\ past'.overlap = past.overlap /\ past'.parted = past.parted
      BY <1>6, <2>3 DEF PollSlider, Base, PastShape
    <3>2. CASE pending_ppd = 0
      BY <1>1, <2>1, <3>1, <3>2
    <3>3. CASE pending_ppd # 0 /\ applied_ppd = pending_ppd
      <4>1. ~PollApplying'
        BY <3>1 DEF Goto, PollApplying, IdlePoll
      <4>2. ASSUME NEW n, NEW pc, Underway(n, pc) PROVE Underway(n, pc)'
        BY <1>0, <2>1, <3>3, <4>2 DEF WholeInv, Underway, Followed
      <4>3. ~CallApplying \/ past.overlap \/ Underway(call.name, call.pc)'
        BY <1>0, <4>2 DEF WholeInv
      <4>4. past.parted \/ CallApplying \/ Underway(settings["profile"], "record")'
        BY <1>0, <4>2 DEF WholeInv
      <4> QED BY <1>0, <2>1, <3>1, <4>1, <4>3, <4>4 DEF WholeInv, CallApplying
    <3> QED BY <2>3, <3>2, <3>3
  <2> QED BY <2>2, <2>3
<1> QED BY <1>3, <1>4, <1>5, <1>6

\* The rest of it.
LEMMA WholePollApplies ==
  ASSUME Base, WholeInv,
         PollAxis \/ PollPl1 \/ PollCurve \/ PollRecord \/ PollEnforce \/ PollAssert
  PROVE  WholeInv'
<1>0. daemon = "up" /\ daemon' = "up" /\ UNCHANGED <<pending_ppd, applied_ppd, call>>
  BY DeadCall DEF PollAxis, PollPl1, PollCurve, PollRecord, PollEnforce, PollAssert
<1>1. CASE Failing /\ Goto(poll.then) /\ UNCHANGED <<ppd, changed, curve_of>>
  <2>1. past'.parted /\ past'.overlap = past.overlap
    BY <1>1, FailingParts DEF Base
  <2>2. ~PollApplying'
    BY <1>1 DEF PollApplying, Goto, IdlePoll
  <2> QED BY <1>0, <1>1, <2>1, <2>2 DEF WholeInv, CallBusy, CallApplying, Underway, Followed
<1>2. ASSUME poll.pc \in Applying, poll'.pc \in Applying, poll'.name = poll.name,
             UNCHANGED past, pending_ppd # 0 /\ ~changed' => pending_ppd = ppd',
             ~past.overlap => Underway(poll.name, poll.pc)'
      PROVE  WholeInv'
  <2>1. PollApplying /\ PollApplying'
    BY <1>2, ProfileAssumption DEF PollApplying, Base, PollShape
  <2>2. CallBusy' = CallBusy /\ CallApplying' = CallApplying
    BY <1>0 DEF CallBusy, CallApplying
  <2>3. CallBusy => past.overlap
    BY <1>0, <2>1 DEF WholeInv
  <2>4. CallApplying => CallBusy
    BY AtWork
  <2> QED BY <1>0, <1>2, <2>1, <2>2, <2>3, <2>4 DEF WholeInv
<1>3. CASE PollAxis /\ AxisSet(poll.name) /\ poll' = [poll EXCEPT !.pc = "pl1"]
           /\ UNCHANGED past
  <2>1. /\ poll.pc = "axis"
        /\ ppd' = Book[poll.name].ppd /\ changed' = (changed \/ ppd # Book[poll.name].ppd)
        /\ UNCHANGED <<pending_ppd, applied_ppd>>
    BY <1>3 DEF PollAxis, AxisSet
  <2>2. poll'.pc = "pl1" /\ poll'.name = poll.name
    BY <1>3 DEF Base, PollShape
  <2>3. ~past.overlap => Underway(poll.name, poll.pc)'
    BY <1>0, <2>1, <2>2, AtWork DEF WholeInv, Applying, Underway, Followed
  <2>4. pending_ppd # 0 /\ ~changed' => pending_ppd = ppd'
    BY <1>0, <2>1 DEF WholeInv
  <2> QED BY <1>2, <1>3, <2>1, <2>2, <2>3, <2>4 DEF Applying
<1>4. CASE PollPl1 /\ poll' = [poll EXCEPT !.pc = "curve"] /\ UNCHANGED past
  <2>1. poll.pc = "pl1" /\ UNCHANGED <<ppd, changed, pending_ppd, applied_ppd>>
    BY <1>4 DEF PollPl1
  <2>2. poll'.pc = "curve" /\ poll'.name = poll.name
    BY <1>4 DEF Base, PollShape
  <2>3. ~past.overlap => Underway(poll.name, poll.pc)'
    BY <1>0, <2>1, <2>2, AtWork DEF WholeInv, Applying, Underway, Followed
  <2>4. pending_ppd # 0 /\ ~changed' => pending_ppd = ppd'
    BY <1>0, <2>1 DEF WholeInv
  <2> QED BY <1>2, <1>4, <2>1, <2>2, <2>3, <2>4 DEF Applying
<1>5. CASE PollCurve /\ curve_of' = poll.name /\ poll' = [poll EXCEPT !.pc = "record"]
           /\ UNCHANGED past
  <2>1. poll.pc = "curve" /\ UNCHANGED <<ppd, changed, pending_ppd, applied_ppd>>
    BY <1>5 DEF PollCurve
  <2>2. poll'.pc = "record" /\ poll'.name = poll.name
    BY <1>5 DEF Base, PollShape
  <2>3. ~past.overlap => Underway(poll.name, poll.pc)'
    BY <1>0, <1>5, <2>1, <2>2, AtWork DEF WholeInv, Applying, Underway, Followed
  <2>4. pending_ppd # 0 /\ ~changed' => pending_ppd = ppd'
    BY <1>0, <2>1 DEF WholeInv
  <2> QED BY <1>2, <1>5, <2>1, <2>2, <2>3, <2>4 DEF Applying
<1>6. CASE PollRecord
  <2>1. /\ poll.pc = "record" /\ Goto(poll.then)
        /\ UNCHANGED <<ppd, changed, pending_ppd, applied_ppd, curve_of, call>>
    BY <1>6 DEF PollRecord
  <2>2. past'.parted = past.overlap /\ past'.overlap = past.overlap
    <3>1. \/ past' = [past EXCEPT !.parted = past.overlap]
          \/ past' = [past EXCEPT !.parted = past.overlap, !.chosen = NoChoice]
      BY <1>6 DEF PollRecord
    <3> QED BY <3>1 DEF Base, PastShape
  <2>3. settings'["profile"] = poll.name
    <3>1. PICK w : settings' = [settings EXCEPT !["profile"] = poll.name, !["power_limit"] = w]
      BY <1>6 DEF PollRecord, Save
    <3> QED BY <3>1, FieldNames DEF Base, Kept
  <2>4. PollApplying /\ ~PollApplying'
    BY <2>1, AtWork DEF PollApplying, Goto, IdlePoll, Applying
  <2>5. PICK n : n = poll.name
    OBVIOUS
  <2>6. ~past.overlap => Underway(n, "record")' /\ ~CallBusy
    BY <1>0, <2>1, <2>4, <2>5 DEF WholeInv, Underway, Followed
  <2>7. CallApplying => CallBusy
    BY AtWork
  <2> QED BY <1>0, <2>1, <2>2, <2>3, <2>4, <2>5, <2>6, <2>7
          DEF WholeInv, CallBusy, CallApplying, Underway, Followed
<1>7. CASE PollEnforce \/ PollAssert
  <2>1. ~PollApplying
    BY <1>7, AtWork DEF PollEnforce, PollAssert, Applying
  <2>2. PICK pc : Goto(pc)
    BY <1>7 DEF PollEnforce, PollAssert
  <2>3. ~PollApplying'
    BY <2>2 DEF Goto, PollApplying, IdlePoll
  <2>4. UNCHANGED <<ppd, changed, curve_of, settings, past>>
    BY <1>7 DEF PollEnforce, PollAssert
  <2> QED BY <1>0, <2>1, <2>3, <2>4 DEF WholeInv, CallBusy, CallApplying, Underway, Followed
<1> QED BY <1>1, <1>3, <1>4, <1>5, <1>6, <1>7 DEF PollAxis, PollPl1, PollCurve

BaseWhole == Base /\ WholeInv

\* Every step keeps it.
LEMMA WholeStep == BaseWhole /\ [ProfileNext]_profileVars => BaseWhole'
<1>1. ASSUME BaseWhole, UNCHANGED profileVars PROVE BaseWhole'
  BY <1>1 DEF profileVars, BaseWhole, Base, Dead, CallShape, PollShape, LoopShape, PastShape,
     WholeInv, PollApplying, CallBusy, CallApplying, Underway, Followed
<1>2. ASSUME BaseWhole, ProfileNext PROVE BaseWhole'
  BY <1>2, BaseStep, WholeWorld, WholeCalls, WholeCallStep, WholePollChooses, WholePollApplies
  DEF BaseWhole, ProfileNext, PollStep
<1> QED BY <1>1, <1>2

\* At rest nobody is applying, so what was applied last is all of it.
LEMMA WholeNow == ASSUME BaseWhole PROVE WholeProfile
<1> SUFFICES ASSUME AtRest, ~past.parted
             PROVE  /\ settings["profile"] \in Known /\ curve_of = settings["profile"]
                    /\ ppd = Book[settings["profile"]].ppd
  BY DEF WholeProfile
<1>1. ~CallApplying /\ ~PollApplying
  BY AtWork DEF AtRest, BaseWhole, Applying
<1> QED BY <1>1 DEF AtRest, BaseWhole, WholeInv, Underway, Followed

\* At rest the slider, the curve and the recorded profile are one profile's, whoever moved
\* last, unless the last application failed half-way or overlapped another (set_profile,
\* apply_profile, record_profile and the echo filter of poll_loop), for any profiles, any
\* number of calls, slides, cables and failures.
THEOREM WholeProfileSafe == ProfileSpec => []WholeProfile
<1>1. ProfileInit => BaseWhole
  BY BaseInit DEF ProfileInit, BaseWhole, WholeInv
<1>2. BaseWhole /\ [ProfileNext]_profileVars => BaseWhole'
  BY WholeStep
<1>3. BaseWhole => WholeProfile
  BY WholeNow
<1> QED BY <1>1, <1>2, <1>3, PTL DEF ProfileSpec
-----------------------------------------------------------------------------
(* What was chosen stays *)

\* No change is on its way but the echo of the position the daemon has asked for.
Quietly ==
  /\ ~(changed /\ pending_ppd # 0)
  /\ changed => ppd = applied_ppd
  /\ pending_ppd # 0 => pending_ppd = applied_ppd

\* Profile n is being applied, and nothing else has moved the slider.
Asking(n, pc) ==
  /\ Quietly
  /\ pc = "axis" => ~changed /\ pending_ppd = 0 /\ applied_ppd = Book[n].ppd

\* The choice is in the file.
OnFile ==
  /\ saved["profile"] = past.chosen.name /\ saved["power_limit"] = past.chosen.watts
  /\ past.chosen.watts \in Nat /\ Writable(past.chosen.watts)

\* All the poll task will do about it is apply it again.
Reapplied ==
  /\ loop.last_on_ac \in {None, on_ac}
  /\ loop.startup # None =>
       /\ loop.startup = past.chosen.name /\ loop.override = past.chosen.watts
       /\ ~changed /\ pending_ppd = 0
  /\ PollApplying =>
       /\ loop.startup = None
       /\ poll.then = "source" /\ poll.name = past.chosen.name
       /\ loop.override = past.chosen.watts
       /\ Asking(poll.name, poll.pc)

Standing == OnFile /\ Reapplied /\ Quietly /\ ~CallApplying

ChoiceMade == past.chosen # NoChoice

\* Why ChoiceStays holds: what is in memory is in the file; a recorded choice is there; the
\* only change of the slider still to come is the daemon's own echo; and whatever the poll
\* task has been told to apply, by a start, is the choice once more.
ChoiceInv ==
  /\ daemon = "up" => settings = saved
  /\ CallApplying /\ ~past.raced /\ ~past.overlap => Asking(call.name, call.pc)
  /\ ChoiceMade => Standing

\* What poll_loop starts with.
LEMMA FreshLoopFacts ==
  ASSUME NEW s
  PROVE  /\ FreshLoop(s).startup = s["profile"] /\ FreshLoop(s).override = s["power_limit"]
         /\ FreshLoop(s).last_on_ac = None
  BY DEF FreshLoop

\* A daemon that is off applies nothing and expects nothing.
LEMMA DeadFacts ==
  ASSUME Dead
  PROVE  /\ ~CallApplying /\ ~PollApplying /\ Quietly
         /\ loop.startup = None /\ loop.last_on_ac = None
<1>1. ~CallApplying /\ ~PollApplying
  BY DEF Dead, CallApplying, PollApplying, IdleCall, IdlePoll, Applying
<1>2. DefaultState["profile"] = None
  BY FieldNames DEF DefaultState
<1> QED BY <1>1, <1>2, FreshLoopFacts DEF Dead, Quietly

\* What touches neither slider, record, cable nor an application disturbs nothing.
LEMMA ChoiceFrame ==
  ASSUME ChoiceInv,
         UNCHANGED <<daemon, ppd, changed, pending_ppd, applied_ppd, settings, saved, on_ac>>,
         UNCHANGED <<poll, loop, call>>,
         past'.raced = past.raced, past'.overlap = past.overlap,
         past'.chosen \in {past.chosen, NoChoice}
  PROVE  ChoiceInv'
  BY DEF ChoiceInv, ChoiceMade, Standing, OnFile, Reapplied, CallApplying, PollApplying,
     Quietly, Asking

\* Starts, crashes, the slider, firmware, the cable and the watcher.
LEMMA ChoiceWorld ==
  ASSUME Base, ChoiceInv,
         StartProfiles \/ CrashProfiles \/ Slide \/ FirmwareRewrites \/ PowerSource \/ Watch
  PROVE  ChoiceInv'
<1>1. CASE StartProfiles
  <2>1. /\ daemon = "off" /\ settings' = saved /\ loop' = FreshLoop(saved)
        /\ UNCHANGED <<ppd, changed, pending_ppd, applied_ppd, saved, on_ac, poll, call>>
    BY <1>1 DEF StartProfiles
  <2>2. past'.chosen = past.chosen
    BY <1>1 DEF StartProfiles, Base, PastShape
  <2>3. Dead /\ ~changed /\ pending_ppd = 0
    BY <2>1 DEF Base, Dead
  <2>4. ~CallApplying' /\ ~PollApplying' /\ Quietly'
    BY <2>1, <2>3, DeadFacts DEF CallApplying, PollApplying, Quietly
  <2>5. ChoiceMade' => OnFile' /\ OnFile
    BY <2>1, <2>2 DEF ChoiceInv, ChoiceMade, Standing, OnFile
  <2>6. ChoiceMade' => Reapplied'
    BY <2>1, <2>2, <2>3, <2>4, <2>5, FreshLoopFacts DEF Reapplied, OnFile
  <2> QED BY <2>1, <2>4, <2>5, <2>6 DEF ChoiceInv, Standing
<1>2. CASE CrashProfiles
  <2>1. /\ daemon' = "off" /\ loop' = FreshLoop(DefaultState)
        /\ call' = IdleCall /\ poll' = IdlePoll
        /\ changed' = FALSE /\ pending_ppd' = 0 /\ applied_ppd' = 0
    BY <1>2 DEF CrashProfiles
  <2>2. PICK r, o, s : past' = [past EXCEPT !.raced = r, !.overlap = o, !.setAgain = s,
                                  !.chosen = IF saved' = saved THEN @ ELSE NoChoice]
    BY <1>2 DEF CrashProfiles
  <2>3. past'.chosen = IF saved' = saved THEN past.chosen ELSE NoChoice
    BY <2>2 DEF Base, PastShape
  <2>4. Dead'
    BY <2>1 DEF Dead
  <2>5. ~CallApplying' /\ ~PollApplying' /\ Quietly' /\ loop'.startup = None
        /\ loop'.last_on_ac = None
    <3>1. ~CallApplying' /\ ~PollApplying'
      BY <2>1 DEF CallApplying, PollApplying, IdleCall, IdlePoll, Applying
    <3>2. DefaultState["profile"] = None
      BY FieldNames DEF DefaultState
    <3> QED BY <2>1, <3>1, <3>2, FreshLoopFacts DEF Quietly
  <2>6. ChoiceMade' => OnFile'
    BY <2>3 DEF ChoiceInv, ChoiceMade, Standing, OnFile
  <2> QED BY <2>1, <2>5, <2>6 DEF ChoiceInv, Standing, Reapplied
<1>3. CASE Slide
  <2>1. /\ changed' = (daemon = "up") /\ CallApplying' = CallApplying
        /\ PollApplying' = PollApplying
        /\ UNCHANGED <<daemon, pending_ppd, applied_ppd, settings, saved, on_ac, poll, loop, call>>
    BY <1>3 DEF Slide, CallApplying, PollApplying
  <2>2. past'.chosen = IF daemon = "up" THEN NoChoice ELSE past.chosen
    BY <1>3 DEF Slide, Base, PastShape
  <2>3. past'.raced = (past.raced \/ CallBusy \/ PollApplying)
    BY <1>3 DEF Slide, Base, PastShape
  <2>4. CallApplying => past'.raced
    BY <2>3, AtWork
  <2>5. ChoiceMade' => Dead /\ ChoiceMade /\ daemon = "off"
    BY <2>2 DEF ChoiceMade, Base
  <2>6. ChoiceMade' => Standing'
    BY <2>1, <2>2, <2>5, DeadFacts DEF ChoiceInv, Standing, OnFile, Reapplied, Quietly, Dead
  <2> QED BY <2>1, <2>4, <2>6 DEF ChoiceInv
<1>4. CASE FirmwareRewrites
  BY <1>4, ChoiceFrame DEF FirmwareRewrites
<1>5. CASE PowerSource
  <2>1. CASE daemon = "up" /\ loop.last_on_ac # None
    <3>1. /\ UNCHANGED <<daemon, ppd, changed, pending_ppd, applied_ppd, settings, saved>>
          /\ UNCHANGED <<poll, loop, call>> /\ past' = [past EXCEPT !.chosen = NoChoice]
      BY <1>5, <2>1 DEF PowerSource
    <3>2. /\ past'.chosen = NoChoice /\ past'.raced = past.raced
          /\ past'.overlap = past.overlap
      BY <3>1 DEF Base, PastShape
    <3> QED BY <3>1, <3>2 DEF ChoiceInv, ChoiceMade, CallApplying, Quietly, Asking
  <2>2. CASE ~(daemon = "up" /\ loop.last_on_ac # None)
    <3>1. /\ UNCHANGED <<daemon, ppd, changed, pending_ppd, applied_ppd, settings, saved>>
          /\ UNCHANGED <<poll, loop, call, past>>
      BY <1>5, <2>2 DEF PowerSource
    <3>2. loop.last_on_ac = None
      BY <2>2, DeadFacts DEF Base
    <3> QED BY <3>1, <3>2 DEF ChoiceInv, ChoiceMade, Standing, OnFile, Reapplied, CallApplying,
            PollApplying, Quietly, Asking
  <2> QED BY <2>1, <2>2
<1>6. CASE Watch
  <2>1. /\ changed /\ changed' = FALSE /\ pending_ppd' = ppd /\ ppd # 0
        /\ UNCHANGED <<daemon, ppd, applied_ppd, settings, saved, call, poll, past, loop, on_ac>>
    BY <1>6, ProfileAssumption DEF Watch, Base
  <2> QED BY <2>1 DEF ChoiceInv, ChoiceMade, Standing, OnFile, Reapplied, CallApplying,
            PollApplying, Quietly, Asking
<1> QED BY <1>1, <1>2, <1>3, <1>4, <1>5, <1>6

\* A call begins, or is all of it.
LEMMA ChoiceCalls ==
  ASSUME Base, ChoiceInv,
         \/ \E n \in Known : CallSetProfile(n)
         \/ \E w \in Watts : CallSetLimit(w)
         \/ \E pair \in AutoChoices : CallSetAuto(pair)
  PROVE  ChoiceInv'
<1>1. ASSUME NEW n \in Known, CallSetProfile(n) PROVE ChoiceInv'
  <2>1. /\ daemon = "up" /\ call.pc = "idle" /\ applied_ppd' = Book[n].ppd
        /\ call' = [pc |-> "axis", name |-> n, watts |-> Book[n].watts]
        /\ UNCHANGED <<daemon, ppd, changed, pending_ppd, settings, saved>>
    BY <1>1 DEF CallSetProfile, Mark
  <2>2. past' = [Beginning(PollApplying) EXCEPT !.chosen = NoChoice, !.setAgain = FALSE]
    BY <1>1 DEF CallSetProfile
  <2>3. past'.raced = (past.raced \/ Outstanding) /\ past'.chosen = NoChoice
    BY <2>2 DEF Beginning, Base, PastShape
  <2>4. past'.raced \/ (~changed /\ pending_ppd = 0)
    BY <2>3 DEF Outstanding
  <2>5. past'.raced \/ Asking(call.name, call.pc)'
    BY <2>1, <2>4 DEF Asking, Quietly
  <2> QED BY <2>1, <2>3, <2>5 DEF ChoiceInv, ChoiceMade
<1>2. ASSUME NEW w \in Watts, CallSetLimit(w) PROVE ChoiceInv'
  <2>1. /\ daemon = "up" /\ call.pc = "idle"
        /\ UNCHANGED <<daemon, ppd, changed, pending_ppd, applied_ppd, settings, saved>>
        /\ UNCHANGED <<on_ac, poll, loop>>
    BY <1>2 DEF CallSetLimit
  <2>2. past'.chosen = past.chosen
    <3>1. \/ past' = [past EXCEPT !.overlap = PollApplying, !.setAgain = GivenUpOn]
          \/ past' = past
      BY <1>2 DEF CallSetLimit
    <3> QED BY <3>1 DEF Base, PastShape
  <2>3. ~CallApplying /\ ~CallApplying'
    <3>1. \/ call' = [pc |-> "limit", name |-> None, watts |-> w]
          \/ call' = call
      BY <1>2 DEF CallSetLimit
    <3> QED BY <2>1, <3>1 DEF CallApplying, Applying
  <2> QED BY <2>1, <2>2, <2>3 DEF ChoiceInv, ChoiceMade, Standing, OnFile, Reapplied,
            PollApplying, Quietly, Asking
<1>3. ASSUME NEW pair \in AutoChoices, CallSetAuto(pair) PROVE ChoiceInv'
  <2>1. daemon = "up" /\ daemon' = "up" /\ settings' = saved'
    BY <1>3 DEF CallSetAuto, Save
  <2>2. /\ saved'["profile"] = saved["profile"]
        /\ saved'["power_limit"] = saved["power_limit"]
    <3>1. saved' = [saved EXCEPT !["profile_on_ac"] = pair[1], !["profile_on_battery"] = pair[2]]
      BY <1>3, <2>1 DEF CallSetAuto, Save, ChoiceInv
    <3> QED BY <3>1, FieldNames DEF Base, Kept
  <2>3. /\ UNCHANGED <<ppd, changed, pending_ppd, applied_ppd, on_ac>>
        /\ UNCHANGED <<poll, loop, call, past>>
    BY <1>3 DEF CallSetAuto
  <2> QED BY <2>1, <2>2, <2>3 DEF ChoiceInv, ChoiceMade, Standing, OnFile, Reapplied,
            CallApplying, PollApplying, Quietly, Asking
<1> QED BY <1>1, <1>2, <1>3

\* What a call has just recorded is a standing choice, unless something disputes it.
LEMMA ChoiceRecorded ==
  ASSUME Base, WholeInv, daemon = "up", CallBusy, call' = IdleCall,
         call.watts \in Nat, Writable(call.watts),
         NEW n, saved'["profile"] = n, saved'["power_limit"] = call.watts,
         past'.chosen = [name |-> n, watts |-> call.watts],
         Undisputed, Quietly,
         UNCHANGED <<daemon, ppd, changed, pending_ppd, applied_ppd, on_ac>>,
         UNCHANGED <<poll, loop>>
  PROVE  Standing'
<1>1. OnFile'
  BY DEF OnFile
<1>2. ~PollApplying
  BY DEF Undisputed, WholeInv
<1>3. Reapplied'
  BY <1>2 DEF Reapplied, Undisputed, PollApplying
<1>4. Quietly' /\ ~CallApplying'
  BY DEF Quietly, CallApplying, IdleCall, Applying
<1> QED BY <1>1, <1>3, <1>4 DEF Standing

\* The steps of set_profile and set_power_limit.
LEMMA ChoiceCallStep == ASSUME Base, WholeInv, ChoiceInv, CallStep PROVE ChoiceInv'
<1>0. /\ daemon = "up" /\ UNCHANGED <<daemon, pending_ppd, applied_ppd, poll>>
      /\ UNCHANGED <<on_ac, loop>>
  BY DeadCall DEF CallStep, CallAxis, CallPl1, CallCurve, CallRecord, CallRecordLimit
<1>1. CASE Failing /\ call' = IdleCall /\ UNCHANGED <<settings, saved>>
  <2>1. past'.chosen = NoChoice
    BY <1>1, FailingParts DEF Base
  <2>2. ~CallApplying'
    BY <1>1 DEF CallApplying, IdleCall, Applying
  <2> QED BY <1>0, <1>1, <2>1, <2>2 DEF ChoiceInv, ChoiceMade
<1>2. CASE (CallAxis \/ CallPl1 \/ CallCurve) /\ UNCHANGED past
           /\ call' = [call EXCEPT !.pc = call'.pc] /\ call'.pc \in Applying \ {"axis"}
           /\ ((CallAxis /\ AxisSet(call.name)) \/ UNCHANGED <<ppd, changed>>)
  <2>1. CallApplying /\ UNCHANGED <<settings, saved>>
    BY <1>2 DEF CallApplying, Applying, CallAxis, CallPl1, CallCurve
  <2>2. ~ChoiceMade'
    BY <1>2, <2>1 DEF ChoiceInv, ChoiceMade, Standing
  <2>3. Asking(call.name, call.pc) => Quietly'
    <3>1. CASE UNCHANGED <<ppd, changed>>
      BY <1>0, <3>1 DEF Asking, Quietly
    <3>2. CASE CallAxis /\ AxisSet(call.name)
      BY <1>0, <3>2 DEF Asking, Quietly, AxisSet, CallAxis
    <3> QED BY <1>2, <3>1, <3>2
  <2>4. Asking(call.name, call.pc) => Asking(call.name, call.pc)'
    BY <1>2, <2>3 DEF Asking
  <2> QED BY <1>0, <1>2, <2>1, <2>2, <2>4 DEF ChoiceInv
<1>3. CASE CallRecord
  <2>1. /\ call.pc = "record" /\ call' = IdleCall
        /\ settings' = [settings EXCEPT !["profile"] = call.name,
                                        !["power_limit"] = call.watts]
        /\ saved' = settings'
        /\ UNCHANGED <<ppd, changed>>
    BY <1>3 DEF CallRecord, Save
  <2>2. PICK c : c = IF Undisputed THEN [name |-> call.name, watts |-> call.watts] ELSE NoChoice
    OBVIOUS
  <2>3. past'.chosen = c
    <3>1. past' = [past EXCEPT !.parted = past.overlap, !.chosen = c]
      BY <1>3, <2>2 DEF CallRecord
    <3> QED BY <3>1 DEF Base, PastShape
  <2>4. saved'["profile"] = call.name /\ saved'["power_limit"] = call.watts
    BY <2>1, FieldNames DEF Base, Kept
  <2>5. ~CallApplying' /\ CallApplying /\ CallBusy
    BY <2>1 DEF CallApplying, CallBusy, IdleCall, Applying
  <2>6. call.watts \in Nat /\ Writable(call.watts)
    BY <2>1 DEF Base, CallShape
  <2>7. CASE Undisputed
    <3>1. Quietly
      BY <2>5, <2>7 DEF ChoiceInv, Undisputed, Asking
    <3>2. PICK n : n = call.name
      OBVIOUS
    <3>3. Standing'
      BY <1>0, <2>1, <2>2, <2>3, <2>4, <2>5, <2>6, <2>7, <3>1, <3>2, ChoiceRecorded
    <3> QED BY <1>0, <2>1, <2>5, <3>3 DEF ChoiceInv
  <2>8. CASE ~Undisputed
    BY <1>0, <2>1, <2>2, <2>3, <2>5, <2>8 DEF ChoiceInv, ChoiceMade
  <2> QED BY <2>7, <2>8
<1>4. CASE CallRecordLimit
  <2>1. /\ call.pc = "limit" /\ call' = IdleCall
        /\ settings' = [settings EXCEPT !["power_limit"] = call.watts]
        /\ saved' = settings'
        /\ UNCHANGED <<ppd, changed>>
    BY <1>4 DEF CallRecordLimit, Save
  <2>2. PICK n, c : /\ n = settings["profile"]
                    /\ c = IF Undisputed /\ ~Outstanding
                           THEN [name |-> n, watts |-> call.watts] ELSE NoChoice
    OBVIOUS
  <2>3. past'.chosen = c
    <3>1. past' = [past EXCEPT !.chosen = c]
      BY <1>4, <2>2 DEF CallRecordLimit
    <3> QED BY <3>1 DEF Base, PastShape
  <2>4. saved'["profile"] = n /\ saved'["power_limit"] = call.watts
    BY <2>1, <2>2, FieldNames DEF Base, Kept
  <2>5. ~CallApplying' /\ CallBusy
    BY <2>1 DEF CallApplying, CallBusy, IdleCall, Applying
  <2>6. call.watts \in Nat /\ Writable(call.watts)
    BY <2>1 DEF Base, CallShape
  <2>7. CASE Undisputed /\ ~Outstanding
    <3>1. Quietly
      BY <2>7 DEF Quietly, Outstanding
    <3>2. Standing'
      BY <1>0, <2>1, <2>2, <2>3, <2>4, <2>5, <2>6, <2>7, <3>1, ChoiceRecorded
    <3> QED BY <1>0, <2>1, <2>5, <3>2 DEF ChoiceInv
  <2>8. CASE ~(Undisputed /\ ~Outstanding)
    BY <1>0, <2>1, <2>2, <2>3, <2>5, <2>8 DEF ChoiceInv, ChoiceMade
  <2> QED BY <2>7, <2>8
<1>5. CASE CallAxis
  <2>1. \/ Failing /\ call' = IdleCall
        \/ AxisSet(call.name) /\ call' = [call EXCEPT !.pc = "pl1"] /\ UNCHANGED past
    BY <1>5 DEF CallAxis
  <2>2. UNCHANGED <<settings, saved>> /\ call = [call EXCEPT !.pc = call.pc]
    BY <1>5 DEF CallAxis, Base, CallShape
  <2>3. call' = [call EXCEPT !.pc = "pl1"] => call'.pc = "pl1"
    BY DEF Base, CallShape
  <2> QED BY <1>1, <1>2, <1>5, <2>1, <2>2, <2>3 DEF Applying
<1>6. CASE CallPl1
  <2>1. \/ Failing /\ call' = IdleCall
        \/ call' = [call EXCEPT !.pc = "curve"] /\ UNCHANGED past
    BY <1>6 DEF CallPl1
  <2>2. UNCHANGED <<settings, saved, ppd, changed>>
    BY <1>6 DEF CallPl1
  <2>3. call' = [call EXCEPT !.pc = "curve"] => call'.pc = "curve"
    BY DEF Base, CallShape
  <2> QED BY <1>1, <1>2, <1>6, <2>1, <2>2, <2>3 DEF Applying
<1>7. CASE CallCurve
  <2>1. \/ Failing /\ call' = IdleCall
        \/ call' = [call EXCEPT !.pc = "record"] /\ UNCHANGED past
    BY <1>7 DEF CallCurve
  <2>2. UNCHANGED <<settings, saved, ppd, changed>>
    BY <1>7 DEF CallCurve
  <2>3. call' = [call EXCEPT !.pc = "record"] => call'.pc = "record"
    BY DEF Base, CallShape
  <2> QED BY <1>1, <1>2, <1>7, <2>1, <2>2, <2>3 DEF Applying
<1> QED BY <1>3, <1>4, <1>5, <1>6, <1>7 DEF CallStep

\* The tick leaves what was chosen alone.
LEMMA ChoiceLeft ==
  ASSUME Base, ChoiceInv, daemon' = daemon, settings' = settings, saved' = saved,
         UNCHANGED <<call, on_ac>>, ~PollApplying', past'.chosen = past.chosen,
         CallApplying /\ ~past'.raced /\ ~past'.overlap => Asking(call.name, call.pc)',
         ChoiceMade => /\ Quietly' /\ loop'.last_on_ac \in {loop.last_on_ac, on_ac}
                       /\ loop'.startup # None =>
                            /\ loop'.startup = loop.startup /\ loop'.override = loop.override
                            /\ ~changed' /\ pending_ppd' = 0
  PROVE  ChoiceInv'
<1>1. CallApplying' = CallApplying /\ ChoiceMade' = ChoiceMade
  BY DEF CallApplying, ChoiceMade
<1>2. ChoiceMade => OnFile' /\ ~CallApplying
  BY DEF ChoiceInv, Standing, OnFile
<1>3. ChoiceMade => Reapplied'
  BY DEF ChoiceInv, Standing, Reapplied
<1> QED BY <1>1, <1>2, <1>3 DEF ChoiceInv, Standing

\* The tick up to the application of a profile.
LEMMA ChoicePollChooses ==
  ASSUME Base, WholeInv, ChoiceInv, PollResume \/ PollStartup \/ PollSource \/ PollSlider
  PROVE  ChoiceInv'
<1>0. /\ daemon = "up" /\ daemon' = "up" /\ ~PollApplying
      /\ UNCHANGED <<ppd, changed, settings, saved, call, on_ac>>
  <2>1. poll.pc \notin Applying
    BY DEF PollResume, PollStartup, PollSource, PollSlider, Applying
  <2>2. daemon = "up"
    BY DeadCall DEF PollResume, PollStartup, PollSource, PollSlider
  <2> QED BY <2>1, <2>2, AtWork DEF PollResume, PollStartup, PollSource, PollSlider
<1>g. ASSUME NEW pc, Goto(pc) PROVE ~PollApplying'
  BY <1>g DEF Goto, PollApplying, IdlePoll
<1>b. CallApplying => CallBusy
  BY AtWork
<1>1. ASSUME NEW pc, Goto(pc), UNCHANGED <<applied_ppd, pending_ppd, past>>,
             loop'.last_on_ac \in {loop.last_on_ac, on_ac},
             loop'.startup \in {loop.startup, None}, loop'.override = loop.override
      PROVE  ChoiceInv'
  <2>1. CallApplying /\ ~past'.raced /\ ~past'.overlap => Asking(call.name, call.pc)'
    BY <1>0, <1>1 DEF ChoiceInv, Asking, Quietly
  <2>2. ChoiceMade => /\ Quietly'
                      /\ loop'.startup # None => ~changed' /\ pending_ppd' = 0
    BY <1>0, <1>1 DEF ChoiceInv, Standing, Reapplied, Quietly
  <2> QED BY <1>0, <1>1, <1>g, <2>1, <2>2, ChoiceLeft
<1>2. CASE PollResume
  BY <1>1, <1>2 DEF PollResume
<1>3. CASE PollStartup
  <2>1. loop'.startup = None /\ loop'.override = loop.override
        /\ loop'.last_on_ac = loop.last_on_ac
    BY <1>3 DEF PollStartup, Base, LoopShape
  <2>2. CASE loop.startup \notin Known
    BY <1>1, <1>3, <2>1, <2>2 DEF PollStartup
  <2>3. CASE loop.startup \in Known
    <3>1. PICK n \in Known : n = loop.startup
      BY <2>3
    <3>2. /\ applied_ppd' = Book[n].ppd /\ pending_ppd' = pending_ppd
          /\ poll' = [pc |-> "axis", name |-> n, then |-> "source"]
      BY <1>3, <3>1 DEF PollStartup, Mark, Apply
    <3>3. past'.chosen = past.chosen /\ past'.overlap = CallBusy
      BY <1>3, <2>3 DEF PollStartup, Beginning, Base, PastShape
    <3>4. n # None
      BY ProfileAssumption
    <3>5. CallApplying' = CallApplying /\ ChoiceMade' = ChoiceMade
      BY <1>0, <3>3 DEF CallApplying, ChoiceMade
    <3>6. ChoiceMade => Reapplied' /\ Quietly'
      BY <1>0, <2>1, <3>1, <3>2, <3>3, <3>4
      DEF ChoiceInv, Standing, Reapplied, Asking, Quietly
    <3>7. ChoiceMade => OnFile' /\ ~CallApplying
      BY <1>0, <3>3 DEF ChoiceInv, Standing, OnFile
    <3> QED BY <1>0, <1>b, <3>3, <3>5, <3>6, <3>7 DEF ChoiceInv, Standing
  <2> QED BY <2>2, <2>3
<1>4. CASE PollSource
  <2>1. loop'.startup = loop.startup /\ loop'.override = loop.override
        /\ loop'.last_on_ac = on_ac
    BY <1>4 DEF PollSource, Base, LoopShape
  <2>2. CASE ~(SourceChanged(loop.last_on_ac, on_ac) /\ AutoProfile \in Known)
    BY <1>1, <1>4, <2>1, <2>2 DEF PollSource
  <2>3. CASE SourceChanged(loop.last_on_ac, on_ac) /\ AutoProfile \in Known
    <3>1. past'.chosen = past.chosen /\ past'.overlap = CallBusy
      BY <1>4, <2>3 DEF PollSource, Beginning, Base, PastShape
    <3>2. ~ChoiceMade
      BY <2>3 DEF SourceChanged, ChoiceInv, Standing, Reapplied
    <3> QED BY <1>0, <1>b, <3>1, <3>2 DEF ChoiceInv, ChoiceMade, CallApplying
  <2> QED BY <2>2, <2>3
<1>5. CASE PollSlider
  <2>1. /\ pending_ppd' = 0 /\ applied_ppd' = IF pending_ppd = 0 THEN applied_ppd ELSE 0
        /\ loop'.last_on_ac = loop.last_on_ac /\ loop'.startup = loop.startup
        /\ loop'.override = loop.override
    BY <1>5 DEF PollSlider, Base, LoopShape
  <2>2. CASE pending_ppd = 0
    <3>1. Goto("enforce") /\ UNCHANGED past
      BY <1>5, <2>2 DEF PollSlider
    <3> QED BY <1>1, <2>1, <2>2, <3>1
  <2>3. CASE pending_ppd # 0 /\ applied_ppd # pending_ppd
    <3>1. past'.overlap = CallBusy /\ past'.chosen = past.chosen
      BY <1>5, <2>3 DEF PollSlider, Base, PastShape
    <3>2. ~ChoiceMade
      BY <2>3 DEF ChoiceInv, Standing, Quietly
    <3> QED BY <1>0, <1>b, <3>1, <3>2 DEF ChoiceInv, ChoiceMade, CallApplying
  <2>4. CASE pending_ppd # 0 /\ applied_ppd = pending_ppd
    <3>1. Goto("enforce") /\ past' = [past EXCEPT !.raced = changed \/ InAxis]
      BY <1>5, <2>4 DEF PollSlider
    <3>2. /\ past'.chosen = past.chosen /\ past'.overlap = past.overlap
          /\ past'.raced = (changed \/ InAxis)
      BY <3>1 DEF Base, PastShape
    <3>3. CallApplying /\ ~past'.raced => Asking(call.name, call.pc)'
      BY <1>0, <2>1, <3>2 DEF Asking, Quietly, InAxis
    <3>4. ChoiceMade => ~changed /\ Quietly'
      BY <1>0, <2>1, <2>4 DEF ChoiceInv, Standing, Quietly
    <3> QED BY <1>0, <1>g, <2>1, <3>1, <3>2, <3>3, <3>4, ChoiceLeft
  <2> QED BY <2>2, <2>3, <2>4
<1> QED BY <1>2, <1>3, <1>4, <1>5

\* The rest of it: the same profile, the same limit on top.
LEMMA ChoicePollApplies ==
  ASSUME Base, WholeInv, ChoiceInv,
         PollAxis \/ PollPl1 \/ PollCurve \/ PollRecord \/ PollEnforce \/ PollAssert
  PROVE  ChoiceInv'
<1>0. /\ daemon = "up" /\ daemon' = "up"
      /\ UNCHANGED <<pending_ppd, applied_ppd, call, on_ac>>
  BY DeadCall DEF PollAxis, PollPl1, PollCurve, PollRecord, PollEnforce, PollAssert
<1>1. CallApplying => CallBusy
  BY AtWork
<1>2. CASE Failing /\ Goto(poll.then) /\ UNCHANGED <<settings, saved>>
           /\ poll.pc \in Applying
  <2>1. past'.chosen = NoChoice /\ past'.overlap = past.overlap
    BY <1>2, FailingParts DEF Base
  <2>2. CallApplying => past.overlap
    BY <1>0, <1>1, <1>2, AtWork DEF WholeInv
  <2> QED BY <1>0, <1>2, <2>1, <2>2 DEF ChoiceInv, ChoiceMade, CallApplying
<1>3. CASE /\ PollAxis \/ PollPl1 \/ PollCurve
           /\ UNCHANGED past /\ poll' = [poll EXCEPT !.pc = poll'.pc]
           /\ poll'.pc \in Applying \ {"axis"}
           /\ (PollAxis /\ AxisSet(poll.name)) \/ UNCHANGED <<ppd, changed>>
  <2>1. /\ UNCHANGED <<settings, saved, loop>> /\ poll'.name = poll.name
        /\ poll'.then = poll.then /\ PollApplying /\ PollApplying' = PollApplying
    BY <1>3, AtWork DEF PollAxis, PollPl1, PollCurve, Base, PollShape, PollApplying, Applying
  <2>2. CallApplying => past.overlap
    BY <1>0, <1>1, <2>1 DEF WholeInv
  <2>3. Asking(poll.name, poll.pc) => Quietly'
    <3>1. CASE UNCHANGED <<ppd, changed>>
      BY <1>0, <3>1 DEF Asking, Quietly
    <3>2. CASE PollAxis /\ AxisSet(poll.name)
      BY <1>0, <3>2 DEF Asking, Quietly, AxisSet, PollAxis
    <3> QED BY <1>3, <3>1, <3>2
  <2>4. Asking(poll.name, poll.pc) => Asking(poll.name, poll.pc)'
    BY <1>3, <2>3 DEF Asking
  <2>5. ChoiceMade => OnFile'
    BY <1>3, <2>1 DEF ChoiceInv, Standing, OnFile
  <2>6. ChoiceMade => Reapplied' /\ Quietly' /\ ~CallApplying
    BY <1>0, <1>3, <2>1, <2>3, <2>4 DEF ChoiceInv, Standing, Reapplied
  <2> QED BY <1>0, <1>3, <2>1, <2>2, <2>5, <2>6
          DEF ChoiceInv, ChoiceMade, Standing, CallApplying
<1>4. CASE PollRecord
  <2>1. /\ poll.pc = "record" /\ Goto(poll.then) /\ UNCHANGED <<ppd, changed, loop>>
    BY <1>4 DEF PollRecord
  <2>2. \/ past' = [past EXCEPT !.parted = past.overlap]
        \/ past' = [past EXCEPT !.parted = past.overlap, !.chosen = NoChoice]
    BY <1>4 DEF PollRecord
  <2>a. past'.overlap = past.overlap /\ past'.chosen \in {past.chosen, NoChoice}
    BY <2>2 DEF Base, PastShape
  <2>b. settings' = saved'
    BY <1>4 DEF PollRecord, Save
  <2>5. PollApplying /\ ~PollApplying'
    BY <2>1, AtWork DEF PollApplying, Goto, IdlePoll, Applying
  <2>6. CallApplying => past.overlap
    BY <1>0, <1>1, <2>5 DEF WholeInv
  <2>7. CASE past'.chosen = NoChoice
    BY <1>0, <2>1, <2>6, <2>7, <2>a, <2>b DEF ChoiceInv, ChoiceMade, CallApplying
  <2>8. CASE past'.chosen # NoChoice
    <3>1. past' = [past EXCEPT !.parted = past.overlap] /\ past'.chosen = past.chosen
      BY <2>2, <2>8 DEF Base, PastShape
    <3>2. PICK w : /\ w = (IF Writable(Override) THEN Override ELSE Book[poll.name].watts)
                   /\ settings' = [settings EXCEPT !["profile"] = poll.name,
                                                   !["power_limit"] = w]
                   /\ saved' = settings'
      <4>1. past' # [past EXCEPT !.parted = past.overlap, !.chosen = NoChoice]
        BY <2>8 DEF Base, PastShape
      <4> QED BY <1>4, <4>1 DEF PollRecord, Save
    <3>3. saved'["profile"] = poll.name /\ saved'["power_limit"] = w
      BY <3>2, FieldNames DEF Base, Kept
    <3>4. ChoiceMade => w = past.chosen.watts /\ poll.name = past.chosen.name
      <4>1. ASSUME ChoiceMade
            PROVE  /\ poll.then = "source" /\ loop.override = past.chosen.watts
                   /\ poll.name = past.chosen.name
                   /\ past.chosen.watts \in Nat /\ Writable(past.chosen.watts)
        BY <2>5, <4>1 DEF ChoiceInv, Standing, OnFile, Reapplied
      <4> QED BY <3>2, <4>1, ProfileAssumption DEF Override
    <3>5. ChoiceMade => OnFile'
      BY <3>1, <3>3, <3>4 DEF ChoiceInv, Standing, OnFile
    <3>6. ChoiceMade => Reapplied' /\ Quietly' /\ ~CallApplying
      BY <1>0, <2>1, <3>1, <2>5 DEF ChoiceInv, Standing, Reapplied, Quietly
    <3> QED BY <1>0, <2>1, <3>1, <2>a, <2>b, <2>6, <3>5, <3>6
            DEF ChoiceInv, ChoiceMade, Standing, CallApplying
  <2> QED BY <2>7, <2>8
<1>5. CASE PollEnforce \/ PollAssert
  <2>1. PICK pc : Goto(pc)
    BY <1>5 DEF PollEnforce, PollAssert
  <2>2. ~PollApplying'
    BY <2>1 DEF Goto, PollApplying, IdlePoll
  <2>3. UNCHANGED <<ppd, changed, settings, saved, past>>
    BY <1>5 DEF PollEnforce, PollAssert
  <2>4. /\ loop'.last_on_ac = loop.last_on_ac /\ loop'.startup = loop.startup
        /\ loop'.override = loop.override
    BY <1>5 DEF PollEnforce, PollAssert, Base, LoopShape
  <2>5. Asking(call.name, call.pc) => Asking(call.name, call.pc)'
    BY <1>0, <2>3 DEF Asking, Quietly
  <2>6. ChoiceMade => /\ Quietly'
                      /\ loop'.startup # None => ~changed' /\ pending_ppd' = 0
    BY <1>0, <2>3, <2>4 DEF ChoiceInv, Standing, Reapplied, Quietly
  <2> QED BY <1>0, <2>2, <2>3, <2>4, <2>5, <2>6, ChoiceLeft DEF ChoiceInv
<1>6. CASE PollAxis
  <2>1. \/ Failing /\ Goto(poll.then)
        \/ AxisSet(poll.name) /\ poll' = [poll EXCEPT !.pc = "pl1"] /\ UNCHANGED past
    BY <1>6 DEF PollAxis
  <2>2. UNCHANGED <<settings, saved>> /\ poll.pc \in Applying
    BY <1>6 DEF PollAxis, Applying
  <2>3. poll' = [poll EXCEPT !.pc = "pl1"] => poll'.pc = "pl1"
    BY DEF Base, PollShape
  <2> QED BY <1>2, <1>3, <1>6, <2>1, <2>2, <2>3 DEF Applying
<1>7. CASE PollPl1
  <2>1. \/ Failing /\ Goto(poll.then)
        \/ poll' = [poll EXCEPT !.pc = "curve"] /\ UNCHANGED past
    BY <1>7 DEF PollPl1
  <2>2. UNCHANGED <<settings, saved, ppd, changed>> /\ poll.pc \in Applying
    BY <1>7 DEF PollPl1, Applying
  <2>3. poll' = [poll EXCEPT !.pc = "curve"] => poll'.pc = "curve"
    BY DEF Base, PollShape
  <2> QED BY <1>2, <1>3, <1>7, <2>1, <2>2, <2>3 DEF Applying
<1>8. CASE PollCurve
  <2>1. \/ Failing /\ Goto(poll.then)
        \/ poll' = [poll EXCEPT !.pc = "record"] /\ UNCHANGED past
    BY <1>8 DEF PollCurve
  <2>2. UNCHANGED <<settings, saved, ppd, changed>> /\ poll.pc \in Applying
    BY <1>8 DEF PollCurve, Applying
  <2>3. poll' = [poll EXCEPT !.pc = "record"] => poll'.pc = "record"
    BY DEF Base, PollShape
  <2> QED BY <1>2, <1>3, <1>8, <2>1, <2>2, <2>3 DEF Applying
<1> QED BY <1>4, <1>5, <1>6, <1>7, <1>8

ChoiceInduction == BaseWhole /\ ChoiceInv

\* Every step keeps it.
LEMMA ChoiceStep == ChoiceInduction /\ [ProfileNext]_profileVars => ChoiceInduction'
<1>1. ASSUME ChoiceInduction, UNCHANGED profileVars PROVE ChoiceInv'
  BY <1>1, ChoiceFrame DEF profileVars, ChoiceInduction
<1>2. ASSUME ChoiceInduction, ProfileNext PROVE ChoiceInv'
  BY <1>2, ChoiceWorld, ChoiceCalls, ChoiceCallStep, ChoicePollChooses, ChoicePollApplies
  DEF ChoiceInduction, BaseWhole, ProfileNext, PollStep
<1> QED BY <1>1, <1>2, WholeStep DEF ChoiceInduction

\* What a client chose last, a profile or watts on top of one, is still what is recorded
\* whenever the daemon is at rest, until the desktop or a cable moved, a step failed or the
\* file was cut: the daemon does not follow its own echo (applied_ppd, PollSlider), a start
\* re-applies the choice with the hand-set limit on top (State::load, poll_loop's
\* persisted profile), and a start on another source is no change of source.
THEOREM ChoiceStaysSafe == ProfileSpec => []ChoiceStays
<1>1. ProfileInit => ChoiceInduction
  <2> SUFFICES ASSUME ProfileInit PROVE ChoiceInduction
    OBVIOUS
  <2>1. daemon = "off" /\ past.chosen = NoChoice /\ call = IdleCall
    BY DEF ProfileInit, NoHistory
  <2>2. ~CallApplying /\ ~ChoiceMade
    BY <2>1 DEF CallApplying, ChoiceMade, IdleCall, Applying
  <2> QED BY <2>1, <2>2, BaseInit DEF ChoiceInduction, BaseWhole, WholeInv, ChoiceInv
<1>2. ChoiceInduction /\ [ProfileNext]_profileVars => ChoiceInduction'
  BY ChoiceStep
<1>3. ChoiceInduction => ChoiceStays
  BY DEF ChoiceInduction, ChoiceInv, ChoiceMade, Standing, OnFile, ChoiceStays, AtRest
<1> QED BY <1>1, <1>2, <1>3, PTL DEF ProfileSpec
-----------------------------------------------------------------------------
(* The limit is somebody's *)

Budgets == {Book[n].watts : n \in Known}

\* What LimitIsChosen allows in the register, firmware's own values apart.
Chosen == Watts \cup Budgets \cup {s["power_limit"] : s \in InitialState}

\* What a record of a chosen limit may read as: a number, and one that the register
\* would take only if it was chosen.  A cut number is below MIN_WATTS.
Recorded(v) == v = None \/ (v \in Nat /\ v < 80 /\ (Writable(v) => v \in Chosen))

\* A record of the settings.
Sound(s) ==
  /\ s = [f \in DOMAIN s |-> s[f]] /\ "power_limit" \in DOMAIN s
  /\ Recorded(s["power_limit"])

\* The zone's maximum is a number of one digit before the last, and what is in the file
\* at first is a number, as load() parses it.
Narrow ==
  /\ MAX_WATTS \in Nat /\ MAX_WATTS < 80
  /\ \A s \in InitialState : Sound(s)

LoopOK(l) ==
  /\ l = [startup |-> l.startup, override |-> l.override, last_on_ac |-> l.last_on_ac,
          corrections |-> l.corrections, desired |-> l.desired]
  /\ Recorded(l.override) /\ Recorded(l.desired)

\* A call that has written the register is about to record what it wrote.
CallOK(c) ==
  /\ c = [pc |-> c.pc, name |-> c.name, watts |-> c.watts]
  /\ c.pc \in {"axis", "pl1", "curve", "record", "limit"} => c.watts \in Watts \cup Budgets
  /\ c.pc \in {"curve", "record", "limit"} => Writable(c.watts)

PollOK(p) ==
  /\ p = [pc |-> p.pc, name |-> p.name, then |-> p.then]
  /\ p.pc \in {"axis", "pl1", "curve", "record"} => p.name \in Known
  /\ p.pc \in {"curve", "record"} => Writable(Book[p.name].watts)
  /\ p.then \notin {"axis", "pl1", "curve", "record", "assert"}

\* A correction corrects something.
Correcting == poll.pc = "assert" => loop.desired # None

\* LimitIsChosen holds because what is recorded is chosen too, in memory, in the file, in
\* the poll loop's copies and on its way there.
LimitInv ==
  /\ Sound(settings) /\ Sound(saved)
  /\ LoopOK(loop) /\ CallOK(call) /\ PollOK(poll)
  /\ LimitIsChosen
-----------------------------------------------------------------------------
(* The file *)

\* A number cut short is below MIN_WATTS.
LEMMA CutIsRecorded ==
  ASSUME NEW v, Recorded(v), NEW w \in CutNumber(v) PROVE Recorded(w)
<1>1. CASE w = None
  BY <1>1 DEF Recorded
<1>2. CASE w # None
  <2>1. v # None /\ w \in {d \in {v \div 10, v \div 100} : d > 0}
    BY <1>2 DEF CutNumber
  <2>2. v \in Nat /\ v < 80
    BY <2>1 DEF Recorded
  <2>3. w \in Nat /\ w < 8
    BY <2>1, <2>2
  <2> QED BY <2>3 DEF Recorded, Writable, MIN_WATTS
<1> QED BY <1>1, <1>2

\* Whatever a start finds of sound settings is sound.
LEMMA LoadableIsSound ==
  ASSUME NEW s, Sound(s), NEW r \in Loadable(s) PROVE Sound(r)
<1>1. CASE r = s
  BY <1>1
<1>2. CASE r # s
  <2>1. PICK n \in 1..5 : r \in TornAt(s, n)
    BY <1>2 DEF Loadable
  <2>2. PICK v \in Cut(Fields[n], s[Fields[n]]) :
          r = [f \in DOMAIN s |-> IF f = Fields[n] THEN v
                                  ELSE IF \E i \in 1..(n - 1) : f = Fields[i]
                                       THEN s[f] ELSE None]
    BY <2>1 DEF TornAt
  <2>3. "power_limit" \in DOMAIN s
    BY DEF Sound
  <2>4. /\ r = [f \in DOMAIN r |-> r[f]] /\ "power_limit" \in DOMAIN r
        /\ r["power_limit"] = IF "power_limit" = Fields[n] THEN v
                              ELSE IF \E i \in 1..(n - 1) : "power_limit" = Fields[i]
                                   THEN s["power_limit"] ELSE None
    BY <2>2, <2>3
  <2>5. CASE "power_limit" = Fields[n]
    <3>1. v \in CutNumber(s["power_limit"])
      BY <2>2, <2>5 DEF Cut, Numbers
    <3> QED BY <2>4, <2>5, <3>1, CutIsRecorded DEF Sound
  <2>6. CASE "power_limit" # Fields[n]
    BY <2>4, <2>6 DEF Sound, Recorded
  <2> QED BY <2>5, <2>6
<1> QED BY <1>1, <1>2

LEMMA FreshIsSound == Sound(DefaultState)
<1>1. "power_limit" \in {Fields[i] : i \in 1..5}
  <2>1. Fields[2] = "power_limit"
    BY DEF Fields
  <2> QED BY <2>1
<1> QED BY <1>1 DEF Sound, DefaultState, Recorded

LEMMA FreshIsOK ==
  ASSUME NEW s, Sound(s)
  PROVE  LoopOK(FreshLoop(s)) /\ CallOK(IdleCall) /\ PollOK(IdlePoll)
<1>1. LoopOK(FreshLoop(s))
  BY DEF LoopOK, FreshLoop, Sound, Recorded
<1>2. CallOK(IdleCall) /\ PollOK(IdlePoll)
  BY DEF CallOK, PollOK, IdleCall, IdlePoll
<1> QED BY <1>1, <1>2

\* A limit that was recorded may be written again.
LEMMA ReassertedChosen ==
  ASSUME LimitIsChosen, NEW w, Recorded(w), pl1' \in Reasserted(w)
  PROVE  LimitIsChosen'
<1>1. pl1' = pl1 \/ pl1' \in Chosen
  BY DEF Reasserted, Recorded
<1> QED BY <1>1 DEF LimitIsChosen, Chosen, Budgets

LEMMA ChosenWritten ==
  ASSUME LimitIsChosen, pl1' = pl1 \/ pl1' \in Chosen PROVE LimitIsChosen'
  BY DEF LimitIsChosen, Chosen, Budgets

\* What a client or a profile asked for, once the register took it, may be recorded.
LEMMA WrittenIsRecorded ==
  ASSUME Narrow, NEW w \in Watts \cup Budgets, Writable(w)
  PROVE  Recorded(w)
<1>1. w \in Nat
  BY ProfileAssumption DEF Narrow, Budgets
<1>2. w < 80
  BY <1>1 DEF Narrow, Writable
<1> QED BY <1>1, <1>2 DEF Recorded, Chosen

\* A save of a recordable limit.
LEMMA SavedIsSound ==
  ASSUME Sound(settings), NEW n, NEW w, Recorded(w),
         Save([settings EXCEPT !["profile"] = n, !["power_limit"] = w])
  PROVE  Sound(settings') /\ Sound(saved')
  BY DEF Save, Sound
-----------------------------------------------------------------------------
(* The steps *)

LEMMA CorrectingStep == ASSUME Base, LimitInv, Correcting, ProfileNext PROVE Correcting'
<1>1. CASE StartProfiles
  BY <1>1 DEF StartProfiles, Base, Dead, IdlePoll, Correcting
<1>2. CASE CrashProfiles
  BY <1>2 DEF CrashProfiles, IdlePoll, Correcting
<1>3. CASE \/ Slide \/ FirmwareRewrites \/ PowerSource \/ Watch \/ CallStep
           \/ \E n \in Known : CallSetProfile(n)
           \/ \E w \in Watts : CallSetLimit(w)
           \/ \E pair \in AutoChoices : CallSetAuto(pair)
  BY <1>3 DEF Slide, FirmwareRewrites, PowerSource, Watch, CallStep, CallAxis, CallPl1,
     CallCurve, CallRecord, CallRecordLimit, CallSetProfile, CallSetLimit, CallSetAuto,
     Correcting
<1>4. ASSUME NEW q, q # "assert", Goto(q) PROVE Correcting'
  BY <1>4 DEF Goto, IdlePoll, Correcting
<1>5. CASE PollResume \/ PollStartup \/ PollSource \/ PollSlider \/ PollAssert
  BY <1>4, <1>5 DEF PollResume, PollStartup, PollSource, PollSlider, PollAssert, Apply,
     Correcting
<1>6. CASE PollAxis \/ PollPl1 \/ PollCurve \/ PollRecord
  <2>1. \/ Goto(poll.then) \/ poll' = [poll EXCEPT !.pc = "pl1"]
        \/ poll' = [poll EXCEPT !.pc = "curve"] \/ poll' = [poll EXCEPT !.pc = "record"]
    BY <1>6 DEF PollAxis, PollPl1, PollCurve, PollRecord
  <2> QED BY <1>4, <2>1 DEF LimitInv, PollOK, Correcting
<1>7. CASE PollEnforce
  BY <1>4, <1>7 DEF PollEnforce, Base, LoopShape, Correcting
<1> QED BY <1>1, <1>2, <1>3, <1>5, <1>6, <1>7 DEF ProfileNext, PollStep

LEMMA LimitInit == ASSUME Narrow, ProfileInit PROVE LimitInv
<1>1. Sound(settings) /\ Sound(saved)
  BY FreshIsSound DEF ProfileInit, Narrow
<1>2. LoopOK(loop) /\ CallOK(call) /\ PollOK(poll)
  BY FreshIsSound, FreshIsOK DEF ProfileInit
<1>3. LimitIsChosen
  BY DEF ProfileInit, LimitIsChosen
<1> QED BY <1>1, <1>2, <1>3 DEF LimitInv

\* The daemon starts and dies, and the world moves.
LEMMA WorldStep ==
  ASSUME Narrow, LimitInv,
         StartProfiles \/ CrashProfiles \/ Slide \/ FirmwareRewrites \/ PowerSource \/ Watch
  PROVE  LimitInv'
<1>1. CASE StartProfiles
  <2>1. settings' = saved /\ saved' = saved /\ Sound(saved)
    BY <1>1 DEF StartProfiles, LimitInv
  <2>2. loop' = FreshLoop(saved) /\ UNCHANGED <<call, poll>>
    BY <1>1 DEF StartProfiles
  <2>3. LoopOK(loop')
    BY <2>1, <2>2, FreshIsOK
  <2>4. pl1' \in Reasserted(saved["power_limit"])
    BY <1>1 DEF StartProfiles
  <2>5. LimitIsChosen'
    BY <2>1, <2>4, ReassertedChosen DEF LimitInv, Sound
  <2> QED BY <2>1, <2>2, <2>3, <2>5 DEF LimitInv
<1>2. CASE CrashProfiles
  <2>1. Sound(saved')
    BY <1>2, LoadableIsSound DEF CrashProfiles, LimitInv
  <2>2. /\ settings' = DefaultState /\ loop' = FreshLoop(DefaultState)
        /\ call' = IdleCall /\ poll' = IdlePoll /\ UNCHANGED pl1
    BY <1>2 DEF CrashProfiles
  <2>3. Sound(settings') /\ LoopOK(loop') /\ CallOK(call') /\ PollOK(poll')
    BY <2>2, FreshIsSound, FreshIsOK
  <2> QED BY <2>1, <2>2, <2>3, ChosenWritten DEF LimitInv
<1>3. CASE FirmwareRewrites
  <2>1. pl1' \in FirmwareWatts /\ UNCHANGED <<settings, saved, loop, call, poll>>
    BY <1>3 DEF FirmwareRewrites
  <2> QED BY <2>1 DEF LimitInv, LimitIsChosen
<1>4. CASE Slide \/ PowerSource \/ Watch
  <2>1. UNCHANGED <<settings, saved, loop, call, poll, pl1>>
    BY <1>4 DEF Slide, PowerSource, Watch
  <2> QED BY <2>1, ChosenWritten DEF LimitInv
<1> QED BY <1>1, <1>2, <1>3, <1>4

\* Calls.
LEMMA CallStepInv ==
  ASSUME Narrow, LimitInv,
         \/ CallStep
         \/ \E n \in Known : CallSetProfile(n)
         \/ \E w \in Watts : CallSetLimit(w)
         \/ \E pair \in AutoChoices : CallSetAuto(pair)
  PROVE  LimitInv'
<1>1. ASSUME UNCHANGED <<settings, saved, loop, poll>>, CallOK(call'),
             pl1' = pl1 \/ pl1' \in Chosen
      PROVE  LimitInv'
  BY <1>1, ChosenWritten DEF LimitInv
<1>2. ASSUME NEW n \in Known, CallSetProfile(n) PROVE LimitInv'
  <2>1. call' = [pc |-> "axis", name |-> n, watts |-> Book[n].watts]
    BY <1>2 DEF CallSetProfile
  <2>2. CallOK(call')
    BY <2>1 DEF CallOK, Budgets
  <2> QED BY <1>1, <1>2, <2>2 DEF CallSetProfile
<1>3. ASSUME NEW w \in Watts, CallSetLimit(w) PROVE LimitInv'
  <2>1. /\ Writable(w) /\ pl1' = w
        /\ call' = [pc |-> "limit", name |-> None, watts |-> w] \/ call' = call
    BY <1>3 DEF CallSetLimit, SetRegister
  <2>2. CallOK(call')
    BY <2>1 DEF CallOK, LimitInv
  <2> QED BY <1>1, <1>3, <2>1, <2>2 DEF CallSetLimit, Chosen
<1>4. ASSUME NEW pair \in AutoChoices, CallSetAuto(pair) PROVE LimitInv'
  <2>1. /\ settings' = [settings EXCEPT !["profile_on_ac"] = pair[1],
                                        !["profile_on_battery"] = pair[2]]
        /\ saved' = settings'
    BY <1>4 DEF CallSetAuto, Save
  <2>2. Sound(settings') /\ Sound(saved')
    BY <2>1 DEF Sound, LimitInv
  <2>3. UNCHANGED <<loop, poll, call, pl1>>
    BY <1>4 DEF CallSetAuto
  <2> QED BY <2>2, <2>3, ChosenWritten DEF LimitInv
<1>5. CASE CallAxis \/ CallPl1 \/ CallCurve
  <2>1. CallOK(call) /\ call.pc \in {"axis", "pl1", "curve"}
    BY <1>5 DEF LimitInv, CallAxis, CallPl1, CallCurve
  <2>2. CASE call' = IdleCall /\ (UNCHANGED pl1 \/ (CallPl1 /\ SetFails(call.watts)))
    <3>1. CallOK(call')
      BY <2>2 DEF CallOK, IdleCall
    <3>2. pl1' = pl1 \/ pl1' \in Chosen
      BY <2>1, <2>2 DEF CallPl1, SetFails, SetRegister, CallOK, Chosen
    <3> QED BY <1>1, <1>5, <3>1, <3>2 DEF CallAxis, CallPl1, CallCurve
  <2>3. CASE CallAxis /\ call' = [call EXCEPT !.pc = "pl1"]
    <3>1. CallOK(call')
      BY <2>1, <2>3 DEF CallOK
    <3> QED BY <1>1, <2>3, <3>1 DEF CallAxis
  <2>4. CASE CallPl1 /\ SetRegister(call.watts) /\ call' = [call EXCEPT !.pc = "curve"]
    <3>1. CallOK(call') /\ pl1' = call.watts /\ call.watts \in Watts \cup Budgets
      BY <2>1, <2>4 DEF CallOK, SetRegister
    <3> QED BY <1>1, <2>4, <3>1 DEF CallPl1, Chosen
  <2>5. CASE CallCurve /\ call' = [call EXCEPT !.pc = "record"]
    <3>1. CallOK(call')
      BY <2>1, <2>5 DEF CallOK, CallCurve
    <3> QED BY <1>1, <2>5, <3>1 DEF CallCurve
  <2> QED BY <1>5, <2>2, <2>3, <2>4, <2>5 DEF CallAxis, CallPl1, CallCurve
<1>6. CASE CallRecord \/ CallRecordLimit
  <2>1. call.watts \in Watts \cup Budgets /\ Writable(call.watts)
    BY <1>6 DEF LimitInv, CallOK, CallRecord, CallRecordLimit
  <2>2. Recorded(call.watts)
    BY <2>1, WrittenIsRecorded
  <2>3. \/ Save([settings EXCEPT !["profile"] = call.name, !["power_limit"] = call.watts])
        \/ Save([settings EXCEPT !["power_limit"] = call.watts])
    BY <1>6 DEF CallRecord, CallRecordLimit
  <2>4. Sound(settings') /\ Sound(saved')
    BY <2>2, <2>3 DEF Save, Sound, LimitInv
  <2>5. call' = IdleCall /\ UNCHANGED <<loop, poll, pl1>>
    BY <1>6 DEF CallRecord, CallRecordLimit
  <2>6. CallOK(call')
    BY <2>5 DEF CallOK, IdleCall
  <2> QED BY <2>4, <2>5, <2>6, ChosenWritten DEF LimitInv
<1> QED BY <1>2, <1>3, <1>4, <1>5, <1>6 DEF CallStep

\* The tick up to the application of a profile: it begins only what is known.
LEMMA PollChooses ==
  ASSUME Narrow, LimitInv, Base, PollResume \/ PollStartup \/ PollSource \/ PollSlider
  PROVE  LimitInv'
<1>1. ASSUME UNCHANGED <<settings, saved, call>>, LoopOK(loop'), PollOK(poll'), LimitIsChosen'
      PROVE  LimitInv'
  BY <1>1 DEF LimitInv
<1>g. ASSUME NEW p \in {"source", "startup", "slider", "enforce"}, Goto(p)
      PROVE  PollOK(poll')
  BY <1>g DEF Goto, IdlePoll, PollOK
<1>a. ASSUME NEW n \in Known, NEW p \in {"axis", "pl1"},
             NEW t \in {"source", "slider", "enforce"}, Apply(n, p, t)
      PROVE  PollOK(poll')
  BY <1>a DEF Apply, PollOK
<1>2. CASE PollResume
  <2>1. PollOK(poll')
    BY <1>2, <1>g DEF PollResume
  <2>2. LimitIsChosen'
    <3>1. pl1' = pl1 \/ pl1' \in Reasserted(settings["power_limit"])
      BY <1>2 DEF PollResume
    <3> QED BY <3>1, ReassertedChosen, ChosenWritten DEF LimitInv, Sound
  <2> QED BY <1>1, <1>2, <2>1, <2>2 DEF PollResume, LimitInv
<1>3. CASE PollStartup
  <2>1. PollOK(poll')
    BY <1>3, <1>g, <1>a DEF PollStartup
  <2>2. LoopOK(loop')
    BY <1>3 DEF PollStartup, LoopOK, LimitInv
  <2> QED BY <1>1, <1>3, <2>1, <2>2, ChosenWritten DEF PollStartup, LimitInv
<1>4. CASE PollSource
  <2>1. PollOK(poll')
    BY <1>4, <1>g, <1>a DEF PollSource
  <2>2. LoopOK(loop')
    BY <1>4 DEF PollSource, LoopOK, LimitInv
  <2> QED BY <1>1, <1>4, <2>1, <2>2, ChosenWritten DEF PollSource, LimitInv
<1>5. CASE PollSlider
  <2>1. LoopOK(loop')
    BY <1>5 DEF PollSlider, LoopOK, LimitInv
  <2>2. \/ Goto("enforce")
        \/ Apply(Canonical[pending_ppd], "pl1", "enforce") /\ pending_ppd # 0
    BY <1>5 DEF PollSlider
  <2>3. CASE Goto("enforce")
    BY <2>3, <1>g, <1>1, <1>5, <2>1, ChosenWritten DEF PollSlider, LimitInv
  <2>4. CASE Apply(Canonical[pending_ppd], "pl1", "enforce") /\ pending_ppd # 0
    <3>1. Canonical[pending_ppd] \in Known
      BY <2>4, ProfileAssumption DEF Base
    <3>2. PollOK(poll')
      BY <2>4, <3>1, <1>a
    <3> QED BY <3>2, <1>1, <1>5, <2>1, ChosenWritten DEF PollSlider, LimitInv
  <2> QED BY <2>2, <2>3, <2>4
<1> QED BY <1>2, <1>3, <1>4, <1>5

\* The rest of it.
LEMMA PollApplies ==
  ASSUME Narrow, LimitInv, Correcting,
         PollAxis \/ PollPl1 \/ PollCurve \/ PollRecord \/ PollEnforce \/ PollAssert
  PROVE  LimitInv'
<1>1. ASSUME UNCHANGED <<settings, saved, loop, call>>, PollOK(poll'),
             pl1' = pl1 \/ pl1' \in Chosen
      PROVE  LimitInv'
  BY <1>1, ChosenWritten DEF LimitInv
<1>p. PollOK(poll)
  BY DEF LimitInv
<1>2. CASE /\ PollAxis \/ PollPl1 \/ PollCurve
           /\ Goto(poll.then)
           /\ UNCHANGED pl1 \/ (PollPl1 /\ SetFails(Book[poll.name].watts))
  <2>1. PollOK(poll')
    BY <1>2, <1>p DEF Goto, IdlePoll, PollOK
  <2>2. pl1' = pl1 \/ pl1' \in Chosen
    BY <1>2, <1>p DEF PollPl1, SetFails, SetRegister, PollOK, Chosen, Budgets
  <2> QED BY <1>1, <1>2, <2>1, <2>2 DEF PollAxis, PollPl1, PollCurve
<1>3. CASE PollAxis /\ poll' = [poll EXCEPT !.pc = "pl1"]
  <2>1. PollOK(poll')
    BY <1>3, <1>p DEF PollOK, PollAxis
  <2> QED BY <1>1, <1>3, <2>1 DEF PollAxis
<1>4. CASE PollPl1 /\ SetRegister(Book[poll.name].watts)
           /\ poll' = [poll EXCEPT !.pc = "curve"]
  <2>1. PollOK(poll') /\ pl1' \in Budgets
    BY <1>4, <1>p DEF PollOK, PollPl1, SetRegister, Budgets
  <2> QED BY <1>1, <1>4, <2>1 DEF PollPl1, Chosen
<1>5. CASE PollCurve /\ poll' = [poll EXCEPT !.pc = "record"]
  <2>1. PollOK(poll')
    BY <1>5, <1>p DEF PollOK, PollCurve
  <2> QED BY <1>1, <1>5, <2>1 DEF PollCurve
<1>6. CASE PollRecord
  <2>1. poll.name \in Known /\ Writable(Book[poll.name].watts)
    BY <1>6, <1>p DEF PollRecord, PollOK
  <2>2. Book[poll.name].watts \in Budgets
    BY <2>1 DEF Budgets
  <2>3. \/ /\ pl1' = pl1 \/ SetRegister(Override)
           /\ Save([settings EXCEPT !["profile"] = poll.name,
                                    !["power_limit"] = Book[poll.name].watts])
        \/ /\ Writable(Override) /\ (pl1' = pl1 \/ SetRegister(Override))
           /\ Save([settings EXCEPT !["profile"] = poll.name, !["power_limit"] = Override])
    BY <1>6 DEF PollRecord, SetFails, SetRegister
  <2>4. Override \in Budgets \/ (Override = loop.override /\ loop.override # None)
    BY <2>2 DEF Override
  <2>5. Writable(Override) => Recorded(Override) /\ Override \in Chosen
    <3>1. CASE Override \in Budgets
      BY <3>1, WrittenIsRecorded DEF Chosen
    <3>2. CASE Override = loop.override /\ loop.override # None
      BY <3>2 DEF LimitInv, LoopOK, Recorded
    <3> QED BY <2>4, <3>1, <3>2
  <2>a. Recorded(Book[poll.name].watts)
    BY <2>1, <2>2, WrittenIsRecorded
  <2>6. Sound(settings') /\ Sound(saved')
    BY <2>3, <2>5, <2>a, SavedIsSound DEF LimitInv
  <2>7. PollOK(poll')
    BY <1>6, <1>p DEF PollRecord, Goto, IdlePoll, PollOK
  <2>8. LimitIsChosen'
    BY <2>3, <2>5, ChosenWritten DEF LimitInv, SetRegister
  <2> QED BY <1>6, <2>6, <2>7, <2>8 DEF PollRecord, LimitInv
<1>7. CASE PollEnforce
  <2>1. LoopOK(loop')
    BY <1>7 DEF PollEnforce, LoopOK, LimitInv, Sound
  <2>2. PollOK(poll')
    BY <1>7 DEF PollEnforce, Goto, IdlePoll, PollOK
  <2> QED BY <1>7, <2>1, <2>2, ChosenWritten DEF PollEnforce, LimitInv
<1>8. CASE PollAssert
  <2>1. LoopOK(loop')
    BY <1>8 DEF PollAssert, LoopOK, LimitInv, Recorded
  <2>2. PollOK(poll')
    BY <1>8 DEF PollAssert, Goto, IdlePoll, PollOK
  <2>3. \/ pl1' = pl1
        \/ pl1' = loop.desired /\ Writable(loop.desired) /\ loop.desired # None
    BY <1>8 DEF PollAssert, Correcting, SetFails, SetRegister
  <2>4. LimitIsChosen'
    <3>1. CASE pl1' = pl1
      BY <3>1, ChosenWritten DEF LimitInv
    <3>2. CASE pl1' # pl1
      <4>1. pl1' \in Chosen
        BY <2>3, <3>2 DEF LimitInv, LoopOK, Recorded
      <4> QED BY <4>1, ChosenWritten DEF LimitInv
    <3> QED BY <3>1, <3>2
  <2> QED BY <1>8, <2>1, <2>2, <2>4 DEF PollAssert, LimitInv
<1> QED BY <1>2, <1>3, <1>4, <1>5, <1>6, <1>7, <1>8 DEF PollAxis, PollPl1, PollCurve

\* The induction.
LimitInduction == Base /\ LimitInv /\ Correcting

LEMMA LimitStep ==
  ASSUME Narrow PROVE LimitInduction /\ [ProfileNext]_profileVars => LimitInduction'
<1>1. ASSUME LimitInduction, UNCHANGED profileVars PROVE LimitInv' /\ Correcting'
  BY <1>1 DEF profileVars, LimitInduction, LimitInv, LimitIsChosen, Correcting
<1>2. ASSUME LimitInduction, ProfileNext PROVE LimitInv' /\ Correcting'
  BY <1>2, WorldStep, CallStepInv, PollChooses, PollApplies, CorrectingStep
  DEF LimitInduction, ProfileNext, PollStep
<1> QED BY <1>1, <1>2, BaseStep DEF LimitInduction

\* No limit is ever written that nobody chose, also after a start from a file cut in the
\* middle of a number, whatever calls, slider, cables and firmware do meanwhile
\* (State::load, PowerLimit::set, apply_profile, enforce_power_limit).
THEOREM LimitIsChosenSafe == ASSUME Narrow PROVE ProfileSpec => []LimitIsChosen
<1>1. ProfileInit => LimitInduction
  <2> SUFFICES ASSUME ProfileInit PROVE LimitInduction
    OBVIOUS
  <2>1. LimitInv
    BY LimitInit
  <2>2. Correcting
    BY DEF ProfileInit, IdlePoll, Correcting
  <2> QED BY <2>1, <2>2, BaseInit DEF LimitInduction
<1>2. LimitInduction /\ [ProfileNext]_profileVars => LimitInduction'
  BY LimitStep
<1>3. LimitInduction => LimitIsChosen
  BY DEF LimitInduction, LimitInv
<1> QED BY <1>1, <1>2, <1>3, PTL DEF ProfileSpec
=============================================================================

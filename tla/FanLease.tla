------------------------------ MODULE FanLease ------------------------------
(***************************************************************************)
(* The daemon's lease on the fan (crates/fw-helperd/src/fan.rs) and every   *)
(* task that uses it: the 1 Hz poll task, D-Bus calls, the logind watcher,  *)
(* the watchdog thread, shutdown, and systemd around the process.           *)
(*                                                                         *)
(* FanLease is a struct of atomics.  No lock covers a hardware operation,   *)
(* the runtime is multi-threaded and D-Bus methods run on an executor of    *)
(* their own, so each lease operation is a sequence of steps of its caller  *)
(* and all callers interleave between any two steps.                        *)
(*                                                                         *)
(* Abstractions.  A thermal sample is a member of Temp, with the floor it   *)
(* puts under the fan (firmware floor and battery guard together) and       *)
(* whether it is past a limit at which the fan belongs to firmware (CPU     *)
(* ceiling or battery guard); the curve engine's output is any member of    *)
(* CurveDuty; a heartbeat is fresh or older than TIMEOUT; adjacent stores   *)
(* to atomics that no other task reads as a pair are one step.  Logging,    *)
(* the `tripped` flag and error texts are left out.                         *)
(***************************************************************************)
EXTENDS FanDuty, Sequences, FiniteSets

CONSTANTS
  Observable,   \* TRUE: pwm1/pwm1_enable in sysfs.  FALSE: raw EC commands.
  Client,       \* D-Bus calls that may be in progress at once
  Temp,         \* usable thermal samples
  Hot,          \* those at or past the CPU ceiling or the battery guard
  NoTemp,       \* a sample without a readable control sensor
  Floor,        \* Floor[t]: the lowest duty permitted at t
  Request,      \* duties asked for by SetFanDuty
  CurveDuty,    \* duties a curve tick may ask for
  MaxCalls,     \* bound: D-Bus calls and profile applications
  MaxFaults,    \* bound: hardware operations that fail
  MaxUpsets     \* bound: suspends, stalls and panics of the poll task, crashes, stops

ASSUME LeaseAssumption ==
  /\ Observable \in BOOLEAN
  /\ Client \cap {"poll", "sleep", "watchdog", "main"} = {}
  /\ Hot \subseteq Temp
  /\ NoTemp \notin Temp
  /\ Floor \in [Temp -> Duty]
  /\ Request \subseteq Duty
  /\ CurveDuty \subseteq Duty
  /\ MaxCalls \in Nat /\ MaxFaults \in Nat /\ MaxUpsets \in Nat

VARIABLES
  hw,        \* the fan: mode, the duty held under manual control, and `at`,
             \* the sample that duty was chosen for (NoTemp: not verified)
  lease,     \* the atomics of FanLease; `belief` is ec_manual
  pc,        \* per task: where it is
  job,       \* per task: the lease operation in progress
  tick,      \* poll task locals: the sample, and restore_fan_after_resume
  latest,    \* the published telemetry a D-Bus call reads
  stale,     \* the heartbeat is older than TIMEOUT
  wedged,    \* the poll task is stuck inside a tick
  resumed,   \* the flag the logind watcher raises for the poll task
  host,      \* power state, the delay lock, undelivered PrepareForSleep
  proc,      \* the process, as systemd sees it
  budget     \* counters behind the Max* bounds

vars == <<hw, lease, pc, job, tick, latest, stale, wedged, resumed, host,
          proc, budget>>

Task == Client \cup {"poll", "sleep", "watchdog", "main"}
Sample == Temp \cup {NoTemp}
Usable == Temp \ Hot

Op == {"none", "duty", "curve", "restore", "enforce", "auto", "release", "panic"}
Label == {"idle", "auth", "ticked", "govern", "observe", "publish",
          "mode", "take", "write", "set", "book", "store",
          "undo", "unmarkUndo", "give", "unmark", "drop", "unlock", "exit",
          "dead"}

NoJob == [op |-> "none", want |-> 0, therm |-> NoTemp, target |-> 0]
Firmware == [mode |-> "auto", duty |-> 0, at |-> NoTemp]
Held(d, t) == [mode |-> "manual", duty |-> d, at |-> t]

FreshLease ==
  [held |-> FALSE, requested |-> 0, applied |-> 0, curve |-> FALSE,
   pending |-> FALSE, restoreDuty |-> 0, belief |-> FALSE]

HwType == [mode: {"auto", "manual"}, duty: Duty, at: Sample]
LeaseType == [held: BOOLEAN, requested: Duty, applied: Duty, curve: BOOLEAN,
              pending: BOOLEAN, restoreDuty: Duty, belief: BOOLEAN]
JobType == [op: Op, want: Duty, therm: Sample, target: Duty]
TickType == [sample: Sample, wake: BOOLEAN]
HostType == [power: {"awake", "preparing", "asleep"}, lock: BOOLEAN,
             signals: Seq({"down", "up"})]
BudgetType == [calls: Nat, faults: Nat, upsets: Nat]

\* Every variable has its type: duties stay bytes through every clamp and
\* quantization, and every task is at a point of its own code.
TypeOK ==
  /\ hw \in HwType
  /\ lease \in LeaseType
  /\ pc \in [Task -> Label]
  /\ job \in [Task -> JobType]
  /\ tick \in TickType
  /\ latest \in Sample
  /\ stale \in BOOLEAN
  /\ wedged \in BOOLEAN
  /\ resumed \in BOOLEAN
  /\ host \in HostType
  /\ proc \in {"up", "failed", "stopped", "restart", "off"}
  /\ budget \in BudgetType

Init ==
  /\ hw = Firmware
  /\ lease = FreshLease
  /\ pc = [a \in Task |-> "idle"]
  /\ job = [a \in Task |-> NoJob]
  /\ tick = [sample |-> NoTemp, wake |-> FALSE]
  /\ latest = NoTemp
  /\ stale = FALSE /\ wedged = FALSE /\ resumed = FALSE
  /\ host = [power |-> "awake", lock |-> TRUE, signals |-> <<>>]
  /\ proc = "up"
  /\ budget = [calls |-> 0, faults |-> 0, upsets |-> 0]

-----------------------------------------------------------------------------
(* Scheduling *)

\* A task runs while the process is up, the machine is awake, and, for the
\* poll task, the tick is not stuck.
Runs(a) ==
  /\ proc = "up"
  /\ host.power # "asleep"
  /\ a = "poll" => ~wedged

Spend(what) == budget' = [budget EXCEPT ![what] = @ + 1]
CanFault == budget.faults < MaxFaults
CanUpset == budget.upsets < MaxUpsets

Goto(a, label) == pc' = [pc EXCEPT ![a] = label]

\* Where a task continues once its lease operation is over.
After(a) ==
  CASE a = "poll" /\ job[a].op = "curve"   -> "ticked"
    [] a = "poll" /\ job[a].op = "restore" -> "govern"
    [] a = "poll" /\ job[a].op = "panic"   -> "dead"
    [] a = "poll" /\ job[a].op \in {"enforce", "release"} -> "publish"
    [] a = "sleep"      -> "unlock"
    [] a = "main"       -> "exit"
    [] OTHER            -> "idle"

Return(a) == Goto(a, After(a)) /\ job' = [job EXCEPT ![a] = NoJob]

Begin(a, o, want, t, target, label) ==
  /\ job' = [job EXCEPT ![a] = [op |-> o, want |-> want, therm |-> t,
                                target |-> target]]
  /\ Goto(a, label)

\* What a step inside a lease operation never touches.
outside == <<tick, latest, stale, wedged, resumed, host, proc>>

-----------------------------------------------------------------------------
(* FanLease::set_duty, also behind set_curve and restore_after_resume:      *)
(* refuse, or clamp to the floor and go on to write.                        *)

\* Mutant: the request goes to the fan as it is.
ClampNothing(want, t) == want

Clamp(want, t) == Higher(want, Floor[t])

\* Mutant: only a missing sensor is a reason to refuse.
RefusedBlind(t) == t = NoTemp

\* NoTemperature, AboveCeiling, BatteryTooHot.
Refused(t) == t \notin Usable

SetDuty(a, o, want, t, refusedLabel) ==
  IF Refused(t)
    THEN Goto(a, refusedLabel) /\ job' = [job EXCEPT ![a] = NoJob]
    ELSE Begin(a, o, want, t, Clamp(want, t), "mode")

-----------------------------------------------------------------------------
(* FanLease::write and the two backends' take_manual / set_duty.            *)

\* FanBackend::mode: the register, or on an EC board what we believe.
ManualMode == IF Observable THEN hw.mode = "manual" ELSE lease.belief

\* Mutant: an error after the mode switch is only returned.
GuardNothing(a) == Goto(a, "idle")

\* FanControl::guarded, EcFan::send_guarded: a write that failed is followed by
\* a release.
Guard(a) == Goto(a, "undo")

\* Mutant: every duty is sent.
SendsAll(d) == TRUE

\* EcFan::send refuses a duty that may not turn the fan; sysfs set_duty does not.
Sends(d) == Observable \/ ~Stalls(d)

\* write: ask for the mode, then set_duty or take_manual.  take_manual refuses
\* a duty that cannot turn the fan before it touches anything; the EC backend
\* records its belief before it sends.
WriteMode(a) ==
  /\ pc[a] = "mode" /\ Runs(a)
  /\ \/ /\ ManualMode
        /\ Goto(a, "set")
        /\ UNCHANGED <<lease, job>>
     \/ /\ ~ManualMode /\ Stalls(job[a].target)
        /\ Return(a)
        /\ UNCHANGED lease
     \/ /\ ~ManualMode /\ ~Stalls(job[a].target)
        /\ Goto(a, IF Observable THEN "take" ELSE "write")
        /\ lease' = [lease EXCEPT !.belief = @ \/ ~Observable]
        /\ UNCHANGED job
  /\ UNCHANGED <<outside, hw, budget>>

\* sysfs take_manual: the pwm1 pre-write is refused while the EC owns the fan,
\* so switching the mode leaves the fan manual at a duty nobody chose.  The
\* switch may fail, or be accepted and have no effect.
TakeMode(a) ==
  /\ pc[a] = "take" /\ Runs(a)
  /\ \/ /\ hw' = IF hw.mode = "manual"
                  THEN Held(Settle(job[a].target), job[a].therm)
                  ELSE Held(0, NoTemp)
        /\ Goto(a, "write")
        /\ UNCHANGED <<job, budget>>
     \/ /\ CanFault /\ Spend("faults")
        /\ Return(a) \/ (Goto(a, "write") /\ UNCHANGED job)
        /\ UNCHANGED hw
  /\ UNCHANGED <<outside, lease>>

\* The duty write of a takeover.  sysfs first checks the mode it asked for and
\* afterwards that the duty reads back; any failure goes on to the guard.
TakeWrite(a) ==
  /\ pc[a] = "write" /\ Runs(a)
  /\ \/ /\ Observable => hw.mode = "manual"
        /\ hw' = Held(Settle(job[a].target), job[a].therm)
        /\ Goto(a, "book")
        /\ UNCHANGED budget
     \/ /\ Observable /\ hw.mode # "manual"
        /\ Guard(a)
        /\ UNCHANGED <<hw, budget>>
     \/ /\ Observable => hw.mode = "manual"
        /\ CanFault /\ Spend("faults")
        /\ hw' \in {hw, Held(Settle(job[a].target), NoTemp)}
        /\ Guard(a)
  /\ UNCHANGED <<outside, lease, job>>

\* set_duty: refused unless the fan is (believed) manual; sysfs refuses the pwm1
\* write itself if the EC gets the fan in between, which goes on to the guard.
\* The EC's duty command takes the fan, and only there is a stalling duty refused.
SetHeld(a) ==
  /\ pc[a] = "set" /\ Runs(a)
  /\ \/ /\ ~ManualMode
        /\ Return(a) \/ (Observable /\ Guard(a) /\ UNCHANGED job)
        /\ UNCHANGED <<hw, budget>>
     \/ /\ ManualMode /\ ~Sends(job[a].target)
        /\ Guard(a)
        /\ UNCHANGED <<hw, job, budget>>
     \/ /\ ManualMode /\ Sends(job[a].target)
        /\ hw' = Held(Settle(job[a].target), job[a].therm)
        /\ Goto(a, "book")
        /\ UNCHANGED <<job, budget>>
     \/ /\ ManualMode /\ Sends(job[a].target)
        /\ CanFault /\ Spend("faults")
        /\ hw' \in {hw, Held(Settle(job[a].target), NoTemp)}
        /\ Guard(a)
        /\ UNCHANGED job
  /\ UNCHANGED <<outside, lease>>

\* write's bookkeeping, after a verified write only.
Book(a) ==
  /\ pc[a] = "book" /\ Runs(a)
  /\ lease' = [lease EXCEPT !.held = TRUE, !.applied = job[a].target]
  /\ IF job[a].op = "enforce"
       THEN Return(a)
       ELSE Goto(a, "store") /\ UNCHANGED job
  /\ UNCHANGED <<outside, hw, budget>>

\* set_duty stores the unclamped request; set_curve then stores the engine.
Store(a) ==
  /\ pc[a] = "store" /\ Runs(a)
  /\ lease' = [lease EXCEPT !.requested = job[a].want,
                            !.curve = @ \/ job[a].op = "curve"]
  /\ Return(a)
  /\ UNCHANGED <<outside, hw, budget>>

-----------------------------------------------------------------------------
(* Releases: `guarded` after a failed write ("undo"), release_now and       *)
(* release ("give").  Only the latter clear `held`, and they do so whether  *)
(* or not the hardware obeyed.                                              *)

\* release_best_effort.  The EC backend forgets its belief in a later step.
ReleaseHw(a) ==
  /\ pc[a] \in {"undo", "give"} /\ Runs(a)
  /\ \/ /\ hw' = Firmware
        /\ \/ ~Observable /\ UNCHANGED job
              /\ Goto(a, IF pc[a] = "give" THEN "unmark" ELSE "unmarkUndo")
           \/ Observable /\ pc[a] = "give" /\ Goto(a, "drop") /\ UNCHANGED job
           \/ Observable /\ pc[a] = "undo" /\ Return(a)
        /\ UNCHANGED budget
     \/ /\ CanFault /\ Spend("faults")
        /\ \/ pc[a] = "give" /\ Goto(a, "drop") /\ UNCHANGED job
           \/ pc[a] = "undo" /\ Return(a)
           \/ job[a].op = "auto" /\ Return(a)   \* release(): control() failed
        /\ UNCHANGED hw
  /\ UNCHANGED <<outside, lease>>

\* EcFan::release, once the EC accepted the command.
Unmark(a) ==
  /\ pc[a] \in {"unmark", "unmarkUndo"} /\ Runs(a)
  /\ lease' = [lease EXCEPT !.belief = FALSE]
  /\ \/ pc[a] = "unmark" /\ Goto(a, "drop") /\ UNCHANGED job
     \/ pc[a] = "unmarkUndo" /\ Return(a)
  /\ UNCHANGED <<outside, hw, budget>>

\* The last store of release_now and of release.
Drop(a) ==
  /\ pc[a] = "drop" /\ Runs(a)
  /\ lease' = [lease EXCEPT !.held = FALSE]
  /\ Return(a)
  /\ UNCHANGED <<outside, hw, budget>>

LeaseStep(a) ==
  \/ WriteMode(a) \/ TakeMode(a) \/ TakeWrite(a) \/ SetHeld(a)
  \/ Book(a) \/ Store(a) \/ ReleaseHw(a) \/ Unmark(a) \/ Drop(a)

-----------------------------------------------------------------------------
(* D-Bus calls (iface.rs).  polkit may keep a call waiting for a password.  *)

\* The check before the prompt.  set_fan_duty and set_fan_curve refuse on a
\* stale heartbeat; set_profile and set_fan_auto do not look at it.
Call(c) ==
  /\ pc[c] = "idle" /\ Runs(c)
  /\ budget.calls < MaxCalls
  /\ \E o \in {"duty", "curve", "auto"}, want \in Request, profile \in BOOLEAN :
       /\ profile => o = "curve"
       /\ o \in {"duty", "curve"} /\ ~profile => ~stale
       /\ Begin(c, o, IF o = "duty" THEN want ELSE 0, NoTemp, 0, "auth")
  /\ Spend("calls")
  /\ UNCHANGED <<outside, hw, lease>>

\* Authorized: set_duty / set_curve on the telemetry published by now, or
\* release(), which first forgets the curve, the request and the restore.
Authorized(c) ==
  /\ pc[c] = "auth" /\ Runs(c)
  /\ \/ /\ job[c].op = "duty"
        /\ SetDuty(c, "duty", job[c].want, latest, "idle")
        /\ UNCHANGED lease
     \/ /\ job[c].op = "curve"
        /\ \E want \in CurveDuty : SetDuty(c, "curve", want, latest, "idle")
        /\ UNCHANGED lease
     \/ /\ job[c].op = "auto"
        /\ lease' = [lease EXCEPT !.curve = FALSE, !.requested = 0,
                                  !.applied = 0, !.pending = FALSE]
        /\ Goto(c, "give")
        /\ UNCHANGED job
  /\ UNCHANGED <<outside, hw, budget>>

Denied(c) ==
  /\ pc[c] = "auth" /\ Runs(c)
  /\ Return(c)
  /\ UNCHANGED <<outside, hw, lease, budget>>

-----------------------------------------------------------------------------
(* The poll task (main.rs poll_loop).                                       *)

\* Mutant: the flag is cleared and the wake not remembered.
WokenBefore == tick.wake

\* restore_fan_after_resume, set when `resumed` is swapped to false.
Woken == tick.wake \/ resumed

\* The heartbeat, the resume flag, the sample.
PollTick ==
  /\ pc["poll"] = "idle" /\ Runs("poll")
  /\ stale' = FALSE
  /\ resumed' = FALSE
  /\ \E t \in Sample : tick' = [sample |-> t, wake |-> Woken]
  /\ Goto("poll", "ticked")
  /\ UNCHANGED <<hw, lease, job, latest, wedged, host, proc,
                 budget>>

\* apply_profile, for the persisted profile, a change of power source or PPD, in
\* so far as it reaches set_curve.
PollProfile ==
  /\ pc["poll"] = "ticked" /\ Runs("poll")
  /\ budget.calls < MaxCalls /\ Spend("calls")
  /\ \E want \in CurveDuty :
       SetDuty("poll", "curve", want, tick.sample, "ticked")
  /\ UNCHANGED <<outside, hw, lease>>

\* restore_fan on the sample of this tick, once per resume.
PollResume ==
  /\ pc["poll"] = "ticked" /\ Runs("poll")
  /\ tick' = [tick EXCEPT !.wake = FALSE]
  /\ IF tick.wake /\ lease.pending
       THEN /\ lease' = [lease EXCEPT !.pending = FALSE]
            /\ SetDuty("poll", "restore", lease.restoreDuty, tick.sample, "govern")
       ELSE Goto("poll", "govern") /\ UNCHANGED <<lease, job>>
  /\ UNCHANGED <<hw, latest, stale, wedged, resumed, host, proc, budget>>

\* enforce_floor: what a curve tick or the pin asks for now.
Wanted == IF lease.curve THEN CurveDuty ELSE {lease.requested}

\* Mutant: a fan that moved is not looked at, nor a duty asserted again.
NeedsWriteOnChange(target) == target # lease.applied

\* enforce_floor's two questions: did the decision change, did the fan drift.
\* While the EC owns the fan pwm1 is firmware's duty, near the target or not.
NeedsWrite(target) ==
  \/ target # lease.applied
  \/ ~Observable
  \/ hw.mode = "manual" /\ FarApart(hw.duty, target)

\* govern_fan and enforce_floor up to the write.
PollGovern ==
  /\ pc["poll"] = "govern" /\ Runs("poll")
  /\ \/ /\ ~lease.held
        /\ Goto("poll", "observe")
        /\ UNCHANGED <<lease, job>>
     \/ /\ lease.held /\ Refused(tick.sample)
        /\ Begin("poll", "release", 0, NoTemp, 0, "give")
        /\ UNCHANGED lease
     \/ /\ lease.held /\ ~Refused(tick.sample)
        /\ \E want \in Wanted :
             LET target == Clamp(want, tick.sample) IN
             /\ lease' = [lease EXCEPT !.requested = want]
             /\ \/ /\ NeedsWrite(target) \/ hw.mode = "auto"
                   /\ Begin("poll", "enforce", want, tick.sample, target, "mode")
                \/ /\ ~NeedsWrite(target)
                   /\ Goto("poll", "publish")
                   /\ UNCHANGED job
  /\ UNCHANGED <<outside, hw, budget>>

\* firmware_duty and observe: what the floor learns is module FirmwareFloor's
\* business, here it matters only that this comes after the look at `held`.
PollObserve ==
  /\ pc["poll"] = "observe" /\ Runs("poll")
  /\ Goto("poll", "publish")
  /\ UNCHANGED <<outside, hw, lease, job, budget>>

PollPublish ==
  /\ pc["poll"] = "publish" /\ Runs("poll")
  /\ latest' = tick.sample
  /\ tick' = [tick EXCEPT !.sample = NoTemp]
  /\ Goto("poll", "idle")
  /\ UNCHANGED <<hw, lease, job, stale, wedged, resumed, host, proc, budget>>

\* A panic in the tick: the hook's release_now runs, then the task is gone
\* while the process lives on.
PollPanic ==
  /\ pc["poll"] \in {"ticked", "govern"} /\ Runs("poll")
  /\ CanUpset /\ Spend("upsets")
  /\ Begin("poll", "panic", 0, NoTemp, 0, "give")
  /\ UNCHANGED <<outside, hw, lease>>

PollStep ==
  \/ PollTick \/ PollProfile \/ PollResume \/ PollGovern \/ PollObserve
  \/ PollPublish

-----------------------------------------------------------------------------
(* The logind watcher (logind.rs), handling signals one at a time.          *)

Delivered(which) == host.signals # <<>> /\ Head(host.signals) = which
Handled == [host EXCEPT !.signals = Tail(@)]

\* release_for_sleep when the fan is held, else a bare release_now.
SleepDown ==
  /\ pc["sleep"] = "idle" /\ Runs("sleep") /\ Delivered("down")
  /\ host' = Handled
  /\ lease' = IF lease.held
                THEN [lease EXCEPT !.pending = TRUE, !.restoreDuty = lease.requested]
                ELSE lease
  /\ Begin("sleep", "release", 0, NoTemp, 0, "give")
  /\ UNCHANGED <<hw, tick, latest, stale, wedged, resumed, proc, budget>>

\* Last, drop the delay lock: from here on the suspend may proceed.
SleepUnlock ==
  /\ pc["sleep"] = "unlock" /\ Runs("sleep")
  /\ host' = [host EXCEPT !.lock = FALSE]
  /\ Goto("sleep", "idle")
  /\ UNCHANGED <<hw, lease, job, tick, latest, stale, wedged, resumed, proc, budget>>

\* Inhibit() fails once a suspend is under way.
LockTaken == host.power = "awake"

\* Flag the resume and take the delay lock again, which may fail.
SleepUp ==
  /\ pc["sleep"] = "idle" /\ Runs("sleep") /\ Delivered("up")
  /\ resumed' = TRUE
  /\ \/ host' = [Handled EXCEPT !.lock = LockTaken] /\ UNCHANGED budget
     \/ host' = Handled /\ CanFault /\ Spend("faults")
  /\ UNCHANGED <<hw, lease, pc, job, tick, latest, stale, wedged, proc>>

-----------------------------------------------------------------------------
(* The watchdog thread (watchdog.rs check), and shutdown (main.rs).         *)

\* Mutant: a fan believed to be firmware's is left alone on every board.
AtRiskIfManual == ManualMode

AtRisk == ManualMode \/ ~Observable

\* On a stale heartbeat: release a fan that reads manual, and on a board that
\* cannot say, release in any case.  A failed release is tried again next second.
WatchdogCheck ==
  /\ pc["watchdog"] = "idle" /\ Runs("watchdog")
  /\ stale
  /\ AtRisk
  /\ Begin("watchdog", "release", 0, NoTemp, 0, "give")
  /\ UNCHANGED <<outside, hw, lease, budget>>

\* SIGINT or SIGTERM: shut_down_fan.  The other tasks keep running meanwhile.
Terminate ==
  /\ pc["main"] = "idle" /\ Runs("main")
  /\ CanUpset /\ Spend("upsets")
  /\ Begin("main", "release", 0, NoTemp, 0, "give")
  /\ UNCHANGED <<outside, hw, lease>>

-----------------------------------------------------------------------------
(* The process and its unit (data/fw-helperd.service).                      *)

\* Everything but the hardware and the machine's power state is gone.
Die(into) ==
  /\ proc' = into
  /\ lease' = FreshLease
  /\ pc' = [a \in Task |-> "idle"]
  /\ job' = [a \in Task |-> NoJob]
  /\ tick' = [sample |-> NoTemp, wake |-> FALSE]
  /\ latest' = NoTemp
  /\ stale' = FALSE /\ wedged' = FALSE /\ resumed' = FALSE
  /\ host' = [host EXCEPT !.lock = FALSE, !.signals = <<>>]
  /\ UNCHANGED hw

\* SIGKILL, a segfault, an abort: at any point.
Crash ==
  /\ Runs("main")
  /\ CanUpset /\ Spend("upsets")
  /\ Die("failed")

\* main returns after shut_down_fan.
Exit ==
  /\ pc["main"] = "exit" /\ Runs("main")
  /\ Die("stopped")
  /\ UNCHANGED budget

\* Mutant: a clean stop has released the fan already.
RestoreFanAfterFailure ==
  IF proc = "stopped"
    THEN UNCHANGED <<hw, budget>>
    ELSE hw' = Firmware /\ UNCHANGED budget

\* fw-helper-restore-fan.
RestoreFan ==
  \/ hw' = Firmware /\ UNCHANGED budget
  \/ UNCHANGED hw /\ CanFault /\ Spend("faults")

\* ExecStopPost=, on every stop of the unit; Restart=on-failure.
ExecStopPost ==
  /\ proc \in {"failed", "stopped"} /\ host.power # "asleep"
  /\ RestoreFan
  /\ proc' = IF proc = "failed" THEN "restart" ELSE "off"
  /\ UNCHANGED <<lease, pc, job, tick, latest, stale, wedged, resumed, host>>

\* Mutant: a new process took nothing, so it has nothing to release.
ReclaimOwn == UNCHANGED <<hw, budget>>

\* reclaim_at_startup: release a fan that reads manual, and on a board that cannot
\* say, any fan.
Reclaim ==
  \/ hw' = Firmware /\ UNCHANGED budget
  \/ hw.mode = "manual" /\ UNCHANGED hw /\ CanFault /\ Spend("faults")

\* main up to serving.
Start ==
  /\ proc \in {"restart", "off"} /\ host.power # "asleep"
  /\ proc' = "up"
  /\ host' = [host EXCEPT !.lock = LockTaken]
  /\ Reclaim
  /\ UNCHANGED <<lease, pc, job, tick, latest, stale, wedged, resumed>>

-----------------------------------------------------------------------------
(* The environment                                                         *)

task == <<lease, pc, job, tick, latest, resumed, proc>>

\* The tick blocks on something; after TIMEOUT without a beat it is stale.
Wedge ==
  /\ Runs("poll") /\ pc["poll"] # "dead"
  /\ CanUpset /\ Spend("upsets")
  /\ wedged' = TRUE
  /\ UNCHANGED <<task, hw, stale, host>>

Unwedge ==
  /\ wedged /\ Runs("main")
  /\ wedged' = FALSE
  /\ UNCHANGED <<task, hw, stale, host, budget>>

GoStale ==
  /\ Runs("main") /\ ~stale
  /\ wedged \/ pc["poll"] = "dead"
  /\ stale' = TRUE
  /\ UNCHANGED <<task, hw, wedged, host, budget>>

PrepareForSleep ==
  /\ host.power = "awake" /\ CanUpset /\ Spend("upsets")
  /\ host' = [host EXCEPT !.power = "preparing",
                          !.signals = IF proc = "up" THEN Append(@, "down") ELSE @]
  /\ UNCHANGED <<task, hw, stale, wedged>>

\* logind waits for the delay lock (its own five-second limit is not modelled).
Suspend ==
  /\ host.power = "preparing" /\ ~host.lock
  /\ host' = [host EXCEPT !.power = "asleep"]
  /\ UNCHANGED <<task, hw, stale, wedged, budget>>

Wake ==
  /\ host.power = "asleep"
  /\ host' = [host EXCEPT !.power = "awake",
                          !.signals = IF proc = "up" THEN Append(@, "up") ELSE @]
  /\ UNCHANGED <<task, hw, stale, wedged, budget>>

Environment ==
  Wedge \/ Unwedge \/ GoStale \/ PrepareForSleep \/ Suspend \/ Wake

Next ==
  \/ \E a \in Task : LeaseStep(a)
  \/ \E c \in Client : Call(c) \/ Authorized(c) \/ Denied(c)
  \/ PollStep \/ PollPanic
  \/ SleepDown \/ SleepUnlock \/ SleepUp
  \/ WatchdogCheck \/ Terminate \/ Crash \/ Exit \/ ExecStopPost \/ Start
  \/ Environment

Spec == Init /\ [][Next]_vars

\* Threads and tasks that can run do run, systemd does what the unit file says,
\* logind suspends once nothing delays it, and time passes.  Nobody has to call,
\* deny, crash, unblock a stuck tick, or wake the machine.
Fairness ==
  /\ \A a \in Task : WF_vars(LeaseStep(a))
  /\ WF_vars(PollStep)
  /\ WF_vars(SleepDown \/ SleepUnlock \/ SleepUp)
  /\ WF_vars(GoStale) /\ WF_vars(WatchdogCheck)
  /\ WF_vars(Exit)
  /\ WF_vars(ExecStopPost)
  /\ WF_vars(proc = "restart" /\ Start)
  /\ WF_vars(Suspend)

FairSpec == Spec /\ Fairness
-----------------------------------------------------------------------------
(* Safety *)

\* ADR 0006 points 4, 5 and 6: while the fan is manual at a verified duty, that
\* duty was chosen for a readable sample under the ceiling and the battery
\* guard, and is no lower than what the EC makes of that sample's floor,
\* whichever task wrote it and whatever ran in between.
NeverBelowFloor ==
  hw.mode = "manual" /\ hw.at # NoTemp =>
    /\ hw.at \in Usable
    /\ hw.duty >= Settle(Floor[hw.at])

\* The dangerous state is manual control at a duty nobody verified (take_manual's
\* comment).  While the daemon runs it is a transient of one task that will
\* write or release next, unless the write and the release both failed.
GuardedTakeover ==
  hw.mode = "manual" /\ hw.at = NoTemp /\ proc = "up" =>
    \/ \E a \in Task : pc[a] \in {"write", "undo"}
    \/ budget.faults >= 2

\* EcFan::send never leaves the fan at a duty that may not turn it (0 is a fan
\* that is off on purpose).
NeverStalled == hw.mode = "manual" => ~Stalls(hw.duty)

\* A restore that release_for_sleep armed is not forgotten: until it is done the
\* machine is on its way down, the resume is still to be delivered, or the poll
\* task has been or will be told.
RestoreNotOrphaned ==
  lease.pending =>
    \/ host.power # "awake"
    \/ \E i \in 1..Len(host.signals) : host.signals[i] = "up"
    \/ resumed \/ tick.wake

\* ADR 0006 point 1: once systemd is done with a stopped unit the fan is
\* firmware's, although the other tasks ran on while main released it.
OffIsFirmware == proc = "off" /\ budget.faults = 0 => hw.mode = "auto"

-----------------------------------------------------------------------------
(* Liveness, under FairSpec *)

Manual == hw.mode = "manual"

\* The watchdog (watchdog.rs): a fan left manual by a poll task that is stuck or
\* gone returns to firmware unless the task comes back; a failed release is tried
\* again, and a belief that lost track of the fan does not stop it.
Unminded == wedged \/ pc["poll"] = "dead"
WatchdogReturnsFan ==
  (Manual /\ Unminded) ~> (~Manual \/ ~Unminded \/ host.power = "asleep")

\* A process that died holding the fan: ExecStopPost or, if that fails, the
\* reclaim of the next start gives it back.
CrashReturnsFan ==
  (Manual /\ proc = "failed") ~> (~Manual \/ host.power = "asleep")

\* A pending restore is attempted on a tick after the wake, while there is a poll
\* task to attempt it.
RestoreRuns ==
  (lease.pending /\ resumed) ~>
    (~lease.pending \/ wedged \/ pc["poll"] = "dead" \/ host.power = "asleep")

\* enforce_floor: "continuously or not at all".  However the operations of the
\* other tasks interleaved, once they are over every further tick that ends with
\* the lease held leaves the fan usable at its sample and at the floor: exactly
\* where the duty is re-asserted, within DUTY_TOLERANCE where it is read back.
OthersQuiet == \A a \in Task \ {"poll"} : pc[a] \in {"idle", "auth"}

AtFloor ==
  pc["poll"] = "publish" /\ Runs("poll") /\ lease.held /\ Manual =>
    /\ tick.sample \in Usable
    /\ hw.duty + (IF Observable THEN DUTY_TOLERANCE ELSE 0)
         >= Settle(Floor[tick.sample])

FloorHoldsWhenQuiet == <>[]OthersQuiet => <>[]AtFloor

-----------------------------------------------------------------------------
(* Statements of the repository that the code does not keep *)

\* set_fan_duty (iface.rs): "It pins one duty rather than following temperature."
PinMeansPin ==
  [][\A a \in Task : job[a].op = "duty" /\ pc[a] = "store" /\ pc'[a] = "idle"
       => ~lease'.curve]_vars

\* fan.rs: the duty is "re-checked on every poll tick"; enforce_floor returns at
\* once unless `held`.  So with no operation in progress a manual fan is held.
ManualIsHeld ==
  Manual /\ proc = "up" /\ (\A a \in Task : pc[a] \in {"idle", "auth"})
    => lease.held

\* ADR 0006 point 2: "Release control before suspend."
SuspendedFanIsFirmwares == host.power = "asleep" => hw.mode = "auto"
=============================================================================

# fw-helper in TLA+

fw-helper is a root daemon that takes over a Framework laptop's fan, power limit, charge
limit and power profile, and gives them back. This directory holds TLA+ modules of the
parts of it in which order, failure and concurrency matter, TLC configurations that check
them on small instances, and proofs that the TLA+ proof system checks for every instance.

- [Inventory](#inventory): the parts of the program, their state, what can go wrong.
- [Modules](#modules): what each module models and how it corresponds to the code.
- [Runs](#runs): what is checked, with which bounds.
- [Fairness](#fairness), [Proofs](#proofs), [Limits](#limits), [Plan](#plan).

`src/...:n` below is relative to the repository's root; `fan.rs`, `main.rs`, `iface.rs`, `logind.rs`,
`watchdog.rs`, `ec.rs`, `profiles.rs`, `ppd.rs`, `state.rs` without a path are those of `crates/fw-helperd/src`.

## Inventory

| Component | State it keeps | Operations | Talks to | Hard because |
|---|---|---|---|---|
| Fan lease (`fan.rs`) | atomics `held`, `requested`, `applied`, `restore_*`, `ec_manual`; mutexes around curve and floor | set_duty, set_curve, enforce_floor, release, release_now, release_for_sleep, restore_after_resume, reclaim_at_startup | both backends, floor, curve | no lock covers a hardware operation; six kinds of caller |
| Fan backends (`fw-helper-core/src/fan.rs`, `ec.rs`) | none / the belief `ec_manual` | take_manual, set_duty, release | `pwm1*` in sysfs, or `/dev/cros_ec` | several steps, each can fail; one backend cannot read back anything |
| Poll task (`main.rs`) | per-tick locals, correction counter, last power source | one tick a second: resume, sample, profiles, power, floor save, restore, govern, publish | everything | awaits between reads and uses; may panic or block |
| D-Bus interface (`iface.rs`) | latest telemetry, persisted state | set_fan_duty, set_fan_curve, set_fan_auto, set_profile, set_power_limit, set_charge_limit, save/delete_profile, set_auto_profiles | lease, PPD, PL1, EC, state file | concurrent calls, a password prompt between check and use |
| Suspend watcher (`logind.rs`) | the delay lock | release before, flag after | logind, lease, poll task | signals, a lock that may not be granted |
| Watchdog (`watchdog.rs`) | heartbeat, `tripped` | check every second | lease | acts when nothing else does |
| Crash path (`data/fw-helperd.service`, `fw-helper-restore-fan`) | none | release after every stop; restart | hardware | the process may be gone at any step |
| Firmware floor (`fw-helper-core/src/floor.rs`) | 40 buckets, revision, direction | observe_span, restore, floor_duty | lease | boundaries, hysteresis, only rising samples count |
| Curve engine (`fw-helper-core/src/curve.rs`) | working temperature, last duty | new, tick, reset | lease | hysteresis and ramp against stiction |
| Thermal limits (`ceiling.rs`, `battery.rs`, `board.rs`) | the board found at start | exceeded_by, floor_duty, the two tables | lease | limits derived from sensors that may lie; rounding at the joints |
| Power limit (`power.rs`, `iface.rs`, `main.rs`) | desired limit, corrections | set, reapply, enforce | powercap | firmware rewrites the register |
| Profiles and PPD (`profile.rs`, `ppd.rs`) | proxy, `applied_ppd`, `pending_ppd` | apply_profile, set, watch, adopt | PPD | echoes, late start, two bus names, partial failure |
| Profile files (`profiles.rs`, `iface.rs`) | a directory and a list in memory | save, delete, load | disk, prompt | two calls for one name; a write that stops half-way |
| Charge limit (`charge.rs`, `ec.rs`) | the EC's (min, max) | set, reapply | EC | read-modify-write without a lock |
| Persistent state (`state.rs`) | one file | load, save | disk | not atomic against a crash |
| Telemetry (`telemetry.rs`, `energy.rs`) | last counter, watt window | sample, on_resume | sysfs | wrap-around, gaps, suspends |
| Authorization (`polkit.rs`) | none | check | polkit | up to a minute of waiting |
| GTK client: curve editor (`fw-helper-gui/src/curve.rs`) | points, `dirty` | edit, add, Apply, update | window | snapshots arrive while an Apply waits |
| GTK client: controls, threads (`ui.rs`, `worker.rs`) | per control: pending, in flight | choose, debounce, sync | D-Bus | two threads, a bounded channel, commands behind a prompt |
| Other clients (`fw-helperctl`, applet) | none | one call each | D-Bus | |

What makes each of them correct:

- **Lease, backends, tasks, crash path.** The fan is never slower than firmware would run it at the
  temperature a duty was chosen for; manual control at an unknown duty does not last; whatever dies,
  sleeps, blocks or fails, the fan returns to firmware; what was asked for comes back after a suspend.
- **Floor.** No observation lowers a bucket, only what firmware really did is learned, the answer
  is at or above what was observed.
- **Curve.** Validated curves yield monotone duties; the engine converges and never rests where the fan may stall.
- **Thermal limits.** A warmer machine never asks less of the fan nor takes back one that was given up, and the tables' duty turns the fan as fast as firmware's.
- **Power, charge.** What the hardware holds was chosen by somebody, is what was recorded last, and is
  corrected when firmware fights back.
- **Profiles.** The slider, the limit and the curve are one profile's; a choice stays until something else
  has a reason to change it; the daemon does not follow its own change of the slider.
- **Profile files.** What is known now is what the next start finds, and a built-in's name is never lost.
- **PPD.** However it comes and goes, it is followed from where it is.
- **State.** A start from a file cut short anywhere writes nothing nobody chose to the hardware.
- **Telemetry.** Watts that are published were drawn.
- **GTK client.** What the user has set or drawn does not jump back, and in the end the window shows what the daemon holds.

The hazards behind these, each at its line, are in `PROJECT.json`.

## Modules

### FanDuty

A duty is a byte, the EC stores whole percents. `Settle(d)` is what the EC holds after it was given `d`,
by the two conversions of `fw-helper-core/src/ec.rs` on either backend (with `pwm1` the EC does the same
round trip itself and the driver reads it back).

### FanLease

The lease with all its callers. One behaviour of the module interleaves

| Task | Actions | Code |
|---|---|---|
| any task in a lease operation | `WriteMode` `TakeMode` `TakeWrite` `SetHeld` `Book` `Store` `ReleaseHw` `Unmark` `Drop` | `FanLease::write`, `set_duty`, `set_curve`, `release`, `release_now`; `take_manual`, `set_duty`, `guarded`, `release*` of `FanControl` and `EcFan` |
| each D-Bus call | `Call` `Authorized` `Denied` | `set_fan_duty`, `set_fan_curve`, `set_profile`, `set_fan_auto` |
| poll task | `PollTick` `PollProfile` `PollResume` `PollGovern` `PollObserve` `PollPublish` `PollPanic` | `poll_loop`, `apply_profile`, `restore_fan`, `govern_fan`, `enforce_floor`, `update`, the panic hook |
| logind watcher | `SleepDown` `SleepUnlock` `SleepUp` | `watch_sleep`, `take_delay_lock`, `release_for_sleep` |
| watchdog thread | `WatchdogCheck` | `check` |
| main | `Terminate` `Exit` | signals, `shut_down_fan` |
| systemd | `Crash` `ExecStopPost` `Start` | the unit file, `fw-helper-restore-fan`, `reclaim_at_startup` |
| machine | `Wedge` `Unwedge` `GoStale` `PrepareForSleep` `Suspend` `Wake` | a tick that blocks, time, logind, power |

State: `hw` is what the EC does (mode, duty) together with the sample `at` that duty was chosen for, a history
component the properties need; `lease` is the struct of atomics, `belief` being `ec_manual`; `pc` and `job`
are each task's program counter and the arguments of its lease operation; `tick` the poll loop's locals;
`latest` the telemetry D-Bus calls read; `host` the machine's power state with logind's lock and
undelivered signals; `proc` the unit's state. `Observable` selects the board: `pwm1` in sysfs, or EC commands.

Where steps are cut. A step ends at every hardware operation and at every store that another task's decision can fall
between: the mode question, the mode switch, the duty write, `held`/`applied`, `requested`/curve, the
hardware release, the belief, `held` again. Merged into one step are: stores no other task reads as a pair
(`held` with `applied`; release's four resets; release_for_sleep's two), a verified write with its read-back, EcFan's
check of the belief with its send, and the reads of one decision of `enforce_floor`.

What can fail. Any write to the hardware, silently or not, at most `MaxFaults` times: a mode switch
rejected or without effect, a duty rejected or not read back, a release that does nothing, the restore binary, the
reclaim, the delay lock. A failed *read* of `pwm1_enable` is not modelled. The tick may block at any
point (`Wedge`) and come back or not; it may panic; the process may die anywhere; SIGTERM may come
while every other task is busy; the machine may sleep and wake.

What is an input. A sample is a member of `Temp`, with its floor `Floor[t]` (firmware floor and battery guard
together) and `t \in Hot` when it is past the CPU ceiling or the battery guard; `NoTemp` is a sample with no readable sensor.
A curve tick asks for any member of `CurveDuty`. So the properties hold for every floor and every curve, not
for those of one board.

### FirmwareFloor

The floor's pure operations (`fw-helper-core/src/floor.rs`), one operator each: which buckets a pair of samples speaks
for (`Span`), what recording a duty changes (`Louder`, `Record`), what is written to the state file and made of it again (`Observations`,
`Restored`), which way the temperature goes (`Update`), the lowest duty that may be held (`FloorDuty`). A floor is a record of
the duty per bucket, `Unseen` where nothing was observed, and the revision. Temperatures are whole degrees, which is
what the sensor resolves. What a board's two tables predict for an unseen bucket is the constant function `Model`. Since the
properties speak of what was heard, they hold whatever the tables say.

### FloorLearning

How the daemon fills that floor, keeps it and carries it to another machine.

| Actor | Actions | Code |
|---|---|---|
| poll task | `Govern` `Observe` `Enforce` `PollSave` | the two halves of `govern_fan`, cut between the question `held()` and the read of the duty; the periodic save |
| other tasks | `Take` `GiveBack` `Mark` | `FanLease::write` and `release_now`, cut between the hardware and `held` |
| main, systemd | `Start` `ShutdownSnapshot` `ShutdownSave` `Stop` | restoring the floor if `floor_applies`; the save at shutdown, cut at its await; the end of the process, with or without that |
| somebody with a screwdriver | `Move` | the disk, and the state file on it, in another machine |

State: `board` and `file` outlive the process; `floor`, `past` and `dir` (`Govern`), `savedRevision` (of `poll_loop`) and `shot` (what shutdown
is about to write) do not. Of the lease there are only `fan` (what the EC does, and the duty it was given) and `held`, which `Mark`
brings up to date one step later. One such operation is in progress at a time: the race of two of them is FanLease's
subject, and what the learner needs from it, a fan that is manual while `held` is false, arises from one alone. `hist` is a history: the loudest
duty firmware was heard at per temperature while the sample counted, and the profiles all that is known comes from, with the values both
had when the file was last written.

FirmwareDuty is any set: firmware's own curve is not modelled, so nothing here depends on it.

### FloorMemory

The abstract specification of the above: a level per place that only rises while somebody keeps it (`Learn`), is saved as it is
(`SaveNow`) or as it was a moment ago (`TakeAside`, `SaveAside`), is forgotten with its keeper (`Sleep`), and comes back exactly as it
was saved or, where it does not apply, not at all (`Wake`). `FloorLearning` implements it under the mapping in `Memory`: the levels are the buckets,
`kept` is what the state file would load as, `copy` what shutdown's snapshot would. The file's format and its loading are therefore part of what is checked:
a bucket firmware was *silent* in has to survive them, because it outranks the tables.

### FanCurve, CurveEngine

`FanCurve` has `Curve::new`'s conditions (`ValidCurve`) and `duty_at` (`DutyAt`, with the rounding of the code's floats). `CurveEngine` follows a
curve: `EngineTick` is `tick` with its working temperature, hysteresis, ramp and final stop, `EngineTickBlind` the tick without a
usable sample, `Follow` the lease's set_curve with the first tick it makes, `Swap` the engine's own set_curve, `ResetRamp` the reset after
a resume, `ClearCurve` a release, `Weather` the machine. The engine's own set_curve has no caller in the daemon; it is part of the type's interface and is modelled as such.

### ThermalLimits

The tables of `board.rs`, whole, in tenths of a degree: temperature to speed and speed to duty, with the rounding up and the
truncations of `floor.rs` (`ColdFloor`), the ceiling and the battery guard with their fallbacks (`Ceiling`, `PackFloor`, `PackExceeded`), board
identification (`Identified`), and their combination in `enforce_floor`: the duty the fan is clamped to (`Demand`) and when it is handed back (`GivenUp`), two separate answers. Its actions are samples of the two sensors, readable or not; the
rest is pure.

### StateFile

What `State::load` makes of the file after a save that was cut short: the keys come in `save()`'s order, so a cut leaves the keys before it whole,
the key at the cut absent or, when it is a number, *a smaller number*, and the keys after it absent (`Loadable`). `PowerProfiles` and `ChargeLimit` start from
such files.

### PowerProfiles

Everything that applies a profile or one of its parts.

| Actor | Actions | Code |
|---|---|---|
| D-Bus call | `CallSetProfile` then `CallAxis` `CallPl1` `CallCurve` `CallRecord`; `CallSetLimit` then `CallRecordLimit`; `CallSetAuto` | `set_profile`, `set_power_limit`, `set_auto_profiles`, past their prompts |
| poll task, one tick in this order | `PollResume` `PollStartup` `PollSource` `PollSlider` `PollEnforce` `PollAssert`; within one of the middle three `PollAxis` `PollPl1` `PollCurve` `PollRecord` | `poll_loop`, `apply_profile`, `record_profile`, `enforce_power_limit` |
| watcher of PPD | `Watch` | the stream of `watch`, `pending_ppd` |
| main, systemd | `StartProfiles` `CrashProfiles` | `reapply_power_limit`, `State::load` |
| world | `Slide` `FirmwareRewrites` `PowerSource` | desktop, firmware with or without a resume, cable |

A profile is a position, watts and a curve's name. A call and a tick are cut at every await and every read that a later step uses: the note of the
position (`Mark`), PPD, the register, the curve, the record; what enforcement wants and its look at the register. Any of these may fail
and leaves what was done before it; a write of the register may fail having moved it (`SetFails`). `applied_ppd` and `pending_ppd` are the code's atomics, 0 for none; `loop` holds the tick's locals. `past` is a history: what a client chose last, and
whether applications overlapped, were raced by the slider, or failed half-way.

### ChargeLimit

The EC's pair of limits. A write is `Get` `Set` `Verify` (`set_max`), begun by `SetChargeLimit` (then `RecordLimit`), by `ApplyProfileLimit` (`apply_profile`), or by
`ChargeResume` or `ChargeStart` through `Compare` (`reapply_charge_limit`); `Serve` is the bus being opened after the start's. Writers have no lock and interleave.
`FirmwareReset` puts the factory pair back, `ChargeDown` is a crash that may cut the file.

### PpdAdoption

`ProfileAxis` and its three tasks: main (`Connect`, `Subscribe`), the watcher of the two bus names (`GainKnown` `GainAdopted` `GainUnanswered`
`LetGo`, the probe's answer included) and the follower of the slider (`Idle` `Open` `Ask` `Change` `StreamEnds` `Notified`). PPD is external: it claims
its two names one after the other (`Claim`), answers from some moment on (`Ready`), loses both and may return (`Leave`), and its slider moves (`Move`). `adopted` is the one permit of the
`Notify`, `reconcile` the question a late adoption asks, `stream` the PPD process the stream was opened on.

### ProfileStore

The set of profiles: `known` in memory, `folder` on disk. SaveProfile is `SaveAsk` (PPD's position) `SaveCapture` (the register and the curve in use, read after
it and before the prompt) `SaveFile` (past the prompt) `SaveKnown`; DeleteProfile is `DeleteFile` `DeleteKnown`; `StoreStart` loads the files over the built-ins, in the order they sort. `SaveFile` may fail
and leave a file cut short, `StoreCrash` may come anywhere, `EditByHand` is a user with an editor, whose file may name another profile than its own name.

### PowerTelemetry

`Second` is a second of the package's life, `SleepWake` a suspend, which may reset the counter and is not counted by the monotonic clock, `Resumed` the flag the logind
watcher sets, `SampleTick` a tick: on_resume when the flag is up, the difference modulo the counter's range, the refusal of a gap or of implausible watts, the block average and the idle
floor with its confirmation. `spent` is a history: what was really drawn since the last sample.

### CurveEditor

The editor's points, their edits by spin buttons (`SetCelsius` `SetPointDuty`), `AddPoint` with where it is put (`Inserted`), `RemovePoint`, `ResetQuiet`; `ApplyCurve`, which may be clicked again while earlier ones wait, the command thread's answers
in order (`Accepted`, `Refused`), the failure of a command to return the fan, which `applied` takes for one (`AutoRefused`), the snapshot on its way (`FetchCurve`) and the window's update (`UpdateEditor`); other clients (`Elsewhere`). Values are the data here: what the added
point is, and whether the curve stays valid, depends on them.

### GuiControls

Five controls: the power and the charge limit are debounced, the profile is sent at once, the two automatic profiles are sent as a pair. `power` stands for both debounced ones, whose
code is the same. `Adjust` and `DebounceFires`, `ChooseDirect`, `ChooseSide` are the user; `Run` `Refuse` `Report` the command thread,
in order, each command as long as its prompt; `FetchSnapshot` `Deliver` the poll thread; `Sync` and `ResultArrives` the main loop, fed by a channel of one place; `WaitOver` the five seconds after which a control lets go;
`ChangedElsewhere` another client. `wished` and `disturbed` are histories: what the user chose last, and whether something else has happened to that control since. A choice starts a control
afresh (`Afresh`), unless its value, or an earlier command's refusal, is on its way already and cannot be told from its own.

## Runs

The `lease` runs are in `MCFanLease`. `cool` has floor 0, `warm` 87, `hot` is past a limit. The `floor` runs are in
`MCFloorLearning`, `profiles` and `power_rearm` in `MCPowerProfiles`, `parts` in `MCParts`, `editor_refused` in `MCEditor`.

| Run | Instance | Properties | Distinct states |
|---|---|---|---|
| `lease_sysfs` | sysfs board, 1 client, {warm, hot}, 2 calls, 1 fault, 1 upset | `TypeOK` `NeverBelowFloor` `GuardedTakeover` `RestoreNotOrphaned` `OffIsFirmware` | 704 000 |
| `lease_ec` | EC board, 1 client, {cool, hot}, a request of 20, a curve that asks for 20 or 84, 1 call, 1 fault, 1 upset | `NeverBelowFloor` `GuardedTakeover` `NeverStalled` `WatchdogReturnsFan` `CrashReturnsFan` `RestoreRuns` | 143 000 |
| `lease_quiet` | sysfs board, 2 clients, {cool, warm}, 2 calls, 1 fault | `FloorHoldsWhenQuiet` | 367 000 |
| `floor_learn` | an Intel, an AMD and an unmeasured board, 2 buckets, {29, 30, 32} degrees, 2 firmware duties, 3 ticks, 1 take or release, 2 starts | `TypeOK` `FloorCoversFirmware` `NoForeignFloor` `SavedMeansSaved` `FloorIsMemory` | 285 000 |
| `profiles` | 3 profiles on 2 positions, 1 hand-set limit, 1 value of firmware's, 2 corrections, 3 events, 2 starts | `WholeProfile` `ChoiceStays` `LimitIsChosen` `LimitEnforced` | 2 040 000 |
| `parts` | eight parts, one at a time | see below | 390 000 |
| `lease_pin` | sysfs board, 1 client, {cool}, 2 calls | `PinMeansPin` is violated | |
| `lease_lost` | sysfs board, 1 client, {cool}, 2 calls | `ManualIsHeld` is violated | |
| `lease_suspend` | sysfs board, 1 client, {cool}, 1 call, 1 upset | `SuspendedFanIsFirmwares` is violated | |
| `floor_own` | as `floor_learn`, Intel only, 2 ticks, 1 start | `OnlyFirmwareIsLearned` is violated | |
| `power_rearm` | 1 profile, 1 correction, 4 events, 1 start | `SetAgainEnforces` is violated | |
| `editor_refused` | the built-in curve, 2 edits, 1 Apply | `RefusedIsKept` is violated | |

The parts of `parts` share no state and no fairness, so one run takes them one at a time: `subject` names the part that moves, the others rest in one
initial state. Its properties, by part: CurveEngine `RampBounded` `SettlesOnCurve`; ThermalLimits `TablesReachFirmware` `HotterAsksMore`;
PowerTelemetry `WattsAreTrue` `IdleFloorConfirmed`; ChargeLimit `ChargeIsChosen` `ChargeLimitHolds`; PpdAdoption `PpdFollowedAtLast`;
CurveEditor `AddedIsValid` `DrawnIsKept`; GuiControls `NoJumpBack` `SidesKept` `WindowAgreesAtLast`; ProfileStore `KnownIsWhatLoads` `BuiltInsKnown`.

What they show:

- `NeverBelowFloor`. Whichever task wrote last and whatever ran between its decision and its write, a verified
  manual duty belongs to a readable sample under both limits and is at least the quantized floor of that sample.
- `GuardedTakeover`. Manual control at an unknown duty is a step of one task that goes on to write or to
  release. It takes two failures to make it last.
- `NeverStalled`. On an EC board no duty in 1..32 reaches the EC, although requests and curves produce them.
- `RestoreNotOrphaned`, `RestoreRuns`. A duty remembered at suspend is restored, or refused, after the wake, wherever
  in a tick the resume is announced.
- `OffIsFirmware`, `CrashReturnsFan`. Every way a unit stops ends with firmware's fan.
- `WatchdogReturnsFan`. While the poll task is stuck or gone the fan does not stay manual, although D-Bus calls
  may still take it, the belief may be wrong, and a release may fail.
- `FloorHoldsWhenQuiet`. The lost-lease race below aside (the tick then does nothing, and the property speaks of ticks
  that end with the lease held), `enforce_floor` repairs whatever state the interleavings left: the fan ends each later tick at its
  floor; where the duty can be read back, within `DUTY_TOLERANCE` of it.
- `FloorCoversFirmware`. Wherever firmware was heard while the sample counted, the floor is at or above it: through spans that cross
  buckets and the ends of the tracked range, later quieter samples, saves, restarts and snapshots that are no longer current.
- `FloorIsMemory`. The refinement of `FloorMemory`: nothing but the end of the process lowers a bucket, and the file gives back what was put into it.
- `NoForeignFloor`. A floor is used only on a board of the profile it was learned on, however many machines the disk has been
  in and whichever of them saved last. An unmeasured board saves what it learns and uses nobody's.
- `SavedMeansSaved`. The revision, which alone decides whether there is something to save, moves with every change. Shutdown's save may
  put an older snapshot over a newer save, so the statement ends there.
- `WholeProfile`. With nothing under way, the slider, the curve and the recorded profile are one profile's, whoever moved last. Two exceptions are real
  and in the statement (`parted`): an application that failed half-way leaves what it had done, and a call that overlaps the poll task leaves a mixture.
- `ChoiceStays`. A profile, or watts on top of one, chosen over D-Bus survives the daemon's own echo, ticks, restarts and a start on another power
  source. Not promised: a choice made before the first tick (the persisted profile is applied over it), or while a slider move or an application is outstanding.
- `LimitIsChosen`. Nothing ever writes watts nobody chose, a file cut in the middle of a number included: such a number is below `MIN_WATTS`.
- `LimitEnforced`. A rewrite by firmware, and a correction decided on a limit a call has just replaced, are both corrected in the end, within the allowance.
- `RampBounded`, `SettlesOnCurve`. Within a ramp the request moves by bounded steps in either direction, curves exchanged on the way included, and at a steady temperature
  it comes to rest within the curve's hysteresis, through the duties that do not turn the fan.
- `TablesReachFirmware`, `HotterAsksMore`. No rounding or joint of the tables, the fallbacks and the battery's ramp gives a duty slower than firmware's, or asks
  less of the fan of a warmer machine; and what a warmer machine gives up it does not take back. The two are kept apart: giving the fan up is not more air, it may
  be less (ceiling.rs:7-13 measured 3100 against 5200 rpm).
- `WattsAreTrue`, `IdleFloorConfirmed`. A wrap, a late tick or an announced suspend never publishes a wrong number (one that is announced after the next sample
  does, and the property says so); one quiet outlier does not move the idle floor.
- `ChargeIsChosen`, `ChargeLimitHolds`. Overlapping read-modify-writes, resets, failures and cut files leave percentages somebody chose, and, unless writers
  overlapped or failed or a profile applied its own, the recorded one.
- `PpdFollowedAtLast`. Whatever PPD did, if it stays and answers it is adopted and its slider followed. What `missed` stands for is real too: PPD coming or going between
  the first probe and the subscription is not noticed, nor is one that answers later than both probes wait.
- `AddedIsValid`, `DrawnIsKept`. The added point keeps a curve valid, one corner aside (a curve that stays at a stop, with no gap to split; see below); what is drawn stays
  through snapshots, refusals and Applies before it, a snapshot that comes while Apply waits aside, which `RefusedIsKept` is about.
- `NoJumpBack`. From the choice on, a control shows it: through its debounce, the results of choices before it, its prompt, and a snapshot older than its command; unless a command of it is
  refused, it waits for too long, it is changed elsewhere, or its value was on its way already and so seems confirmed too early.
- `SidesKept`. Both automatic profiles are as they were chosen last once their commands have returned, however many pairs were sent for either and whatever the rows
  showed meanwhile; unless the last pair was refused, another client changed it, or the row showed something else when the other one was set.
- `WindowAgreesAtLast`. No control is held for good, and the window ends up showing what the daemon holds.
- `KnownIsWhatLoads`, `BuiltInsKnown`. What saving and deleting made of the list is what a start would, except after calls for one name that overlapped, a write that failed, or a file edited by
  hand (`astray`); a built-in's name always has exactly one profile.

Six statements of the repository that the code does not keep, each with the shortest behaviour TLC finds:

- `PinMeansPin`. SetFanCurve (or a profile), then SetFanDuty: `set_duty` never clears the curve, and the next tick
  overwrites the pin. Only SetFanAuto ends a curve.
- `ManualIsHeld`. One task has released the hardware and not yet cleared `held`; another takes the fan and
  sets `held`; the first clears it. Manual, unenforced, until somebody calls again or the watchdog trips.
- `SuspendedFanIsFirmwares`. A SetFanDuty past its mode check, the suspend handler's release, then the
  call's write. The delay lock is dropped and the machine sleeps with a manual fan.
- `OnlyFirmwareIsLearned`. A tick that releases and fails clears `held` all the same; the next tick takes pwm1 for firmware's duty and
  records the daemon's own. A takeover between the tick's question and its read does the same with no failure at all.
- `SetAgainEnforces`. The corrections are used up; the message says "giving up until it is set again" (main.rs:843); SetPowerLimit sets it again; firmware rewrites it once more and
  nothing corrects it: the counter is reset only where the poll task applies a profile (main.rs:719, 775, 813).
- `RefusedIsKept`. Apply clears `dirty` when it is clicked; a snapshot that arrives during the prompt replaces the points; the refusal then marks those unsent, "so the
  user's points are not quietly replaced by the running curve" (gui `curve.rs:477-479`).

### Further configurations

What the exceptions of the properties above stand for is real. Six configurations beside the runs show it, each with one property that TLC finds violated
(`tlc -config gui_rows.cfg GuiControls`, and so on), and one checks a larger instance of what `parts` has:

| Configuration | Module | Property | What happens |
|---|---|---|---|
| `gui_rows` | GuiControls | `SidesAsChosen` | A snapshot from before the command puts a row's old value back, and the other row's command sends that. ui.rs:395 sends both so that none is cleared. |
| `gui_newest` | GuiControls | `NewestStaysHeld` | The refusal of an older command lets go of the newer choice of the same control: a result carries the control's name only (ui.rs:447). ui.rs:558-559 says that a control whose command has not come back is never overwritten. |
| `gui_prompt` | GuiControls | `HeldUntilAnswered` | A prompt open for more than five seconds. worker.rs:41-44 says that the control is held until the result arrives. |
| `editor_added` | MCEditor | `AddedStaysValid` | A point past a stop gets a duty of 10, which `Curve::new` refuses. gui `curve.rs:488`: "without ever making it invalid". |
| `ppd_gap` | PpdAdoption | `AdoptedWhenever` | PPD takes its names after the first probe and before the subscription, and is never adopted. ppd.rs:125-128: "Adopt PPD whenever it appears". |
| `thermal_order` | MCThermal | `FullDutyBeforeCeiling` | On AMD the ceiling is 97.85 - 15 = 82.85 degrees and full duty is asked for from 95. ceiling.rs:12-13: the floor "demands full duty well before this point". |
| `gui` | GuiControls | `NoJumpBack` `SidesKept` | Holds with three values (1 920 000 states), where a second choice of a control may differ both from the first and from what the daemon held. |

### Bounds

**Lease.** `MaxCalls` bounds D-Bus calls and profile applications, `MaxFaults` failing hardware operations, `MaxUpsets` suspends,
stalls, panics, crashes and stops together. Two calls suffice for one to be in progress while another has left its trace
in the lease, one for the poll task being the second actor. One fault and one upset give every single failure at every step of
every operation. On the EC board one call is enough for what the belief can get wrong, since the poll task, the watchdog, the suspend watcher and
the restart act beside it; its invariants are proved for any number. Two clients matter only where both act on the lease between two ticks, which `lease_quiet` has. Two samples, one
of which demands more air or forbids manual control, are what the invariants tell apart.

**Floor.** `MaxTicks`, `MaxCalls`, `MaxStarts`: three ticks are a rise and a louder or quieter sample after it, a turn, or one before a restart and two after it; two starts
are one on another board or after a save; one take or release is enough for every mismatch of `fan` and `held`. The disk moves as often as it likes.

**Profiles.** `MaxEvents` bounds calls, slides, rewrites, cables, failures and torn files together, `MaxProfileStarts` the starts. Three are a call, something that races it, and something that
changes what it should have left. The two profiles on one position tell the canonical profile from another one of that position.

**Parts.** The curve engine: two curves over 40..43 degrees, one that begins at a stop and climbs faster than the ramp. ThermalLimits: the ends of the tables' segments, of the limits and of the
fallbacks, and points between. PowerTelemetry: a range of 3 J with at most 1 W and gaps of 2 s, so that one wrap is possible and two are not, one suspend, blocks of 2. ChargeLimit: two clients and the poll task,
one of the requested percentages refused, 2 calls, 1 fault, 1 reset, 2 starts. PpdAdoption: 2 lives of PPD and 2 moves.
CurveEditor: up to 4 points, 2 edits, 2 Applies under way, spin buttons at and beyond what a curve allows. GuiControls: 2 values, 2 choices, 1 refusal or change elsewhere. ProfileStore: 2 clients, 3 built-ins, a name that is none of theirs, one
that SaveProfile refuses and a file may have, 3 events.

TLAPS proves what is listed under [Proofs](#proofs) without any of these bounds.
`CHECK_DEADLOCK FALSE` throughout: once its bounds are spent a model may have nothing left to do (a poll task that has panicked, a fan that is firmware's, nobody calling; no starts
and no ticks left), and in `parts` a part such as the store stops with its events.

## Fairness

`FairSpec` of FanLease asks for weak fairness of: a task in the middle of a lease operation (a thread is scheduled); the
poll loop's and the suspend watcher's steps; the heartbeat getting old; the watchdog thread's check (once a second, for
the life of the process); `Exit` after shutdown's release; `ExecStopPost` and the restart of a failed unit (systemd does
what the unit says); the suspend once nothing delays it. None of these can be enabled forever and not happen in a running system. Nothing is assumed
of what may never happen: calls, authorizations, faults, crashes, the end of a blocked tick, a wake-up.

`ProfileSpec`: the poll task's steps (it ticks every second) and those of a call that was authorized. `CurveSpec`: the tick. `AdoptionSpec`: the daemon's three tasks; PPD owes nothing, it may stay
half-started or silent forever. `GuiSpec`: strong fairness of `Report` and `Deliver`, since the two threads share a channel of one place whose senders are served in turn (each of them is enabled only while
the place is free); weak fairness of a command being answered, which includes the prompt, of the poll thread, the main loop and the two timers of a control. FloorLearning, ThermalLimits, PowerTelemetry, ChargeLimit, CurveEditor and ProfileStore have safety
properties only and assume none. `MCParts` repeats the fairness of the part that moves.

## Proofs

Eight modules `*_proofs` hold them. Each theorem is for every value of the constants that the module's named ASSUME allows.

`FanLease_proofs` (under `LeaseAssumption`):

| Theorem | Property | Argument |
|---|---|---|
| `TypeCorrect` | `TypeOK` | inductive as it is, one lemma per group of actions |
| `FloorHolds` | `NeverBelowFloor` | strengthened by `Chosen` |
| `TakeoverGuarded` | `GuardedTakeover` | strengthened by `Chosen` and `Attended` |
| `OffReleased` | `OffIsFirmware` | inductive relative to `TypeOK` |
| `RestoreExpected` | `RestoreNotOrphaned` | strengthened to `Awaited` |
| `TurningFan` | `NeverStalled`, on EC boards | strengthened by `Aimed` |

`NeverBelowFloor` speaks of the hardware, and says nothing of a task that has decided and not yet written. `Chosen` adds
it: at every point where a task may still put its job's duty on the fan, the job's sample is usable and
its target at or above that sample's floor. Other tasks cannot disturb that, because a task's job is its own (`Only`).
`HwStep` says what any step can do to the fan: nothing, give it back, leave it at an unverified duty, or write what was
decided; with `SettleMonotone` (the quantization keeps order) the floor follows.

`GuardedTakeover` counts failures. `Attended` follows an unverified takeover across the process's life: while it runs, some
task is about to write, or about to release after one counted failure; a dead process owes the restore binary's release, a restarted
one the reclaim, and to get past either costs another failure.

`RestoreNotOrphaned` needs the signals in flight: every announced sleep has its wake behind it, in the queue, in the resume flag or in the tick's local (`Awaited`), so that an
armed restore is always somebody's next business. `NeverStalled` needs the same of decisions that `NeverBelowFloor` does: a task past `take_manual`'s check has a target that turns the fan (`Aimed`), and
the quantization does not take that away (`SettleTurns`).

`FloorLearning_proofs` (under `FloorAssumption` and `LearningAssumption`, for any file left by an older version):

| Theorem | Property | Argument |
|---|---|---|
| `TypeCorrect` | `TypeOK` | inductive as it is |
| `FloorCovers` | `FloorCoversFirmware` | strengthened by `Covered`, `FileCovers`, `ShotCovers` |
| `FloorRemembers` | `FloorIsMemory` | step simulation from `TypeOK`: every action is one of FloorMemory's or a stutter |
| `NativeFloor` | `NoForeignFloor` | strengthened to `OriginInv`: where the file and the snapshot come from |
| `NothingUnsaved` | `SavedMeansSaved` | strengthened by `savedRevision <= floor.revision` |
| `RoundTrip` | | writing a floor and reading it back loses nothing |

What was heard must survive three places: the floor (`Covered`), shutdown's snapshot (`ShotCovers`) and the file (`FileCovers`), where it is
a pair of a bucket's low edge and a duty. `RestoredFacts` brings it back from there, `ObserveFacts` keeps it in the floor.
`SavedMeansSaved` alone is not inductive: a saved revision ahead of the floor's would be reached again, by something else. The refinement rests on `RoundTrip` wherever
a floor goes through the file.

The other six (`PowerProfiles_proofs`, `ChargeLimit_proofs`, `ProfileStore_proofs`, `FanDemand_proofs` for curves and thermal limits, `PowerTelemetry_proofs`,
`GtkClient_proofs` for the editor and the controls):

| Theorem | Property | Argument |
|---|---|---|
| `WholeProfileSafe` | `WholeProfile` | `Base`, `WholeInv` |
| `ChoiceStaysSafe` | `ChoiceStays` | with them, `ChoiceInv` |
| `LimitIsChosenSafe` | `LimitIsChosen` | `Base`, `LimitInv`, `Correcting` |
| `ChargeIsChosenSafe` | `ChargeIsChosen` | `ChargeInv` |
| `ChargeLimitSafe` | `ChargeLimitHolds` | `HoldInv` |
| `BuiltInsSafe` | `BuiltInsKnown` | `StoreType` |
| `KnownSafe` | `KnownIsWhatLoads` | `AlikeInv` |
| `TablesReachSafe` | `TablesReachFirmware` | `Machine`, from `BoardsAscend` |
| `HotterSafe` | `HotterAsksMore` | `Machine`, from `BoardsAscend` |
| `RampSafe` | `RampBounded` | from `CurveTypeOK` and the type of `DutyAt` |
| `WattsSafe` | `WattsAreTrue` | `Linked` |
| `IdleFloorSafe` | `IdleFloorConfirmed` | `Pending` |
| `AddedSafe` | `AddedIsValid` | `PointsInv` |
| `DrawnSafe` | `DrawnIsKept` | `DrawnInv` |
| `NoJumpBackSafe`, `SidesKeptSafe` | `NoJumpBack`, `SidesKept` | `GuiInv` |

- `WholeProfile` speaks of a daemon at rest and is not inductive: an application moves the slider, the register, the curve and the record one after the other. `WholeInv` says how far it
  has got (`Underway`), that a slider which is elsewhere is still to be followed, by the watcher or the poll task (`Followed`), and that two applications at work at once have been
  noted in the history (`past.overlap`).
- `ChoiceStays` needs to know why nothing will change the choice. It is in the file; the only change of the slider on its way is the daemon's own echo (`Quietly`), which is filtered because
  it is the position asked for; and all that a start makes the poll task do is to apply the choice again, with its watts on top (`Reapplied`). That a position's
  canonical profile names that position (`ProfileAssumption`) is needed, and is what a save under a built-in's name can break.
- `LimitIsChosen` is about the register; what is recorded will be written to it. So every recorded value, in memory, in the file, in the loop's copies and on its
  way there, is chosen or not writable (`Recorded`). The theorem assumes `Narrow`: the zone's maximum is below 80 W, ten times `MIN_WATTS`, and the first state file is sound. Then
  a number cut short is always below `MIN_WATTS` and refused. On a zone of 80 W or more it would not be true: 100 cut to 10 could be written. The measured zone is 25 W (docs/hardware-baseline.md:224);
  `power.rs:42` accepts up to 200.
- `ChargeIsChosen` likewise: every operation carries a chosen percentage, and a cut number is below 20 and refused. A maximum of 100 cut to 10 is too, so no assumption is needed.
- `WattsAreTrue` needs that the last reading and the counter differ by what was drawn, or by that and one whole range (`Linked`), which holds while the gap is short enough to be used, because
  the fastest draw cannot exhaust the range within it (`TelemetryAssumption`).
- `ChargeLimitHolds` is about the moments between operations. `HoldInv` says what an operation that overlaps no other may rely on: it is the only one, it compares with
  what is recorded, and it records only once the EC has what it wants.
- `IdleFloorConfirmed` needs that a block waiting for its confirmation is the latest one and was below the floor (`Pending`).
- `BuiltInsKnown` and `KnownIsWhatLoads` treat a list of profiles as the set of its members, no two of one name (`Lists`): `PutFacts`, `RetainedFacts` and `ConcatFacts` say what the
  operations of the code make of that set. What a start loads is a recursive function over the files; `Chain` gives its values and `Upwards`, induction over a set of numbers, its
  facts: with every file in place it loads the valid files and, for the other names, the built-ins (`LoadMembers`). `AlikeInv` then covers the time in which calls have changed their file
  and not yet `known`: each has a name of its own, its file is as it wants it, and all other names are known as they would load (`Apart`). A start with a misnamed file is the
  other case (`Fresh`), until something is written.
- `TablesReachFirmware` and `HotterAsksMore` hold of any board whose tables are `Sound`: both columns ascend, the fan's starts at rest and ends within a duty, and
  firmware's ends below the temperature of full duty. That the two boards' numbers are is one evaluation (`BoardsAscend`). The rest is interpolation: which segment a value falls into
  (`SegmentIs`), that a segment keeps order and stays between its ends (`LerpFacts`, `LerpMonotone`), that rounding the duty up undoes rounding the speed down (`DutyReaches`), and that
  the ends of tables, the fallbacks and the limits keep order where they meet (`RpmMonotone`, `DutyMonotone`, `PackFloorMonotone`, `LimitsMonotone`).
- `AddedIsValid` needs the points to be of their types whatever edits, snapshots and other clients made them; then the first widest gap exists (`WidestFacts`), its middle lies strictly
  between two neighbours and is a legal duty (`SplitIsValid`), and a point past the top is above it (`BeyondIsValid`). `EditorAssumption` says that other clients' curves are valid,
  which the daemon checks (`Curve::new`).
- `DrawnIsKept` needs that what is drawn is either unsent (`dirty`) or what the last Apply has sent. `NoJumpBack` needs the order of data: what the daemon holds, the snapshot and the
  place in the channel are each no newer than the one before (`InOrder`), a queue in which some command has the choice has it in every later one (`Sound`), and until everything known is as wished
  the control is held (`Keeps`). `SidesKept` needs that a side is as wished or the last command with it will make it so, whatever earlier ones carry (`Coming`).

Every invariant and every action property of a passing run is a theorem. Only model-checked is what needs fairness: `WatchdogReturnsFan`, `CrashReturnsFan`, `RestoreRuns`,
`FloorHoldsWhenQuiet`, `LimitEnforced`, `SettlesOnCurve`, `PpdFollowedAtLast`, `WindowAgreesAtLast`. They are beyond the prover, which has neither fairness nor ENABLED.

## Limits

Of the lease and the floor:

- logind's own five-second limit on delay locks is not modelled; with it a suspend may overtake even a correct release.
- An Inhibit call during a suspend fails (`LockTaken`); whether it is granted otherwise is a fault of the model.
- Shutdown's save of the floor before the release is in FloorLearning and not in FanLease; there it would delay the release by a file write.
- Drop of the lease never runs at exit: other tasks still hold references to it, and main returns.
- A board that is not in `board.rs` is refused in `write`; FanLease is of measured boards.
- The mutexes around floor and curve are held for computations only and never across a hardware operation; they are not modelled, and neither is their poisoning.
- A failed *read* of `pwm1_enable`, a save of the floor that fails, and a board name that becomes unreadable between start and save.
- The floor's own lines of a state file that was cut short: FloorLearning reads and writes them whole, although state.rs:151 truncates and then writes.

Of the rest:

- PowerProfiles takes PPD to be there and to answer and a fixed set of profiles; a profile's charge limit is ChargeLimit's. It assumes that a position's canonical profile names that
  position (`ProfileAssumption`); SaveProfile under a built-in's name while the slider is elsewhere breaks that (iface.rs:492), and the slider then applies a profile of another position.
- `apply_profile` writes a profile's charge limit without recording it, so the next resume goes back to the recorded one: `ChargeLimitHolds` leaves it out (`parted`).
- `record_profile` records watts also where the machine has no PL1; the models have one.
- On AMD the ceiling follows from the sensor's critical point, 97.85 - 15 = 82.85 degrees, below the temperature of full duty (docs/hardware-baseline-amd.md:93-100 knows it): see `thermal_order`
  under [Further configurations](#further-configurations).
- A debugging ceiling below -15 degrees (`FW_HELPERD_DEBUG_CEILING_C`) falls back to 97 degrees; debugging variables are not modelled.

Behaviour that is in the models and that a property leaves out by a flag of its history, so that no run speaks of it: applications of profiles that overlap or fail half-way (`past.parted`
of `WholeProfile`), a choice before the first tick or while a slider move is outstanding (`Undisputed` of `ChoiceStays`), overlapping writers of the charge limit (`parted`), profiles saved and deleted
under one name at once, half-written or misnamed files (`astray` of `KnownIsWhatLoads`; `BuiltInsKnown` does cover them), PPD that comes between probe and subscription or answers late (`missed`), a
snapshot during an Apply (`replaced`), and refusals, changes elsewhere and expired waits of a control (`disturbed`). Where the repository promises otherwise, a violated property says so, in the
runs or in the further configurations; where it promises nothing, there is none.

Known to be in the models and covered by no property, because what the code should do there is a question for its authors: a request made between a wake and the restore of the same tick is overwritten
by the restore (fan.rs:723); a suspend's note racing release() arms a restore again (fan.rs:693); a second suspend announced before the delay lock is
taken again (logind.rs:122); shutdown's snapshot put over a newer save of the poll task (iface.rs); a span credited across a takeover (main.rs:470); SaveProfile asking PPD first and
reading the register and the curve afterwards, so that what it captures may be of two profiles.

### Not modelled

Sysfs access (reading and writing text files), the polkit protocol, the capability probe and the D-Bus encoding (stateless conversions), the command-line client, the applet and the client
library (one call per invocation), the drawing of the GTK client with its labels, banners and profile list, the text of profile files and curves,
the fallback of the PPD axis to `platform_profile` and the charge limit's mirror in sysfs (one write each, read back by nobody), and `ChargeControl` of core's
`charge.rs`, which has no caller. `PROJECT.json` has each with its component.

## Plan

Done, in this order: `FanDuty`, `FanLease`; `FirmwareFloor`, `FloorLearning`; `StateFile`, `PowerProfiles`; `FanCurve`, `CurveEngine`, `ThermalLimits`, `PowerTelemetry`; `ChargeLimit`,
`PpdAdoption`, `ProfileStore`; `CurveEditor`, `GuiControls`; `FloorMemory` and the refinement; the proofs above.

Left, and why: an abstract specification of the lease (the fan is firmware's, or a task's that has decided), which its race on `held` (`ManualIsHeld`) makes false as it
stands; PpdAdoption and PowerProfiles in one model, whose
product is out of TLC's reach within a useful time.

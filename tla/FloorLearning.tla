--------------------------- MODULE FloorLearning ---------------------------
(***************************************************************************)
(* How the daemon learns the firmware floor, keeps it across restarts and   *)
(* carries it, or not, to another machine: govern_fan's learning half and   *)
(* the periodic save of poll_loop (main.rs), the save at shutdown, save_    *)
(* floor (iface.rs), floor_applies (state.rs), firmware_duty (fan.rs).      *)
(*                                                                         *)
(* The tick asks whether the lease is held, and only then reads a duty and  *)
(* records it; other tasks take and give back the fan between the two.  Of  *)
(* the lease this module keeps what the learner can see, the hardware and   *)
(* `held`, and the order in which a take and a release change them, one     *)
(* task at a time (FanLease has the rest).  Shutdown takes what there is to *)
(* save, waits for the interface and writes it, while the poll task goes on *)
(* learning and saving.                                                     *)
(*                                                                         *)
(* Abstractions.  The state file is written and read whole, and holds the   *)
(* floor only; the daemon's copy of it in memory equals it.  The interval   *)
(* between saves is any number of ticks.                                    *)
(***************************************************************************)
EXTENDS FirmwareFloor

CONSTANTS
  Board,          \* DMI board names
  NoBoard,        \* a floor recorded without one (before the field existed)
  Profile,        \* Profile[b]: the measured profile b resolves to, or NoProfile
  NoProfile,
  LegacyProfile,  \* the profile floors without a board were learned on
  Hysteretic,     \* profiles whose firmware curve depends on direction
  Reporting,      \* boards with pwm1: the duty can be read, whoever chose it
  FirmwareDuty,   \* duties firmware may run at
  CallDuty,       \* duties the daemon may write
  NoDuty,         \* no duty could be read
  LegacyFloor,    \* observations a state file may hold before the first start
  MaxTicks,       \* bound: ticks of the poll task
  MaxCalls,       \* bound: takes and releases by D-Bus calls
  MaxStarts       \* bound: starts of the daemon

ASSUME LearningAssumption ==
  /\ NoBoard \notin Board
  /\ LegacyProfile # NoProfile
  /\ FirmwareDuty \subseteq Duty /\ CallDuty \subseteq Duty
  /\ NoDuty \notin Duty
  /\ LegacyFloor \subseteq Int \X Duty
  /\ MaxTicks \in Nat /\ MaxCalls \in Nat /\ MaxStarts \in Nat

VARIABLES
  board,          \* the machine the disk is in
  proc,           \* "off", "up", or in shutdown: "saving", then "saved"
  file,           \* the state file: the floor, and the board it was learned on
  floor,          \* FirmwareFloor
  savedRevision,  \* poll_loop's saved_floor_revision
  past,           \* Govern: celsius and duty of the last tick
  dir,            \* Govern: direction
  tick,           \* the tick between its question and its observation
  fan,            \* what the EC does, and the duty it was given
  held,           \* FanLease::held
  call,           \* a D-Bus call: it has taken or released, not yet marked it
  shot,           \* what shutdown is about to save, with its history
  hist,           \* history: the loudest firmware was heard at each temperature, and
                  \* the profiles what is known comes from; both also as saved
  budget          \* counters behind the Max* bounds

vars == <<board, proc, file, floor, savedRevision, past, dir, tick, fan, held,
          call, shot, hist, budget>>

Sample == Celsius \cup {NoTemp}
Firmware == [owner |-> "firmware", duty |-> 0]
Manual(d) == [owner |-> "manual", duty |-> d]
NoTick == [at |-> "idle", celsius |-> NoTemp, rising |-> FALSE]
NoPast == [celsius |-> NoTemp, duty |-> NoDuty]
NothingHeard == [c \in Celsius |-> Unseen]
Running == proc \in {"up", "saving", "saved"}
NoShot == [floor |-> {}, heard |-> NothingHeard, origin |-> {}]
Origin == {Profile[b] : b \in Board} \cup {LegacyProfile}

TypeOK ==
  /\ board \in Board
  /\ proc \in {"off", "up", "saving", "saved"}
  /\ file \in [floor : SUBSET (Int \X Duty), board : Board \cup {NoBoard}]
  /\ floor \in [duty : [Bucket -> Observation], revision : Nat]
  /\ savedRevision \in Nat
  /\ past \in [celsius : Sample, duty : Duty \cup {NoDuty}]
  /\ dir \in [rising : BOOLEAN, extreme : Sample]
  /\ tick \in [at : {"idle", "observe"}, celsius : Sample, rising : BOOLEAN]
  /\ fan \in [owner : {"firmware", "manual"}, duty : Duty]
  /\ held \in BOOLEAN
  /\ call \in {"idle", "taken", "freed"}
  /\ shot \in [floor : SUBSET (Int \X Duty), heard : [Celsius -> Observation],
               origin : SUBSET Origin]
  /\ hist \in [heard : [Celsius -> Observation], origin : SUBSET Origin,
               saved : [Celsius -> Observation], savedOrigin : SUBSET Origin]
  /\ budget \in [ticks : Nat, calls : Nat, starts : Nat]
-----------------------------------------------------------------------------
(* The process *)

\* Mutant: any measured board takes any floor.
AppliesAnywhere(b) == Profile[board] # NoProfile

\* floor_applies: only between boards of one measured profile.
Applies(b) ==
  /\ Profile[board] # NoProfile
  /\ Profile[board] = IF b = NoBoard THEN LegacyProfile ELSE Profile[b]

\* What a process begins with, and what is left when there is none.
NoMemory ==
  /\ savedRevision' = 0
  /\ past' = NoPast /\ dir' = ColdDirection /\ tick' = NoTick
  /\ fan' = Firmware /\ held' = FALSE /\ call' = "idle" /\ shot' = NoShot

Know(f, heard, origin) ==
  /\ floor' = f
  /\ hist' = [hist EXCEPT !.heard = heard, !.origin = origin]

\* main, up to the first tick.
Start ==
  /\ proc = "off" /\ budget.starts < MaxStarts
  /\ proc' = "up"
  /\ IF Applies(file.board)
     THEN Know(Restored(file.floor), hist.saved, hist.savedOrigin)
     ELSE Know(FreshFloor, NothingHeard, {})
  /\ NoMemory
  /\ budget' = [budget EXCEPT !.starts = @ + 1]
  /\ UNCHANGED <<board, file>>

\* floor_snapshot, and save_floor called with what it returned.
Snapshot == [floor |-> Observations(floor), heard |-> hist.heard,
             origin |-> hist.origin]

SaveFloor(s) ==
  /\ file' = [floor |-> s.floor, board |-> board]
  /\ hist' = [hist EXCEPT !.saved = s.heard, !.savedOrigin = s.origin]

\* Shutdown looks at what there is to save, if anything, ...
ShutdownSnapshot ==
  /\ proc = "up"
  /\ \/ Snapshot.floor # {} /\ proc' = "saving" /\ shot' = Snapshot
     \/ Snapshot.floor = {} /\ proc' = "saved" /\ UNCHANGED shot
  /\ UNCHANGED <<board, file, floor, savedRevision, past, dir, tick, fan, held,
                 call, hist, budget>>

\* ... and writes that, before it releases and leaves; the poll task goes on until
\* it is gone.
ShutdownSave ==
  /\ proc = "saving"
  /\ proc' = "saved"
  /\ SaveFloor(shot)
  /\ UNCHANGED <<board, floor, savedRevision, past, dir, tick, fan, held, call,
                 shot, budget>>

\* The process ends, after its shutdown or by a signal at any point; systemd gives
\* the fan back.
Stop ==
  /\ Running
  /\ proc' = "off"
  /\ Know(FreshFloor, NothingHeard, {})
  /\ NoMemory
  /\ UNCHANGED <<board, file, budget>>

\* The disk moves to another machine.
Move ==
  /\ proc = "off"
  /\ \E b \in Board \ {board} : board' = b
  /\ UNCHANGED <<proc, file, floor, savedRevision, past, dir, tick, fan, held,
                 call, shot, hist, budget>>
-----------------------------------------------------------------------------
(* Calls, suspend, watchdog, shutdown: the hardware first, `held` after it *)

Calls ==
  /\ budget.calls < MaxCalls
  /\ budget' = [budget EXCEPT !.calls = @ + 1]

\* FanLease::write, by a task that has decided on d.  A failed one releases, which
\* may fail too, and leaves `held` alone.
Take ==
  /\ Running /\ call = "idle" /\ Calls
  /\ \E d \in CallDuty :
       \/ fan' = Manual(d) /\ call' = "taken"
       \/ fan' \in {Firmware, fan, Manual(d)} /\ UNCHANGED call
  /\ UNCHANGED <<board, proc, file, floor, savedRevision, past, dir, tick, held,
                 shot, hist>>

\* FanLease::release_now, whose release may fail.
GiveBack ==
  /\ Running /\ call = "idle" /\ Calls
  /\ fan' \in {Firmware, fan}
  /\ call' = "freed"
  /\ UNCHANGED <<board, proc, file, floor, savedRevision, past, dir, tick, held,
                 shot, hist>>

Mark ==
  /\ Running /\ call # "idle"
  /\ held' = (call = "taken")
  /\ call' = "idle"
  /\ UNCHANGED <<board, proc, file, floor, savedRevision, past, dir, tick, fan,
                 shot, hist, budget>>
-----------------------------------------------------------------------------
(* The poll task *)

\* The periodic save, at most once an interval and only for a new revision.
PollSave ==
  /\ Running /\ tick.at = "idle"
  /\ floor.revision # savedRevision /\ Snapshot.floor # {}
  /\ SaveFloor(Snapshot)
  /\ savedRevision' = floor.revision
  /\ UNCHANGED <<board, proc, floor, past, dir, tick, fan, held, call, shot,
                 budget>>

\* firmware_curve_hysteretic: assumed where the board is not known.
DependsOnDirection ==
  Profile[board] = NoProfile \/ Profile[board] \in Hysteretic

Ticks ==
  /\ budget.ticks < MaxTicks
  /\ budget' = [budget EXCEPT !.ticks = @ + 1]

\* govern_fan up to its question: a sample arrives, the lease is not held.
Govern ==
  /\ Running /\ tick.at = "idle" /\ ~held
  /\ Ticks
  /\ \E c \in Sample :
       /\ dir' = Update(dir, c)
       /\ tick' = [at |-> "observe", celsius |-> c,
                   rising |-> (c # NoTemp /\ dir'.rising) \/ ~DependsOnDirection]
  /\ UNCHANGED <<board, proc, file, floor, savedRevision, past, fan, held, call,
                 shot, hist>>

\* govern_fan when it is: enforce_floor, which leaves the fan alone, writes a duty,
\* fails and releases, or gives the fan back, always without a sample.  What was last
\* read of firmware's duty stays.
Enforce ==
  /\ Running /\ tick.at = "idle" /\ held
  /\ Ticks
  /\ \E c \in Sample :
       /\ dir' = Update(dir, c)
       /\ past' = [past EXCEPT !.celsius = c]
       /\ \/ c # NoTemp /\ fan' \in {fan, Firmware} \cup {Manual(d) : d \in CallDuty}
             /\ UNCHANGED held
          \/ fan' \in {Firmware, fan} /\ held' = FALSE
  /\ UNCHANGED <<board, proc, file, floor, savedRevision, tick, call, shot, hist>>

\* firmware_duty: pwm1 where there is one, and then whoever chose it; otherwise
\* from firmware's target speed.  The register may be unreadable or dead.
Readable ==
  (IF board \in Reporting /\ fan.owner = "manual"
   THEN {fan.duty} ELSE FirmwareDuty) \cup {NoDuty}

\* The start of the span a sample at c with duty d speaks for: the last sample, if
\* firmware ran the same duty there.
From(c, d) ==
  IF past.celsius # NoTemp /\ past.duty # NoDuty /\ past.duty = d
  THEN past.celsius ELSE c

\* What the history makes of it.
Heard(c, d) ==
  IF d # NoDuty /\ c # NoTemp /\ tick.rising /\ Tracked(c)
     /\ fan.owner = "firmware" /\ hist.heard[c] < d
  THEN [hist.heard EXCEPT ![c] = d] ELSE hist.heard

Recorded(c, d) == tick.rising /\ Span(From(c, d), c) # {}

\* The rest of govern_fan.
Observe ==
  /\ Running /\ tick.at = "observe"
  /\ tick' = NoTick
  /\ \E d \in Readable :
       LET c == tick.celsius IN
       IF c # NoTemp /\ d # NoDuty
       THEN /\ floor' = ObserveSpan(floor, From(c, d), c, d, tick.rising)
            /\ past' = [celsius |-> c, duty |-> d]
            /\ hist' = [hist EXCEPT
                 !.heard = Heard(c, d),
                 !.origin = IF Recorded(c, d) THEN @ \cup {Profile[board]} ELSE @]
       ELSE /\ past' = [celsius |-> c, duty |-> NoDuty]
            /\ UNCHANGED <<floor, hist>>
  /\ UNCHANGED <<board, proc, file, savedRevision, dir, fan, held, call, shot,
                 budget>>
-----------------------------------------------------------------------------
\* A state file of an older version: no board, perhaps damaged.
Init ==
  /\ board \in Board
  /\ proc = "off"
  /\ file \in {[floor |-> f, board |-> NoBoard] : f \in {{}, LegacyFloor}}
  /\ floor = FreshFloor
  /\ savedRevision = 0
  /\ past = NoPast /\ dir = ColdDirection /\ tick = NoTick
  /\ fan = Firmware /\ held = FALSE /\ call = "idle" /\ shot = NoShot
  /\ hist = [heard |-> NothingHeard, origin |-> {},
             saved |-> NothingHeard, savedOrigin |-> {LegacyProfile}]
  /\ budget = [ticks |-> 0, calls |-> 0, starts |-> 0]

Next ==
  \/ Start \/ ShutdownSnapshot \/ ShutdownSave \/ Stop \/ Move
  \/ Take \/ GiveBack \/ Mark
  \/ PollSave \/ Govern \/ Enforce \/ Observe

Spec == Init /\ [][Next]_vars
-----------------------------------------------------------------------------
(* Properties *)

\* floor.rs: the floor is "observed, not modelled".  Whatever firmware was heard
\* running at a temperature, the floor there is no lower, through later samples,
\* spans, saves and restarts.  Saves are whole here: state.rs:151 truncates the file and then
\* writes it, and a crash in between would lose what was heard.
FloorCoversFirmware ==
  Running => \A c \in Celsius : FloorDuty(floor, c) >= hist.heard[c]

\* floor.rs: "floors only ever rise" (Direction), and what is learned outlives the
\* process: while it lives no sample, however quiet, takes anything back, what is saved
\* is what is known then or, by shutdown, a moment earlier, and the next start knows
\* exactly what was saved, a bucket firmware was silent in included, or nothing.  The
\* restart, the file's format and the three that save it implement FloorMemory.
Memory == INSTANCE FloorMemory WITH
            Place <- Bucket, Level <- Observation, Nothing <- Unseen,
            alive <- Running, known <- floor.duty,
            kept <- Restored(file.floor).duty, copy <- Restored(shot.floor).duty
FloorIsMemory == Memory!MemorySpec

\* state.rs: "a floor learned on one board would bound the fan on the next".  All
\* that is in use was learned on a board of this machine's profile, wherever the
\* disk has been and whatever was saved on the way.
NoForeignFloor == Running => hist.origin \subseteq {Profile[board]}

\* poll_loop saves "only when the revision has actually moved": so a revision that
\* was saved stands for everything that is known, as long as no older snapshot of
\* shutdown's has been written over it.
SavedMeansSaved ==
  proc \in {"up", "saving"} /\ savedRevision # 0 /\ savedRevision = floor.revision =>
    file = [floor |-> Observations(floor), board |-> board]
-----------------------------------------------------------------------------
(* A statement of the repository that the code does not keep *)

\* observe (fan.rs): "Call only while the EC owns the fan: under manual control
\* pwm1 is our own duty, and feeding it back would ratchet the floor up to whatever
\* we last chose."
OnlyFirmwareIsLearned ==
  [][Running /\ proc' # "off" /\ board \in Reporting /\ floor' # floor =>
       fan.owner = "firmware"]_vars
=============================================================================

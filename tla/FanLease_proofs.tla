--------------------------- MODULE FanLease_proofs ---------------------------
(***************************************************************************)
(* Safety of FanLease for every set of clients, samples, floors, requests   *)
(* and every bound, on both kinds of board.                                 *)
(***************************************************************************)
EXTENDS FanLease, SequenceTheorems, TLAPS

-----------------------------------------------------------------------------
(* The quantization *)

\* What the EC settles on is a duty.
LEMMA SettleType == ASSUME NEW d \in Duty PROVE Settle(d) \in Duty
  BY DEF Settle, PercentToDuty, DutyToPercent, Duty

\* Quantization keeps order, so a duty clamped to a floor does not settle below
\* what the floor itself would settle at.
LEMMA SettleMonotone ==
  ASSUME NEW c \in Duty, NEW d \in Duty, c <= d
  PROVE  Settle(c) <= Settle(d)
  BY DEF Settle, PercentToDuty, DutyToPercent, Duty
-----------------------------------------------------------------------------
(* Type correctness *)

\* The roles a task can have.
LEMMA TaskFacts ==
  /\ "poll" \in Task /\ "sleep" \in Task
  /\ "watchdog" \in Task /\ "main" \in Task
  /\ \A c \in Client : c \in Task
  BY DEF Task

\* Moving one task to a label.
LEMMA GotoType ==
  ASSUME pc \in [Task -> Label], NEW a, NEW l \in Label, Goto(a, l)
  PROVE  pc' \in [Task -> Label]
  BY DEF Goto

\* A finished operation has somewhere to continue.
LEMMA AfterType == ASSUME NEW a PROVE After(a) \in Label
  BY DEF After, Label

\* The empty job.
LEMMA NoJobType == NoJob \in JobType
  BY DEF NoJob, JobType, Op, Sample, Duty

\* Forgetting a job.
LEMMA NoJobStep ==
  ASSUME job \in [Task -> JobType], NEW a,
         job' = [job EXCEPT ![a] = NoJob]
  PROVE  job' \in [Task -> JobType]
  BY NoJobType

\* Finishing an operation.
LEMMA ReturnType ==
  ASSUME pc \in [Task -> Label], job \in [Task -> JobType], NEW a, Return(a)
  PROVE  pc' \in [Task -> Label] /\ job' \in [Task -> JobType]
  BY AfterType, GotoType, NoJobStep DEF Return

\* Starting one.
LEMMA BeginType ==
  ASSUME pc \in [Task -> Label], job \in [Task -> JobType],
         NEW a, NEW o \in Op, NEW want \in Duty,
         NEW t \in Sample, NEW target \in Duty, NEW l \in Label,
         Begin(a, o, want, t, target, l)
  PROVE  pc' \in [Task -> Label] /\ job' \in [Task -> JobType]
<1>1. pc' \in [Task -> Label]
  BY GotoType DEF Begin
<1>2. [op |-> o, want |-> want, therm |-> t, target |-> target] \in JobType
  BY DEF JobType
<1> QED
  BY <1>1, <1>2 DEF Begin

\* The clamp yields a duty at or above the floor.
LEMMA ClampFacts ==
  ASSUME NEW t \in Usable, NEW want \in Duty
  PROVE  /\ Clamp(want, t) \in Duty
         /\ Floor[t] \in Duty
         /\ Floor[t] <= Clamp(want, t)
  BY LeaseAssumption DEF Clamp, Higher, Usable, Duty

\* FanLease::set_duty up to its write.
LEMMA SetDutyType ==
  ASSUME pc \in [Task -> Label], job \in [Task -> JobType],
         NEW a, NEW o \in Op, NEW want \in Duty,
         NEW t \in Sample, NEW l \in Label, SetDuty(a, o, want, t, l)
  PROVE  pc' \in [Task -> Label] /\ job' \in [Task -> JobType]
<1>1. CASE Refused(t)
  BY <1>1, GotoType, NoJobStep DEF SetDuty
<1>2. CASE ~Refused(t)
  <2>1. t \in Usable
    BY <1>2 DEF Refused
  <2>2. Begin(a, o, want, t, Clamp(want, t), "mode")
    BY <1>2 DEF SetDuty
  <2> QED
    BY <2>1, <2>2, ClampFacts, BeginType DEF Label
<1> QED
  BY <1>1, <1>2

\* The values written to the hardware variable.
LEMMA HwTypes ==
  /\ Firmware \in HwType
  /\ \A d \in Duty, t \in Sample : Held(d, t) \in HwType
  BY DEF Firmware, Held, HwType, Sample, Duty

\* Counting a bounded event.
LEMMA SpendType ==
  ASSUME budget \in BudgetType, NEW what, Spend(what)
  PROVE  budget' \in BudgetType
  BY DEF BudgetType, Spend

\* The process starts in a typed state.
LEMMA TypeInit == Init => TypeOK
<1> SUFFICES ASSUME Init PROVE TypeOK
  OBVIOUS
<1>1. host \in HostType
  BY DEF Init, HostType
<1>2. lease \in LeaseType
  BY DEF Init, FreshLease, LeaseType, Duty
<1>3. pc \in [Task -> Label] /\ job \in [Task -> JobType]
  BY NoJobType DEF Init, Label
<1>4. tick \in TickType /\ latest \in Sample /\ budget \in BudgetType
  BY DEF Init, TickType, Sample, BudgetType
<1> QED
  BY <1>1, <1>2, <1>3, <1>4, HwTypes DEF Init, TypeOK

\* A step of a lease operation keeps the types.
LEMMA TypeLeaseStep ==
  ASSUME TypeOK, NEW a \in Task, LeaseStep(a)
  PROVE  TypeOK'
<1>t. /\ pc \in [Task -> Label] /\ job \in [Task -> JobType]
      /\ hw \in HwType /\ lease \in LeaseType /\ budget \in BudgetType
  BY DEF TypeOK
<1>j. /\ job[a].want \in Duty /\ job[a].therm \in Sample
      /\ job[a].target \in Duty
  BY <1>t DEF JobType
<1>s. /\ Held(Settle(job[a].target), job[a].therm) \in HwType
      /\ Held(Settle(job[a].target), NoTemp) \in HwType
      /\ Held(0, NoTemp) \in HwType
  <2>1. NoTemp \in Sample /\ 0 \in Duty
    BY DEF Sample, Duty
  <2> QED
    BY <1>j, <2>1, SettleType, HwTypes
<1>1. CASE WriteMode(a)
  <2>1. lease' \in LeaseType
    BY <1>1, <1>t DEF WriteMode, LeaseType
  <2>2. pc' \in [Task -> Label] /\ job' \in [Task -> JobType]
    BY <1>1, <1>t, GotoType, ReturnType DEF WriteMode, Label
  <2> QED
    BY <1>1, <2>1, <2>2 DEF TypeOK, WriteMode, outside
<1>2. CASE TakeMode(a)
  <2>1. hw' \in HwType /\ budget' \in BudgetType
    BY <1>2, <1>t, <1>s, SpendType DEF TakeMode
  <2>2. pc' \in [Task -> Label] /\ job' \in [Task -> JobType]
    BY <1>2, <1>t, GotoType, ReturnType DEF TakeMode, Label
  <2> QED
    BY <1>2, <2>1, <2>2 DEF TypeOK, TakeMode, outside
<1>3. CASE TakeWrite(a)
  <2>1. hw' \in HwType /\ budget' \in BudgetType
    BY <1>3, <1>t, <1>s, SpendType DEF TakeWrite
  <2>2. pc' \in [Task -> Label]
    BY <1>3, <1>t, GotoType DEF TakeWrite, Guard, Label
  <2> QED
    BY <1>3, <2>1, <2>2 DEF TypeOK, TakeWrite, outside
<1>4. CASE SetHeld(a)
  <2>1. hw' \in HwType /\ budget' \in BudgetType
    BY <1>4, <1>t, <1>s, SpendType DEF SetHeld
  <2>2. pc' \in [Task -> Label] /\ job' \in [Task -> JobType]
    BY <1>4, <1>t, GotoType, ReturnType DEF SetHeld, Guard, Label
  <2> QED
    BY <1>4, <2>1, <2>2 DEF TypeOK, SetHeld, outside
<1>5. CASE Book(a)
  <2>1. lease' \in LeaseType
    BY <1>5, <1>t, <1>j DEF Book, LeaseType
  <2>2. pc' \in [Task -> Label] /\ job' \in [Task -> JobType]
    BY <1>5, <1>t, GotoType, ReturnType DEF Book, Label
  <2> QED
    BY <1>5, <2>1, <2>2 DEF TypeOK, Book, outside
<1>6. CASE Store(a)
  <2>1. lease' \in LeaseType
    BY <1>6, <1>t, <1>j DEF Store, LeaseType
  <2> QED
    BY <1>6, <1>t, <2>1, ReturnType DEF TypeOK, Store, outside
<1>7. CASE ReleaseHw(a)
  <2>1. hw' \in HwType /\ budget' \in BudgetType
    BY <1>7, <1>t, HwTypes, SpendType DEF ReleaseHw
  <2>2. pc' \in [Task -> Label] /\ job' \in [Task -> JobType]
    BY <1>7, <1>t, GotoType, ReturnType DEF ReleaseHw, Label
  <2> QED
    BY <1>7, <2>1, <2>2 DEF TypeOK, ReleaseHw, outside
<1>8. CASE Unmark(a)
  <2>1. lease' \in LeaseType
    BY <1>8, <1>t DEF Unmark, LeaseType
  <2>2. pc' \in [Task -> Label] /\ job' \in [Task -> JobType]
    BY <1>8, <1>t, GotoType, ReturnType DEF Unmark, Label
  <2> QED
    BY <1>8, <2>1, <2>2 DEF TypeOK, Unmark, outside
<1>9. CASE Drop(a)
  <2>1. lease' \in LeaseType
    BY <1>9, <1>t DEF Drop, LeaseType
  <2> QED
    BY <1>9, <1>t, <2>1, ReturnType DEF TypeOK, Drop, outside
<1> QED
  BY <1>1, <1>2, <1>3, <1>4, <1>5, <1>6, <1>7, <1>8, <1>9 DEF LeaseStep

\* A D-Bus call's own steps.
LEMMA TypeClient ==
  ASSUME TypeOK, NEW c \in Client, Call(c) \/ Authorized(c) \/ Denied(c)
  PROVE  TypeOK'
<1>t. /\ pc \in [Task -> Label] /\ job \in [Task -> JobType]
      /\ lease \in LeaseType /\ budget \in BudgetType /\ latest \in Sample
  BY DEF TypeOK
<1>c. c \in Task
  BY TaskFacts
<1>0. NoTemp \in Sample /\ 0 \in Duty /\ {"duty", "curve", "auto"} \subseteq Op
  BY DEF Sample, Duty, Op
<1>1. CASE Call(c)
  <2>1. PICK o \in {"duty", "curve", "auto"}, want \in Request :
          Begin(c, o, IF o = "duty" THEN want ELSE 0, NoTemp, 0, "auth")
    BY <1>1 DEF Call
  <2>2. (IF o = "duty" THEN want ELSE 0) \in Duty
    BY <1>0, LeaseAssumption
  <2>3. pc' \in [Task -> Label] /\ job' \in [Task -> JobType]
    BY <2>1, <2>2, <1>t, <1>0, BeginType DEF Label
  <2>4. budget' \in BudgetType
    BY <1>1, <1>t, SpendType DEF Call
  <2> QED
    BY <1>1, <2>3, <2>4 DEF TypeOK, Call, outside
<1>2. CASE Authorized(c)
  <2>1. CASE job[c].op = "duty" /\ SetDuty(c, "duty", job[c].want, latest, "idle")
             /\ UNCHANGED lease
    <3>1. job[c].want \in Duty
      BY <1>t, <1>c DEF JobType
    <3>2. pc' \in [Task -> Label] /\ job' \in [Task -> JobType]
      BY <2>1, <3>1, <1>t, <1>0, SetDutyType DEF Label
    <3> QED
      BY <1>2, <2>1, <3>2 DEF TypeOK, Authorized, outside
  <2>2. ASSUME NEW want \in CurveDuty,
               SetDuty(c, "curve", want, latest, "idle"), UNCHANGED lease
        PROVE  TypeOK'
    <3>1. want \in Duty
      BY LeaseAssumption
    <3>2. pc' \in [Task -> Label] /\ job' \in [Task -> JobType]
      BY <2>2, <3>1, <1>t, <1>0, SetDutyType DEF Label
    <3> QED
      BY <1>2, <2>2, <3>2 DEF TypeOK, Authorized, outside
  <2>3. CASE job[c].op = "auto" /\ Goto(c, "give") /\ UNCHANGED job
             /\ lease' = [lease EXCEPT !.curve = FALSE, !.requested = 0,
                                       !.applied = 0, !.pending = FALSE]
    <3>1. lease' \in LeaseType
      BY <2>3, <1>t, <1>0 DEF LeaseType
    <3>2. pc' \in [Task -> Label]
      BY <2>3, <1>t, GotoType DEF Label
    <3> QED
      BY <1>2, <2>3, <3>1, <3>2 DEF TypeOK, Authorized, outside
  <2> QED
    BY <1>2, <2>1, <2>2, <2>3 DEF Authorized
<1>3. CASE Denied(c)
  BY <1>3, <1>t, ReturnType DEF TypeOK, Denied, outside
<1> QED
  BY <1>1, <1>2, <1>3

\* The poll task's own steps.
LEMMA TypePoll ==
  ASSUME TypeOK, PollStep \/ PollPanic
  PROVE  TypeOK'
<1>t. /\ pc \in [Task -> Label] /\ job \in [Task -> JobType]
      /\ lease \in LeaseType /\ budget \in BudgetType /\ tick \in TickType
      /\ resumed \in BOOLEAN
  BY DEF TypeOK
<1>s. tick.sample \in Sample /\ tick.wake \in BOOLEAN
  BY <1>t DEF TickType
<1>l. /\ lease.requested \in Duty /\ lease.restoreDuty \in Duty
      /\ lease.curve \in BOOLEAN
  BY <1>t DEF LeaseType
<1>0. /\ NoTemp \in Sample /\ 0 \in Duty
      /\ {"curve", "restore", "enforce", "release", "panic"} \subseteq Op
  BY DEF Sample, Duty, Op
<1>1. CASE PollTick
  <2>1. tick' \in TickType
    BY <1>1, <1>s, <1>t DEF PollTick, TickType, Woken
  <2>2. pc' \in [Task -> Label]
    BY <1>1, <1>t, GotoType DEF PollTick, Label
  <2> QED
    BY <1>1, <2>1, <2>2 DEF TypeOK, PollTick
<1>2. CASE PollProfile
  <2>1. PICK want \in CurveDuty :
          SetDuty("poll", "curve", want, tick.sample, "ticked")
    BY <1>2 DEF PollProfile
  <2>2. want \in Duty
    BY LeaseAssumption
  <2>3. pc' \in [Task -> Label] /\ job' \in [Task -> JobType]
    BY <2>1, <2>2, <1>t, <1>s, <1>0, SetDutyType DEF Label
  <2>4. budget' \in BudgetType
    BY <1>2, <1>t, SpendType DEF PollProfile
  <2> QED
    BY <1>2, <2>3, <2>4 DEF TypeOK, PollProfile, outside
<1>3. CASE PollResume
  <2>1. tick' \in TickType
    BY <1>3, <1>t DEF PollResume, TickType
  <2>2. lease' \in LeaseType
    BY <1>3, <1>t DEF PollResume, LeaseType
  <2>3. pc' \in [Task -> Label] /\ job' \in [Task -> JobType]
    BY <1>3, <1>t, <1>s, <1>l, <1>0, SetDutyType, GotoType DEF PollResume, Label
  <2> QED
    BY <1>3, <2>1, <2>2, <2>3 DEF TypeOK, PollResume
<1>4. CASE PollGovern
  <2>1. CASE ~lease.held /\ Goto("poll", "observe") /\ UNCHANGED <<lease, job>>
    BY <1>4, <2>1, <1>t, GotoType DEF TypeOK, PollGovern, outside, Label
  <2>2. CASE UNCHANGED lease /\ Begin("poll", "release", 0, NoTemp, 0, "give")
    BY <1>4, <2>2, <1>t, <1>0, BeginType DEF TypeOK, PollGovern, outside, Label
  <2>3. ASSUME NEW want \in Wanted, ~Refused(tick.sample),
               lease' = [lease EXCEPT !.requested = want],
               \/ Begin("poll", "enforce", want, tick.sample,
                        Clamp(want, tick.sample), "mode")
               \/ Goto("poll", "publish") /\ UNCHANGED job
        PROVE  TypeOK'
    <3>1. want \in Duty
      BY <1>l, LeaseAssumption DEF Wanted
    <3>2. lease' \in LeaseType
      BY <2>3, <3>1, <1>t DEF LeaseType
    <3>3. Clamp(want, tick.sample) \in Duty
      BY <2>3, <3>1, ClampFacts DEF Refused
    <3>4. pc' \in [Task -> Label] /\ job' \in [Task -> JobType]
      BY <2>3, <3>1, <3>3, <1>t, <1>s, <1>0, BeginType, GotoType DEF Label
    <3> QED
      BY <1>4, <3>2, <3>4 DEF TypeOK, PollGovern, outside
  <2> QED
    BY <1>4, <2>1, <2>2, <2>3 DEF PollGovern
<1>5. CASE PollObserve
  BY <1>5, <1>t, GotoType DEF TypeOK, PollObserve, outside, Label
<1>6. CASE PollPublish
  <2>1. tick' \in TickType
    BY <1>6, <1>t, <1>0 DEF PollPublish, TickType
  <2>2. pc' \in [Task -> Label]
    BY <1>6, <1>t, GotoType DEF PollPublish, Label
  <2> QED
    BY <1>6, <1>s, <2>1, <2>2 DEF TypeOK, PollPublish
<1>7. CASE PollPanic
  <2>1. pc' \in [Task -> Label] /\ job' \in [Task -> JobType]
    BY <1>7, <1>t, <1>0, BeginType DEF PollPanic, Label
  <2> QED
    BY <1>7, <1>t, <2>1, SpendType DEF TypeOK, PollPanic, outside
<1> QED
  BY <1>1, <1>2, <1>3, <1>4, <1>5, <1>6, <1>7 DEF PollStep

\* What every handled signal does to the queue.
LEMMA HandledType ==
  ASSUME host \in HostType, NEW which, Delivered(which)
  PROVE  Handled \in HostType /\ [Handled EXCEPT !.lock = LockTaken] \in HostType
<1>1. Tail(host.signals) \in Seq({"down", "up"})
  BY HeadTailProperties DEF HostType, Delivered
<1> QED
  BY <1>1 DEF Handled, HostType, LockTaken

\* The logind watcher, the watchdog thread and shutdown.
LEMMA TypeServices ==
  ASSUME TypeOK,
         SleepDown \/ SleepUnlock \/ SleepUp \/ WatchdogCheck \/ Terminate
  PROVE  TypeOK'
<1>t. /\ pc \in [Task -> Label] /\ job \in [Task -> JobType]
      /\ lease \in LeaseType /\ budget \in BudgetType /\ host \in HostType
  BY DEF TypeOK
<1>0. NoTemp \in Sample /\ 0 \in Duty /\ "release" \in Op
  BY DEF Sample, Duty, Op
<1>1. CASE SleepDown
  <2>1. lease' \in LeaseType
    BY <1>1, <1>t DEF SleepDown, LeaseType
  <2>2. host' \in HostType
    BY <1>1, <1>t, HandledType DEF SleepDown
  <2>3. pc' \in [Task -> Label] /\ job' \in [Task -> JobType]
    BY <1>1, <1>t, <1>0, BeginType DEF SleepDown, Label
  <2> QED
    BY <1>1, <2>1, <2>2, <2>3 DEF TypeOK, SleepDown
<1>2. CASE SleepUnlock
  <2>1. host' \in HostType
    BY <1>2, <1>t DEF SleepUnlock, HostType
  <2>2. pc' \in [Task -> Label]
    BY <1>2, <1>t, GotoType DEF SleepUnlock, Label
  <2> QED
    BY <1>2, <2>1, <2>2 DEF TypeOK, SleepUnlock
<1>3. CASE SleepUp
  <2>1. host' \in HostType /\ budget' \in BudgetType
    BY <1>3, <1>t, HandledType, SpendType DEF SleepUp
  <2> QED
    BY <1>3, <2>1 DEF TypeOK, SleepUp
<1>4. CASE WatchdogCheck
  <2>1. pc' \in [Task -> Label] /\ job' \in [Task -> JobType]
    BY <1>4, <1>t, <1>0, BeginType DEF WatchdogCheck, Label
  <2> QED
    BY <1>4, <2>1 DEF TypeOK, WatchdogCheck, outside
<1>5. CASE Terminate
  <2>1. pc' \in [Task -> Label] /\ job' \in [Task -> JobType]
    BY <1>5, <1>t, <1>0, BeginType DEF Terminate, Label
  <2> QED
    BY <1>5, <1>t, <2>1, SpendType DEF TypeOK, Terminate, outside
<1> QED
  BY <1>1, <1>2, <1>3, <1>4, <1>5

\* The end of a process.
LEMMA DieType ==
  ASSUME TypeOK, NEW into \in {"failed", "stopped"}, Die(into),
         budget' \in BudgetType
  PROVE  TypeOK'
<1>1. lease' \in LeaseType
  BY DEF Die, FreshLease, LeaseType, Duty
<1>2. pc' \in [Task -> Label] /\ job' \in [Task -> JobType]
  BY NoJobType DEF Die, Label
<1>3. tick' \in TickType /\ latest' \in Sample
  BY DEF Die, TickType, Sample
<1>4. host' \in HostType
  <2>1. host \in HostType
    BY DEF TypeOK
  <2>2. <<>> \in Seq({"down", "up"})
    OBVIOUS
  <2> QED
    BY <2>1, <2>2 DEF Die, HostType
<1> QED
  BY <1>1, <1>2, <1>3, <1>4 DEF TypeOK, Die

\* The process and its unit.
LEMMA TypeUnit ==
  ASSUME TypeOK, Crash \/ Exit \/ ExecStopPost \/ Start
  PROVE  TypeOK'
<1>t. budget \in BudgetType /\ hw \in HwType /\ host \in HostType
  BY DEF TypeOK
<1>1. CASE Crash
  BY <1>1, <1>t, SpendType, DieType DEF Crash
<1>2. CASE Exit
  BY <1>2, <1>t, DieType DEF Exit
<1>3. CASE ExecStopPost
  <2>1. hw' \in HwType /\ budget' \in BudgetType
    BY <1>3, <1>t, HwTypes, SpendType DEF ExecStopPost, RestoreFan
  <2> QED
    BY <1>3, <2>1 DEF TypeOK, ExecStopPost
<1>4. CASE Start
  <2>1. hw' \in HwType /\ budget' \in BudgetType
    BY <1>4, <1>t, HwTypes, SpendType DEF Start, Reclaim
  <2>2. host' \in HostType
    BY <1>4, <1>t DEF Start, HostType, LockTaken
  <2> QED
    BY <1>4, <2>1, <2>2 DEF TypeOK, Start
<1> QED
  BY <1>1, <1>2, <1>3, <1>4

\* A stalled or ageing tick, and the machine going to sleep and waking.
LEMMA TypeEnvironment == ASSUME TypeOK, Environment PROVE TypeOK'
<1>t. budget \in BudgetType /\ host \in HostType
  BY DEF TypeOK
<1>1. CASE Wedge
  BY <1>1, <1>t, SpendType DEF TypeOK, Wedge, task
<1>2. CASE Unwedge \/ GoStale
  BY <1>2 DEF TypeOK, Unwedge, GoStale, task
<1>3. CASE PrepareForSleep
  <2>1. Append(host.signals, "down") \in Seq({"down", "up"})
    BY <1>t, AppendProperties DEF HostType
  <2>2. host' \in HostType
    BY <1>3, <1>t, <2>1 DEF PrepareForSleep, HostType
  <2> QED
    BY <1>3, <1>t, <2>2, SpendType DEF TypeOK, PrepareForSleep, task
<1>4. CASE Suspend
  <2>1. host' \in HostType
    BY <1>4, <1>t DEF Suspend, HostType
  <2> QED
    BY <1>4, <2>1 DEF TypeOK, Suspend, task
<1>5. CASE Wake
  <2>1. Append(host.signals, "up") \in Seq({"down", "up"})
    BY <1>t, AppendProperties DEF HostType
  <2>2. host' \in HostType
    BY <1>5, <1>t, <2>1 DEF Wake, HostType
  <2> QED
    BY <1>5, <2>2 DEF TypeOK, Wake, task
<1> QED
  BY <1>1, <1>2, <1>3, <1>4, <1>5 DEF Environment

\* Every step of any task, of systemd or of the machine keeps the types.
LEMMA TypeNext == TypeOK /\ [Next]_vars => TypeOK'
<1> SUFFICES ASSUME TypeOK, [Next]_vars PROVE TypeOK'
  OBVIOUS
<1>1. CASE Next
  BY <1>1, TypeLeaseStep, TypeClient, TypePoll, TypeServices, TypeUnit,
     TypeEnvironment
  DEF Next
<1>2. CASE UNCHANGED vars
  BY <1>2 DEF TypeOK, vars
<1> QED
  BY <1>1, <1>2

\* Every variable keeps its type: duties stay bytes through clamp and
\* quantization, and every task stays at a point of its own code.
THEOREM TypeCorrect == Spec => []TypeOK
  BY TypeInit, TypeNext, PTL DEF Spec
-----------------------------------------------------------------------------
(* Where one step leaves the tasks *)

\* The points at which a task is about to put its job's duty on the fan.
Writing == {"mode", "take", "write", "set"}

\* A job fit to be at such a point: its sample is usable, its duty above the
\* floor of that sample.
Apt(label, j) ==
  label \in Writing => j.therm \in Usable /\ Floor[j.therm] <= j.target

\* The strengthening of NeverBelowFloor: what is decided stays decided while the
\* other tasks run.
Chosen == \A a \in Task : Apt(pc[a], job[a])

\* The part of the state a task's control is.
Only(a) ==
  \A b \in Task : b # a => pc'[b] = pc[b] /\ job'[b] = job[b]

\* If only task `a` moved, and to a point its job is fit for, then every job is.
LEMMA ChosenMove ==
  ASSUME Chosen, NEW a \in Task, Only(a), Apt(pc'[a], job'[a])
  PROVE  Chosen'
<1> SUFFICES ASSUME NEW b \in Task PROVE Apt(pc'[b], job'[b])
  BY DEF Chosen, Apt, Writing, Usable
<1>1. CASE b = a
  BY <1>1
<1>2. CASE b # a
  BY <1>2 DEF Only, Chosen
<1> QED
  BY <1>1, <1>2

\* A step to a label with the job kept.
LEMMA GotoOnly ==
  ASSUME pc \in [Task -> Label], NEW a \in Task, NEW l, Goto(a, l),
         UNCHANGED job
  PROVE  Only(a) /\ pc'[a] = l /\ job'[a] = job[a]
  BY DEF Goto, Only

\* The end of an operation never is in the middle of the next one.
LEMMA ReturnOnly ==
  ASSUME pc \in [Task -> Label], job \in [Task -> JobType],
         NEW a \in Task, Return(a)
  PROVE  Only(a) /\ pc'[a] = After(a) /\ pc'[a] \notin Writing
<1>1. After(a) \notin Writing
  BY DEF After, Writing
<1> QED
  BY <1>1 DEF Return, Goto, Only

\* The start of an operation.
LEMMA BeginOnly ==
  ASSUME pc \in [Task -> Label], job \in [Task -> JobType],
         NEW a \in Task, NEW o, NEW want, NEW t, NEW target, NEW l,
         Begin(a, o, want, t, target, l)
  PROVE  /\ Only(a) /\ pc'[a] = l
         /\ job'[a] = [op |-> o, want |-> want, therm |-> t, target |-> target]
  BY DEF Begin, Goto, Only

\* FanLease::set_duty only lets a clamped duty through to the write.
LEMMA SetDutyChosen ==
  ASSUME TypeOK, Chosen, NEW a \in Task, NEW o, NEW want \in Duty, NEW t,
         NEW l, l \notin Writing, SetDuty(a, o, want, t, l)
  PROVE  Chosen' /\ Only(a)
<1>t. pc \in [Task -> Label] /\ job \in [Task -> JobType]
  BY DEF TypeOK
<1>1. CASE Refused(t)
  <2>1. Only(a) /\ pc'[a] = l
    BY <1>1, <1>t DEF SetDuty, Goto, Only
  <2> QED
    BY <2>1, ChosenMove DEF Apt
<1>2. CASE ~Refused(t)
  <2>1. t \in Usable
    BY <1>2 DEF Refused
  <2>2. Begin(a, o, want, t, Clamp(want, t), "mode")
    BY <1>2 DEF SetDuty
  <2>3. Only(a) /\ job'[a] = [op |-> o, want |-> want, therm |-> t,
                              target |-> Clamp(want, t)]
    BY <2>2, <1>t, BeginOnly
  <2>4. Apt(pc'[a], job'[a])
    BY <2>1, <2>3, ClampFacts DEF Apt
  <2> QED
    BY <2>3, <2>4, ChosenMove
<1> QED
  BY <1>1, <1>2

\* A lease step moves its own task only.
LEMMA LeaseStepChosen ==
  ASSUME TypeOK, Chosen, NEW a \in Task, LeaseStep(a)
  PROVE  Chosen' /\ Only(a)
<1>t. pc \in [Task -> Label] /\ job \in [Task -> JobType]
  BY DEF TypeOK
<1>1. CASE Return(a)
  BY <1>1, <1>t, ReturnOnly, ChosenMove DEF Apt
<1>2. ASSUME NEW l, l \notin Writing, Goto(a, l), UNCHANGED job
      PROVE  Chosen' /\ Only(a)
  BY <1>2, <1>t, GotoOnly, ChosenMove DEF Apt
<1>3. ASSUME NEW l, pc[a] \in Writing, Goto(a, l), UNCHANGED job
      PROVE  Chosen' /\ Only(a)
  <2>1. Apt(pc[a], job[a])
    BY DEF Chosen
  <2> QED
    BY <1>3, <2>1, <1>t, GotoOnly, ChosenMove DEF Apt
<1>4. CASE WriteMode(a)
  BY <1>1, <1>3, <1>4 DEF WriteMode, Writing
<1>5. CASE TakeMode(a)
  BY <1>1, <1>3, <1>5 DEF TakeMode, Writing
<1>6. CASE TakeWrite(a)
  BY <1>3, <1>6 DEF TakeWrite, Writing, Guard
<1>7. CASE SetHeld(a)
  BY <1>1, <1>3, <1>7 DEF SetHeld, Writing, Guard
<1>8. CASE Book(a)
  BY <1>1, <1>2, <1>8 DEF Book, Writing
<1>9. CASE Store(a)
  BY <1>1, <1>9 DEF Store
<1>10. CASE ReleaseHw(a)
  BY <1>1, <1>2, <1>10 DEF ReleaseHw, Writing
<1>11. CASE Unmark(a)
  BY <1>1, <1>2, <1>11 DEF Unmark, Writing
<1>12. CASE Drop(a)
  BY <1>1, <1>12 DEF Drop
<1> QED
  BY <1>4, <1>5, <1>6, <1>7, <1>8, <1>9, <1>10, <1>11, <1>12 DEF LeaseStep

\* The steps that are not a lease operation's start one or leave all of them.
LEMMA ChosenInvariant == TypeOK /\ Chosen /\ [Next]_vars => Chosen'
<1> SUFFICES ASSUME TypeOK, Chosen, [Next]_vars PROVE Chosen'
  OBVIOUS
<1>t. /\ pc \in [Task -> Label] /\ job \in [Task -> JobType]
      /\ tick.sample \in Sample /\ latest \in Sample
      /\ lease.requested \in Duty /\ lease.restoreDuty \in Duty
      /\ lease.curve \in BOOLEAN
  BY DEF TypeOK, TickType, LeaseType
<1>s. ASSUME UNCHANGED <<pc, job>> PROVE Chosen'
  BY <1>s DEF Chosen, Apt, Writing, Usable
<1>g. ASSUME NEW a \in Task, NEW l, l \notin Writing, Goto(a, l), UNCHANGED job
      PROVE  Chosen'
  BY <1>g, <1>t, GotoOnly, ChosenMove DEF Apt
<1>b. ASSUME NEW a \in Task, NEW o, NEW want, NEW t, NEW target, NEW l,
             l \notin Writing, Begin(a, o, want, t, target, l)
      PROVE  Chosen'
  <2>1. Only(a) /\ pc'[a] = l
    BY <1>b, <1>t DEF Begin, Goto, Only
  <2>2. Apt(pc'[a], job'[a])
    BY <2>1, <1>b DEF Apt
  <2> QED
    BY <2>1, <2>2, ChosenMove
<1>r. ASSUME NEW a \in Task, Return(a) PROVE Chosen'
  BY <1>r, <1>t, ReturnOnly, ChosenMove DEF Apt
<1>1. ASSUME NEW a \in Task, LeaseStep(a) PROVE Chosen'
  BY <1>1, LeaseStepChosen
<1>2. ASSUME NEW c \in Client, Call(c) PROVE Chosen'
  <2>1. PICK o \in {"duty", "curve", "auto"}, want \in Request :
          Begin(c, o, IF o = "duty" THEN want ELSE 0, NoTemp, 0, "auth")
    BY <1>2 DEF Call
  <2> QED
    BY <2>1, <1>b, TaskFacts DEF Writing
<1>3. ASSUME NEW c \in Client, Authorized(c) PROVE Chosen'
  <2>1. job[c].want \in Duty
    BY <1>t, TaskFacts DEF JobType
  <2> QED
    BY <1>3, <2>1, <1>g, SetDutyChosen, TaskFacts, LeaseAssumption
    DEF Authorized, Writing
<1>4. ASSUME NEW c \in Client, Denied(c) PROVE Chosen'
  BY <1>4, <1>r, TaskFacts DEF Denied
<1>5. CASE PollStep
  <2>1. CASE PollTick \/ PollObserve \/ PollPublish
    BY <2>1, <1>g, TaskFacts DEF PollTick, PollObserve, PollPublish, Writing
  <2>2. CASE PollProfile
    BY <2>2, SetDutyChosen, TaskFacts, LeaseAssumption DEF PollProfile, Writing
  <2>3. CASE PollResume
    BY <2>3, <1>t, <1>g, SetDutyChosen, TaskFacts DEF PollResume, Writing
  <2>4. CASE PollGovern
    <3>1. ASSUME NEW want \in Wanted, ~Refused(tick.sample),
                 Begin("poll", "enforce", want, tick.sample,
                       Clamp(want, tick.sample), "mode")
          PROVE  Chosen'
      <4>1. tick.sample \in Usable /\ want \in Duty
        BY <3>1, <1>t, LeaseAssumption DEF Refused, Wanted
      <4>2. /\ Only("poll")
            /\ job'["poll"] = [op |-> "enforce", want |-> want,
                               therm |-> tick.sample,
                               target |-> Clamp(want, tick.sample)]
        BY <3>1, <1>t, TaskFacts, BeginOnly
      <4>3. Apt(pc'["poll"], job'["poll"])
        BY <4>1, <4>2, ClampFacts DEF Apt
      <4> QED
        BY <4>2, <4>3, TaskFacts, ChosenMove
    <3> QED
      BY <2>4, <3>1, <1>g, <1>b, TaskFacts DEF PollGovern, Writing
  <2> QED
    BY <1>5, <2>1, <2>2, <2>3, <2>4 DEF PollStep
<1>6. CASE PollPanic \/ SleepDown \/ WatchdogCheck \/ Terminate
  BY <1>6, <1>b, TaskFacts
  DEF PollPanic, SleepDown, WatchdogCheck, Terminate, Writing
<1>7. CASE SleepUnlock
  BY <1>7, <1>g, TaskFacts DEF SleepUnlock, Writing
<1>8. CASE Crash \/ Exit
  BY <1>8 DEF Crash, Exit, Die, Chosen, Apt, Writing
<1>9. CASE SleepUp \/ ExecStopPost \/ Start \/ Environment
  BY <1>9, <1>s DEF SleepUp, ExecStopPost, Start, Environment, Wedge, Unwedge,
     GoStale, PrepareForSleep, Suspend, Wake, task
<1>10. CASE UNCHANGED vars
  BY <1>10, <1>s DEF vars
<1> QED
  BY <1>1, <1>2, <1>3, <1>4, <1>5, <1>6, <1>7, <1>8, <1>9, <1>10 DEF Next

-----------------------------------------------------------------------------
(* What a step does to the hardware *)

\* A duty the EC was given for a decided job.
DecidedDuty(a) == Held(Settle(job[a].target), job[a].therm)

\* The EC accepts what was decided, is left manual at a duty nobody verified, or
\* takes the fan back; no step but a lease operation's, the restore binary's and
\* the reclaim of a new process touches it.
LEMMA HwStep ==
  ASSUME TypeOK, [Next]_vars
  PROVE  \/ UNCHANGED hw
         \/ hw' = Firmware
         \/ hw'.mode = "manual" /\ hw'.at = NoTemp
         \/ \E a \in Task : pc[a] \in Writing /\ hw' = DecidedDuty(a)
<1>1. ASSUME NEW a \in Task, LeaseStep(a)
      PROVE  \/ UNCHANGED hw
             \/ hw' = Firmware
             \/ hw'.mode = "manual" /\ hw'.at = NoTemp
             \/ pc[a] \in Writing /\ hw' = DecidedDuty(a)
  BY <1>1 DEF LeaseStep, WriteMode, TakeMode, TakeWrite, SetHeld, Book, Store,
     ReleaseHw, Unmark, Drop, DecidedDuty, Held, Writing
<1>2. ASSUME NEW c \in Client, Call(c) \/ Authorized(c) \/ Denied(c)
      PROVE  UNCHANGED hw
  BY <1>2 DEF Call, Authorized, Denied
<1>3. CASE PollStep \/ PollPanic
  BY <1>3 DEF PollStep, PollPanic, PollTick, PollProfile, PollResume,
     PollGovern, PollObserve, PollPublish
<1>4. CASE \/ SleepDown \/ SleepUnlock \/ SleepUp \/ WatchdogCheck \/ Terminate
           \/ Environment
  BY <1>4 DEF SleepDown, SleepUnlock, SleepUp, WatchdogCheck, Terminate,
     Environment, Wedge, Unwedge, GoStale, PrepareForSleep, Suspend, Wake
<1>5. CASE Crash \/ Exit
  BY <1>5 DEF Crash, Exit, Die
<1>6. CASE ExecStopPost \/ Start
  BY <1>6 DEF ExecStopPost, RestoreFan, Start, Reclaim
<1>7. CASE UNCHANGED vars
  BY <1>7 DEF vars
<1> QED
  BY <1>1, <1>2, <1>3, <1>4, <1>5, <1>6, <1>7 DEF Next

-----------------------------------------------------------------------------
(* The floor *)

\* One step: a duty that reaches the fan was decided for a usable sample and is,
\* quantized, no lower than the quantized floor.
LEMMA FloorStep ==
  ASSUME TypeOK, Chosen, NeverBelowFloor, [Next]_vars
  PROVE  NeverBelowFloor'
<1>1. CASE UNCHANGED hw
  BY <1>1 DEF NeverBelowFloor, Usable
<1>2. CASE hw' = Firmware \/ (hw'.mode = "manual" /\ hw'.at = NoTemp)
  BY <1>2 DEF NeverBelowFloor, Firmware
<1>3. ASSUME NEW a \in Task, pc[a] \in Writing, hw' = DecidedDuty(a)
      PROVE  NeverBelowFloor'
  <2>1. job[a].therm \in Usable /\ Floor[job[a].therm] <= job[a].target
    BY <1>3 DEF Chosen, Apt
  <2>2. job[a].target \in Duty /\ Floor[job[a].therm] \in Duty
    BY <2>1, ClampFacts DEF TypeOK, JobType
  <2>3. Settle(Floor[job[a].therm]) <= Settle(job[a].target)
    BY <2>1, <2>2, SettleMonotone
  <2>4. hw'.at = job[a].therm /\ hw'.duty = Settle(job[a].target)
    BY <1>3 DEF DecidedDuty, Held
  <2> QED
    BY <2>1, <2>2, <2>3, <2>4, SettleType DEF NeverBelowFloor, Usable, Duty
<1> QED
  BY <1>1, <1>2, <1>3, HwStep

\* The invariant the induction runs on.
FloorInv == TypeOK /\ Chosen /\ NeverBelowFloor

\* Whatever the interleaving of clients, poll task, suspends, restarts and
\* failures, a fan under manual control at a verified duty is never below what
\* the EC makes of the floor of the sample that duty was chosen for, and that
\* sample was readable and under both thermal limits (ADR 0006, points 4 to 6).
THEOREM FloorHolds == Spec => []NeverBelowFloor
<1>1. Init => FloorInv
  BY TypeInit DEF Init, FloorInv, Chosen, Apt, Writing, NeverBelowFloor, Firmware
<1>2. FloorInv /\ [Next]_vars => FloorInv'
  BY TypeNext, ChosenInvariant, FloorStep DEF FloorInv
<1>3. FloorInv => NeverBelowFloor
  BY DEF FloorInv
<1> QED
  BY <1>1, <1>2, <1>3, PTL DEF Spec
-----------------------------------------------------------------------------
(* The end of the unit *)

\* A process that is not up takes no step that could leave the fan manual: the
\* way to "off" leads through the restore binary, which succeeded or has been
\* counted as a failure, and nothing runs after it.
LEMMA OffStep ==
  ASSUME TypeOK, OffIsFirmware, [Next]_vars
  PROVE  OffIsFirmware'
<1>t. budget.faults \in Nat /\ budget \in BudgetType
  BY DEF TypeOK, BudgetType
<1>1. CASE ExecStopPost
  BY <1>1, <1>t DEF ExecStopPost, RestoreFan, Spend, BudgetType, Firmware,
     OffIsFirmware
<1>2. CASE proc' # "off"
  BY <1>2 DEF OffIsFirmware
<1>3. CASE UNCHANGED <<hw, proc>> /\ budget'.faults = budget.faults
  BY <1>3 DEF OffIsFirmware
<1>4. ASSUME NEW a \in Task, LeaseStep(a) PROVE proc' # "off"
  BY <1>4 DEF LeaseStep, WriteMode, TakeMode, TakeWrite, SetHeld, Book, Store,
     ReleaseHw, Unmark, Drop, Runs, outside
<1>5. ASSUME NEW c \in Client, Call(c) \/ Authorized(c) \/ Denied(c)
      PROVE  proc' # "off"
  BY <1>5 DEF Call, Authorized, Denied, Runs, outside
<1>6. CASE PollStep \/ PollPanic
  <2>1. proc' # "off"
    BY <1>6 DEF PollStep, PollPanic, PollTick, PollProfile, PollResume,
       PollGovern, PollObserve, PollPublish, Runs, outside
  <2> QED
    BY <2>1, <1>2
<1>7. CASE SleepDown \/ SleepUnlock \/ SleepUp \/ WatchdogCheck \/ Terminate
  <2>1. proc' # "off"
    BY <1>7 DEF SleepDown, SleepUnlock, SleepUp, WatchdogCheck, Terminate, Runs,
       outside
  <2> QED
    BY <2>1, <1>2
<1>8. CASE Crash \/ Exit \/ Start
  BY <1>8, <1>2 DEF Crash, Exit, Die, Start
<1>9. CASE Environment
  BY <1>9, <1>t, <1>3 DEF Environment, Wedge, Unwedge, GoStale, PrepareForSleep,
     Suspend, Wake, task, Spend, BudgetType
<1>10. CASE UNCHANGED vars
  BY <1>10, <1>3 DEF vars
<1> QED
  BY <1>1, <1>2, <1>4, <1>5, <1>6, <1>7, <1>8, <1>9, <1>10 DEF Next

\* Once systemd is done with a unit that stopped, cleanly or not, the fan is
\* firmware's unless an operation on it failed on the way (ADR 0006, point 1).
THEOREM OffReleased == Spec => []OffIsFirmware
<1>1. Init => OffIsFirmware
  BY DEF Init, OffIsFirmware
<1>2. TypeOK /\ OffIsFirmware /\ [Next]_vars => OffIsFirmware'
  BY OffStep
<1> QED
  BY <1>1, <1>2, TypeCorrect, PTL DEF Spec
-----------------------------------------------------------------------------
(* The takeover *)

\* The dangerous state: manual, at a duty nobody verified.
Unverified == hw.mode = "manual" /\ hw.at = NoTemp

\* A task about to write the duty, or to release because that write failed.
Minding(a) == pc[a] = "write" \/ (pc[a] = "undo" /\ budget.faults >= 1)

\* The strengthening of GuardedTakeover: one failure loses the duty write, it
\* takes a second one to lose the release; and a process that dies in between
\* leaves the fan to the restore binary and to the next start's reclaim, so that
\* again two failures are needed.
Attended ==
  Unverified =>
    \/ proc \in {"failed", "stopped"}
    \/ proc \in {"restart", "off"} /\ budget.faults >= 1
    \/ proc = "up" /\ \E a \in Task : Minding(a)
    \/ budget.faults >= 2

\* Every hardware operation that fails is counted, and nothing is uncounted.
LEMMA SpendGrows ==
  ASSUME budget \in BudgetType, NEW what, Spend(what) \/ UNCHANGED budget
  PROVE  budget' \in BudgetType /\ budget'.faults >= budget.faults
  BY DEF Spend, BudgetType

\* Counting a failure.
LEMMA SpendFault ==
  ASSUME budget \in BudgetType, Spend("faults")
  PROVE  budget' \in BudgetType /\ budget'.faults = budget.faults + 1
  BY DEF Spend, BudgetType

\* What a lease step counts.
LEMMA LeaseStepBudget ==
  ASSUME NEW a \in Task, LeaseStep(a)
  PROVE  /\ Spend("faults") \/ UNCHANGED budget
         /\ proc = "up" /\ UNCHANGED proc
  BY DEF LeaseStep, WriteMode, TakeMode, TakeWrite, SetHeld, Book, Store,
     ReleaseHw, Unmark, Drop, outside, Runs

\* A lease step: who minds the fan keeps minding it, verifies it, gives it back,
\* or has failed twice.
LEMMA AttendedLeaseStep ==
  ASSUME TypeOK, Chosen, Attended, NEW a \in Task, LeaseStep(a)
  PROVE  Attended'
<1>t. /\ pc \in [Task -> Label] /\ job \in [Task -> JobType]
      /\ budget \in BudgetType /\ budget.faults \in Nat
  BY DEF TypeOK, BudgetType
<1>o. Only(a)
  BY LeaseStepChosen
<1>b. /\ budget' \in BudgetType /\ budget'.faults \in Nat
      /\ budget'.faults >= budget.faults
      /\ proc = "up" /\ proc' = "up"
  <2>1. budget' \in BudgetType /\ budget'.faults >= budget.faults
    BY <1>t, LeaseStepBudget, SpendGrows
  <2> QED
    BY <2>1, LeaseStepBudget DEF BudgetType
<1>m. ASSUME Minding(a)' PROVE Attended'
  BY <1>m, <1>b DEF Attended, Unverified
<1>v. ASSUME ~Unverified' PROVE Attended'
  BY <1>v DEF Attended, Unverified
<1>k. ASSUME Unverified, Minding(a) => Minding(a)' \/ budget'.faults >= 2
      PROVE  Attended'
  <2>1. CASE budget.faults >= 2
    BY <2>1, <1>t, <1>b DEF Attended
  <2>2. ASSUME NEW b \in Task, b # a, Minding(b) PROVE Attended'
    <3>1. Minding(b)'
      BY <2>2, <1>o, <1>t, <1>b DEF Minding, Only
    <3> QED
      BY <3>1, <1>b DEF Attended, Unverified
  <2>3. CASE Minding(a)
    BY <2>3, <1>k, <1>m DEF Attended, Unverified
  <2> QED
    BY <2>1, <2>2, <2>3, <1>k, <1>b DEF Attended
<1>u. ASSUME UNCHANGED hw, ~Minding(a) \/ Minding(a)' \/ budget'.faults >= 2
      PROVE  Attended'
  BY <1>u, <1>k, <1>v DEF Unverified
<1>d. ASSUME pc[a] \in Writing, hw' = DecidedDuty(a) PROVE Attended'
  <2>1. job[a].therm # NoTemp
    BY <1>d, LeaseAssumption DEF Chosen, Apt, Usable
  <2> QED
    BY <1>d, <2>1, <1>v DEF DecidedDuty, Held, Unverified
<1>f. ASSUME Spend("faults"), pc[a] \in {"write", "set"}, Guard(a), UNCHANGED job
      PROVE  Attended'
  <2>1. pc'[a] = "undo"
    BY <1>f, <1>t, GotoOnly DEF Guard
  <2>2. budget'.faults >= 1
    BY <1>f, <1>t, SpendFault
  <2> QED
    BY <2>1, <2>2, <1>m DEF Minding
<1>1. CASE WriteMode(a)
  BY <1>1, <1>u DEF WriteMode, Minding
<1>2. CASE TakeMode(a)
  <2>1. CASE hw.mode = "manual" /\ hw' = DecidedDuty(a)
    BY <1>2, <2>1, <1>d DEF TakeMode, Writing
  <2>2. CASE Goto(a, "write") /\ UNCHANGED job
    BY <2>2, <1>t, GotoOnly, <1>m DEF Minding
  <2>3. CASE UNCHANGED hw
    BY <1>2, <2>3, <1>u DEF TakeMode, Minding
  <2> QED
    BY <1>2, <2>1, <2>2, <2>3 DEF TakeMode, DecidedDuty
<1>3. CASE TakeWrite(a)
  <2>1. CASE hw' = DecidedDuty(a)
    BY <1>3, <2>1, <1>d DEF TakeWrite, Writing
  <2>2. CASE hw.mode # "manual" /\ UNCHANGED hw
    BY <2>2, <1>v DEF Unverified
  <2>3. CASE Spend("faults") /\ Guard(a)
    BY <1>3, <2>3, <1>f DEF TakeWrite
  <2> QED
    BY <1>3, <2>1, <2>2, <2>3 DEF TakeWrite, DecidedDuty
<1>4. CASE SetHeld(a)
  <2>1. CASE hw' = DecidedDuty(a)
    BY <1>4, <2>1, <1>d DEF SetHeld, Writing
  <2>2. CASE UNCHANGED hw
    BY <1>4, <2>2, <1>u DEF SetHeld, Minding
  <2>3. CASE Spend("faults") /\ Guard(a) /\ UNCHANGED job
    BY <1>4, <2>3, <1>f DEF SetHeld
  <2> QED
    BY <1>4, <2>1, <2>2, <2>3 DEF SetHeld, DecidedDuty
<1>5. CASE Book(a) \/ Store(a) \/ Unmark(a) \/ Drop(a)
  BY <1>5, <1>u DEF Book, Store, Unmark, Drop, Minding
<1>6. CASE ReleaseHw(a)
  <2>1. CASE hw' = Firmware
    BY <2>1, <1>v DEF Unverified, Firmware
  <2>2. CASE UNCHANGED hw /\ Spend("faults")
    <3>1. Minding(a) => budget'.faults >= 2
      BY <1>6, <2>2, <1>t, SpendFault DEF ReleaseHw, Minding
    <3> QED
      BY <2>2, <3>1, <1>u
  <2> QED
    BY <1>6, <2>1, <2>2 DEF ReleaseHw
<1> QED
  BY <1>1, <1>2, <1>3, <1>4, <1>5, <1>6 DEF LeaseStep
\* Steps of other kinds.
LEMMA AttendedStep ==
  ASSUME TypeOK, Chosen, Attended, [Next]_vars
  PROVE  Attended'
<1>t. /\ pc \in [Task -> Label] /\ job \in [Task -> JobType]
      /\ budget \in BudgetType /\ budget.faults \in Nat
  BY DEF TypeOK, BudgetType
<1>k. ASSUME UNCHANGED <<hw, proc>>, Spend("upsets") \/ Spend("calls") \/ UNCHANGED budget,
             \A b \in Task : pc[b] \in {"write", "undo"} => pc'[b] = pc[b]
      PROVE  Attended'
  <2>1. budget'.faults = budget.faults
    BY <1>k, <1>t DEF Spend, BudgetType
  <2>2. \A b \in Task : Minding(b) => Minding(b)'
    BY <1>k, <2>1 DEF Minding
  <2> QED
    BY <1>k, <2>1, <2>2 DEF Attended, Unverified
<1>g. ASSUME NEW a \in Task, NEW l, Goto(a, l), pc[a] \notin {"write", "undo"}
      PROVE  \A b \in Task : pc[b] \in {"write", "undo"} => pc'[b] = pc[b]
  BY <1>g, <1>t DEF Goto
<1>1. ASSUME NEW a \in Task, LeaseStep(a) PROVE Attended'
  BY <1>1, AttendedLeaseStep
<1>2. ASSUME NEW c \in Client, Call(c) \/ Authorized(c) \/ Denied(c)
      PROVE  Attended'
  <2>0. c \in Task
    BY TaskFacts
  <2>1. pc[c] \in {"idle", "auth"} /\ UNCHANGED <<hw, proc>>
        /\ (Spend("calls") \/ UNCHANGED budget)
    BY <1>2 DEF Call, Authorized, Denied, outside
  <2>2. \E l : Goto(c, l)
    BY <1>2 DEF Call, Begin, Authorized, SetDuty, Denied, Return
  <2> QED
    BY <2>0, <2>1, <2>2, <1>g, <1>k
<1>3. CASE PollStep \/ PollPanic
  <2>1. /\ pc["poll"] \in {"idle", "ticked", "govern", "observe", "publish"}
        /\ UNCHANGED <<hw, proc>>
        /\ Spend("calls") \/ Spend("upsets") \/ UNCHANGED budget
    BY <1>3 DEF PollStep, PollPanic, PollTick, PollProfile, PollResume,
       PollGovern, PollObserve, PollPublish, outside
  <2>2. \E l : Goto("poll", l)
    BY <1>3 DEF PollStep, PollPanic, PollTick, PollProfile, PollResume,
       PollGovern, PollObserve, PollPublish, Begin, SetDuty
  <2> QED
    BY <2>1, <2>2, <1>g, <1>k, TaskFacts
<1>4. ASSUME NEW a \in {"sleep", "watchdog", "main"}, NEW l,
             pc[a] \in {"idle", "unlock"}, Goto(a, l), UNCHANGED <<hw, proc>>,
             Spend("upsets") \/ UNCHANGED budget
      PROVE  Attended'
  BY <1>4, <1>g, <1>k, TaskFacts
<1>5. CASE SleepDown \/ SleepUnlock \/ WatchdogCheck \/ Terminate
  BY <1>5, <1>4 DEF SleepDown, SleepUnlock, WatchdogCheck, Terminate, Begin,
     outside
<1>6. CASE SleepUp
  <2>1. budget'.faults >= budget.faults /\ budget'.faults \in Nat
    BY <1>6, <1>t, SpendFault DEF SleepUp
  <2>2. \A b \in Task : Minding(b) => Minding(b)'
    BY <1>6, <1>t, <2>1 DEF SleepUp, Minding
  <2> QED
    BY <1>6, <1>t, <2>1, <2>2 DEF SleepUp, Attended, Unverified
<1>7. CASE Crash \/ Exit
  BY <1>7 DEF Crash, Exit, Die, Attended
<1>8. CASE ExecStopPost
  <2>1. CASE hw' = Firmware
    BY <2>1 DEF Attended, Unverified, Firmware
  <2>2. CASE Spend("faults")
    <3>1. budget'.faults >= 1
      BY <2>2, <1>t, SpendFault
    <3> QED
      BY <1>8, <3>1 DEF ExecStopPost, Attended
  <2> QED
    BY <1>8, <2>1, <2>2 DEF ExecStopPost, RestoreFan
<1>9. CASE Start
  <2>1. CASE hw' = Firmware
    BY <2>1 DEF Attended, Unverified, Firmware
  <2>2. CASE Spend("faults") /\ UNCHANGED hw
    <3>1. budget'.faults = budget.faults + 1
      BY <2>2, <1>t, SpendFault
    <3> QED
      BY <1>9, <2>2, <1>t, <3>1 DEF Start, Attended, Unverified
  <2> QED
    BY <1>9, <2>1, <2>2 DEF Start, Reclaim
<1>10. CASE Environment
  BY <1>10, <1>k DEF Environment, Wedge, Unwedge, GoStale, PrepareForSleep,
     Suspend, Wake, task
<1>11. CASE UNCHANGED vars
  BY <1>11, <1>k DEF vars
<1> QED
  BY <1>1, <1>2, <1>3, <1>5, <1>6, <1>7, <1>8, <1>9, <1>10, <1>11 DEF Next

\* The invariant the induction runs on.
TakeoverInv == TypeOK /\ Chosen /\ Attended

\* While the daemon runs, manual control at a duty nobody verified is a passing
\* state of one task that writes the duty or gives the fan back next, unless
\* two hardware operations failed; crashes and restarts included.
THEOREM TakeoverGuarded == Spec => []GuardedTakeover
<1>1. Init => TakeoverInv
  BY TypeInit DEF Init, TakeoverInv, Chosen, Apt, Writing, Attended, Unverified,
     Firmware
<1>2. TakeoverInv /\ [Next]_vars => TakeoverInv'
  BY TypeNext, ChosenInvariant, AttendedStep DEF TakeoverInv
<1>3. TakeoverInv => GuardedTakeover
  BY DEF TakeoverInv, TypeOK, BudgetType, Attended, Unverified, Minding,
     GuardedTakeover
<1> QED
  BY <1>1, <1>2, <1>3, PTL DEF Spec
-----------------------------------------------------------------------------
(* The restore after a resume *)

UpFrom(n) == \E i \in n..Len(host.signals) : host.signals[i] = "up"

\* The strengthening of RestoreNotOrphaned: a suspend that was announced is still going
\* on or its wake is announced behind it, and a process that is not up expects nothing.
Awaited ==
  /\ lease.pending => host.power # "awake" \/ UpFrom(1) \/ resumed \/ tick.wake
  /\ \A i \in 1..Len(host.signals) :
       host.signals[i] = "down" => host.power # "awake" \/ UpFrom(i + 1)
  /\ proc # "up" => ~lease.pending /\ host.signals = <<>>

\* Steps that arm no restore, deliver nothing and leave the wakes.
LEMMA AwaitedQuiet ==
  ASSUME Awaited, lease'.pending => lease.pending,
         host'.power = host.power, host'.signals = host.signals,
         resumed => resumed', tick.wake => tick'.wake, proc' = proc \/ proc' = "up"
  PROVE  Awaited'
  BY DEF Awaited, UpFrom

LEMMA SignalsTail ==
  ASSUME TypeOK, host.signals # <<>>
  PROVE  /\ Len(host.signals) \in Nat \ {0} /\ Head(host.signals) = host.signals[1]
         /\ Len(Tail(host.signals)) = Len(host.signals) - 1
         /\ \A i \in 1..(Len(host.signals) - 1) :
              Tail(host.signals)[i] = host.signals[i + 1]
<1>1. host.signals \in Seq({"down", "up"})
  BY DEF TypeOK, HostType
<1> QED BY <1>1

\* The watcher has taken the first signal.
LEMMA AwaitedHandled ==
  ASSUME TypeOK, Awaited, host.signals # <<>>,
         host'.signals = Tail(host.signals), host'.power = host.power
  PROVE  /\ \A i \in 1..Len(host'.signals) :
              host'.signals[i] = "down" => host'.power # "awake" \/ UpFrom(i + 1)'
         /\ UpFrom(2) => UpFrom(1)'
<1>1. ASSUME NEW n \in 2..(Len(host.signals) + 1), UpFrom(n)
      PROVE  UpFrom(n - 1)'
  <2>1. PICK j \in n..Len(host.signals) : host.signals[j] = "up"
    BY <1>1 DEF UpFrom
  <2>2. j - 1 \in (n - 1)..Len(host'.signals) /\ host'.signals[j - 1] = host.signals[j]
    BY <1>1, <2>1, SignalsTail
  <2> QED BY <2>1, <2>2 DEF UpFrom
<1>2. ASSUME NEW i \in 1..Len(host'.signals), host'.signals[i] = "down"
      PROVE  host'.power # "awake" \/ UpFrom(i + 1)'
  <2>1. /\ i + 1 \in 1..Len(host.signals) /\ host.signals[i + 1] = "down"
        /\ (i + 1) + 1 \in 2..(Len(host.signals) + 1)
        /\ ((i + 1) + 1) - 1 = i + 1
    BY <1>2, SignalsTail
  <2>2. host.power # "awake" \/ UpFrom((i + 1) + 1)
    BY <2>1 DEF Awaited
  <2>3. UpFrom((i + 1) + 1) => UpFrom(((i + 1) + 1) - 1)'
    BY <1>1, <2>1
  <2> QED BY <2>1, <2>2, <2>3
<1>3. UpFrom(2) => UpFrom(1)'
  <2>1. 2 \in 2..(Len(host.signals) + 1) /\ 2 - 1 = 1
    BY SignalsTail
  <2>2. UpFrom(2) => UpFrom(2 - 1)'
    BY <1>1, <2>1
  <2> QED BY <2>1, <2>2
<1> QED BY <1>2, <1>3

LEMMA AwaitedStep ==
  ASSUME TypeOK, Awaited, [Next]_vars
  PROVE  Awaited'
<1>t. /\ lease \in LeaseType /\ host \in HostType /\ tick \in TickType
      /\ host.signals \in Seq({"down", "up"})
  BY DEF TypeOK, HostType
<1>1. ASSUME NEW a \in Task, LeaseStep(a) PROVE Awaited'
  <2>1. lease'.pending = lease.pending
    BY <1>1, <1>t DEF LeaseStep, WriteMode, TakeMode, TakeWrite, SetHeld, Book, Store,
       ReleaseHw, Unmark, Drop, LeaseType
  <2>2. UNCHANGED <<host, resumed, tick, proc>>
    BY <1>1 DEF LeaseStep, WriteMode, TakeMode, TakeWrite, SetHeld, Book, Store,
       ReleaseHw, Unmark, Drop, outside
  <2> QED BY <2>1, <2>2, AwaitedQuiet
<1>2. ASSUME NEW c \in Client, Call(c) \/ Authorized(c) \/ Denied(c)
      PROVE  Awaited'
  <2>1. lease'.pending => lease.pending
    BY <1>2, <1>t DEF Call, Authorized, Denied, LeaseType
  <2>2. UNCHANGED <<host, resumed, tick, proc>>
    BY <1>2 DEF Call, Authorized, Denied, outside
  <2> QED BY <2>1, <2>2, AwaitedQuiet
<1>3. CASE PollTick
  <2>1. tick'.wake = (tick.wake \/ resumed)
    BY <1>3 DEF PollTick, Woken
  <2>2. UNCHANGED <<lease, host, proc>>
    BY <1>3 DEF PollTick
  <2> QED BY <2>1, <2>2 DEF Awaited, UpFrom
<1>4. CASE PollResume
  <2>1. lease'.pending => lease.pending /\ ~tick.wake
    BY <1>4, <1>t DEF PollResume, LeaseType
  <2>2. UNCHANGED <<host, resumed, proc>>
    BY <1>4 DEF PollResume
  <2> QED BY <2>1, <2>2 DEF Awaited, UpFrom
<1>5. CASE PollProfile \/ PollGovern \/ PollObserve \/ PollPublish \/ PollPanic
  <2>1. lease'.pending = lease.pending
    BY <1>5, <1>t DEF PollProfile, PollGovern, PollObserve, PollPublish, PollPanic,
       LeaseType
  <2>2. UNCHANGED <<host, resumed, proc>> /\ tick'.wake = tick.wake
    BY <1>5, <1>t DEF PollProfile, PollGovern, PollObserve, PollPublish, PollPanic,
       outside, TickType
  <2> QED BY <2>1, <2>2, AwaitedQuiet
<1>6. CASE SleepDown
  <2>1. /\ host.signals # <<>> /\ Head(host.signals) = "down"
        /\ host'.signals = Tail(host.signals) /\ host'.power = host.power
        /\ proc = "up" /\ UNCHANGED <<resumed, tick, proc>>
    BY <1>6, <1>t DEF SleepDown, Delivered, Handled, Runs, HostType
  <2>2. 1 \in 1..Len(host.signals) /\ host.signals[1] = "down" /\ 1 + 1 = 2
    BY <2>1, SignalsTail
  <2>3. host.power # "awake" \/ UpFrom(1 + 1)
    BY <2>2 DEF Awaited
  <2>4. host'.power # "awake" \/ UpFrom(1)'
    BY <2>1, <2>2, <2>3, AwaitedHandled
  <2> QED BY <2>1, <2>4, AwaitedHandled DEF Awaited
<1>7. CASE SleepUp
  <2>1. /\ host.signals # <<>> /\ resumed' = TRUE /\ proc = "up"
        /\ host'.signals = Tail(host.signals) /\ host'.power = host.power
        /\ UNCHANGED proc
    BY <1>7, <1>t DEF SleepUp, Delivered, Handled, Runs, HostType
  <2> QED BY <2>1, AwaitedHandled DEF Awaited
<1>8. CASE SleepUnlock \/ WatchdogCheck \/ Terminate
  <2>1. /\ UNCHANGED <<lease, resumed, tick, proc>>
        /\ host'.power = host.power /\ host'.signals = host.signals
    BY <1>8, <1>t DEF SleepUnlock, WatchdogCheck, Terminate, outside, HostType
  <2> QED BY <2>1, AwaitedQuiet
<1>9. CASE Crash \/ Exit
  <2>1. lease' = FreshLease /\ host' = [host EXCEPT !.lock = FALSE, !.signals = <<>>]
    BY <1>9, Zenon DEF Crash, Exit, Die
  <2>2. lease'.pending = FALSE
    BY <2>1 DEF FreshLease
  <2>3. host'.signals = <<>>
    BY <2>1, <1>t DEF HostType
  <2>4. ~ \E i \in 1..Len(host'.signals) : TRUE
    BY <2>3
  <2> QED BY <2>2, <2>3, <2>4 DEF Awaited
<1>10. CASE ExecStopPost \/ Start
  <2>1. /\ UNCHANGED <<lease, resumed, tick>> /\ proc # "up"
        /\ host'.power = host.power /\ host'.signals = host.signals
    BY <1>10, <1>t DEF ExecStopPost, Start, HostType
  <2>2. ~lease.pending /\ host.signals = <<>>
    BY <2>1 DEF Awaited
  <2> QED BY <2>1, <2>2 DEF Awaited
<1>11. CASE Environment
  <2>1. CASE Wedge \/ Unwedge \/ GoStale
    BY <2>1, AwaitedQuiet DEF Wedge, Unwedge, GoStale, task
  <2>2. CASE PrepareForSleep \/ Suspend
    <3>1. /\ host'.power # "awake" /\ UNCHANGED <<lease, proc>>
          /\ proc # "up" => host'.signals = host.signals
      BY <2>2, <1>t DEF PrepareForSleep, Suspend, task, HostType
    <3> QED BY <3>1 DEF Awaited
  <2>3. CASE Wake
    <3>1. UNCHANGED <<lease, proc>>
      BY <2>3 DEF Wake, task
    <3>2. CASE proc = "up"
      <4>1. host'.signals = Append(host.signals, "up")
        BY <2>3, <3>2, <1>t DEF Wake, HostType
      <4>2. /\ Len(host'.signals) = Len(host.signals) + 1 /\ Len(host.signals) \in Nat
            /\ host'.signals[Len(host.signals) + 1] = "up"
            /\ \A i \in 1..Len(host.signals) : host'.signals[i] = host.signals[i]
        BY <4>1, <1>t
      <4>3. \A i \in 1..(Len(host.signals) + 1) : UpFrom(i)'
        BY <4>2 DEF UpFrom
      <4>4. ASSUME NEW i \in 1..Len(host'.signals), host'.signals[i] = "down"
            PROVE  UpFrom(i + 1)'
        <5>1. i # Len(host.signals) + 1
          BY <4>2, <4>4
        <5>2. i + 1 \in 1..(Len(host.signals) + 1)
          BY <4>2, <5>1
        <5> QED BY <4>3, <5>2
      <4>5. UpFrom(1)'
        BY <4>2, <4>3
      <4> QED BY <3>1, <3>2, <4>4, <4>5 DEF Awaited
    <3>3. CASE proc # "up"
      <4>1. host'.signals = host.signals
        BY <2>3, <3>3, <1>t DEF Wake, HostType
      <4>2. ~lease.pending /\ host.signals = <<>>
        BY <3>3 DEF Awaited
      <4> QED BY <3>1, <4>1, <4>2 DEF Awaited
    <3> QED BY <3>2, <3>3
  <2> QED BY <1>11, <2>1, <2>2, <2>3 DEF Environment
<1>12. CASE UNCHANGED vars
  BY <1>12, AwaitedQuiet DEF vars
<1> QED
  BY <1>1, <1>2, <1>3, <1>4, <1>5, <1>6, <1>7, <1>8, <1>9, <1>10, <1>11, <1>12
  DEF Next, PollStep

\* A restore armed for a suspend is not forgotten, however the signals, the resume flag
\* and the poll task interleave and for any number of suspends: until it is done its
\* wake is still to come or on its way to a tick (release_for_sleep, restore_fan).
THEOREM RestoreExpected == Spec => []RestoreNotOrphaned
<1>1. Init => Awaited
  BY DEF Init, Awaited, FreshLease
<1>2. TypeOK /\ Awaited /\ [Next]_vars => Awaited'
  BY AwaitedStep
<1>3. Awaited => RestoreNotOrphaned
  BY DEF Awaited, UpFrom, RestoreNotOrphaned
<1> QED
  BY <1>1, <1>2, <1>3, TypeCorrect, PTL DEF Spec
-----------------------------------------------------------------------------
(* A duty that may not turn the fan *)

\* Quantization brings no duty down into the stalling range, nor 0 up into it.
LEMMA SettleTurns ==
  ASSUME NEW d \in Duty, ~Stalls(d) PROVE ~Stalls(Settle(d))
<1>1. Settle(0) = 0 /\ Settle(MIN_TAKEOVER_DUTY) = MIN_TAKEOVER_DUTY
  BY DEF Settle, PercentToDuty, DutyToPercent, MIN_TAKEOVER_DUTY
<1>2. CASE d = 0
  BY <1>1, <1>2 DEF Stalls
<1>3. CASE d # 0
  <2>1. MIN_TAKEOVER_DUTY \in Duty /\ MIN_TAKEOVER_DUTY <= d
    BY <1>3 DEF Stalls, Duty, MIN_TAKEOVER_DUTY
  <2>2. MIN_TAKEOVER_DUTY <= Settle(d)
    BY <1>1, <2>1, SettleMonotone
  <2>3. Settle(d) \in Duty
    BY SettleType
  <2>4. ~(Settle(d) < MIN_TAKEOVER_DUTY)
    BY <2>2, <2>3 DEF Duty, MIN_TAKEOVER_DUTY
  <2> QED BY <2>4 DEF Stalls
<1> QED BY <1>2, <1>3

Taking == {"take", "write"}

\* A job fit to be taking the fan over: take_manual has refused a stalling duty.
Turning(label, j) == label \in Taking => ~Stalls(j.target)

\* The strengthening of NeverStalled.
Aimed == \A a \in Task : Turning(pc[a], job[a])

\* If only task `a` moved, and to a point its job is fit for, then every job is.
LEMMA AimedMove ==
  ASSUME Aimed, NEW a \in Task, Only(a), Turning(pc'[a], job'[a])
  PROVE  Aimed'
<1> SUFFICES ASSUME NEW b \in Task PROVE Turning(pc'[b], job'[b])
  BY DEF Aimed, Turning, Taking, Stalls, MIN_TAKEOVER_DUTY
<1> QED BY DEF Only, Aimed

\* The end of an operation is not in the middle of a takeover.
LEMMA AimedReturn ==
  ASSUME TypeOK, Aimed, NEW a \in Task, Return(a) PROVE Aimed'
<1>1. pc \in [Task -> Label] /\ job \in [Task -> JobType]
  BY DEF TypeOK
<1>2. Only(a) /\ pc'[a] \notin Writing
  BY <1>1, ReturnOnly
<1> QED BY <1>2, AimedMove DEF Turning, Taking, Writing

\* Any other way to a point outside the takeover.
LEMMA AimedGoto ==
  ASSUME TypeOK, Aimed, NEW a \in Task, NEW l, l \notin Taking, Goto(a, l),
         UNCHANGED job
  PROVE  Aimed'
<1>1. Only(a) /\ pc'[a] = l
  BY GotoOnly DEF TypeOK
<1> QED BY <1>1, AimedMove DEF Turning

LEMMA AimedBegin ==
  ASSUME TypeOK, Aimed, NEW a \in Task, NEW o, NEW want, NEW t, NEW target, NEW l,
         l \notin Taking, Begin(a, o, want, t, target, l)
  PROVE  Aimed'
<1>1. Only(a) /\ pc'[a] = l
  BY DEF Begin, Goto, Only, TypeOK
<1> QED BY <1>1, AimedMove DEF Turning

LEMMA AimedSetDuty ==
  ASSUME TypeOK, Aimed, NEW a \in Task, NEW o, NEW want, NEW t, NEW l,
         l \notin Taking, SetDuty(a, o, want, t, l)
  PROVE  Aimed'
<1>1. CASE Refused(t)
  <2>1. Only(a) /\ pc'[a] = l
    BY <1>1 DEF SetDuty, Goto, Only, TypeOK
  <2> QED BY <2>1, AimedMove DEF Turning
<1>2. CASE ~Refused(t)
  <2>1. Begin(a, o, want, t, Clamp(want, t), "mode")
    BY <1>2 DEF SetDuty
  <2> QED BY <2>1, AimedBegin DEF Taking
<1> QED BY <1>1, <1>2

\* Within an operation the only way into a takeover is take_manual's check.
LEMMA AimedLeaseStep ==
  ASSUME TypeOK, Aimed, NEW a \in Task, LeaseStep(a) PROVE Aimed'
<1>t. pc \in [Task -> Label] /\ job \in [Task -> JobType]
  BY DEF TypeOK
<1>1. CASE Return(a)
  BY <1>1, AimedReturn
<1>2. ASSUME NEW l, l \notin Taking, Goto(a, l), UNCHANGED job PROVE Aimed'
  BY <1>2, AimedGoto
<1>3. ASSUME NEW l, ~Stalls(job[a].target), Goto(a, l), UNCHANGED job
      PROVE  Aimed'
  <2>1. Only(a) /\ job'[a] = job[a]
    BY <1>3, <1>t, GotoOnly
  <2> QED BY <1>3, <2>1, AimedMove DEF Turning
<1>4. CASE WriteMode(a)
  <2>1. CASE Goto(a, "set") /\ UNCHANGED job
    BY <2>1, <1>2 DEF Taking
  <2>2. CASE ~Stalls(job[a].target) /\ UNCHANGED job
             /\ Goto(a, IF Observable THEN "take" ELSE "write")
    BY <2>2, <1>3
  <2> QED BY <1>4, <1>1, <2>1, <2>2 DEF WriteMode
<1>5. CASE TakeMode(a)
  <2>1. ~Stalls(job[a].target)
    BY <1>5 DEF TakeMode, Aimed, Turning, Taking
  <2>2. Return(a) \/ (Goto(a, "write") /\ UNCHANGED job)
    BY <1>5 DEF TakeMode
  <2> QED BY <2>1, <2>2, <1>1, <1>3
<1>6. CASE TakeWrite(a)
  <2>1. (Goto(a, "book") \/ Goto(a, "undo")) /\ UNCHANGED job
    BY <1>6 DEF TakeWrite, Guard
  <2> QED BY <2>1, <1>2 DEF Taking
<1>7. CASE SetHeld(a)
  <2>1. Return(a) \/ ((Goto(a, "book") \/ Goto(a, "undo")) /\ UNCHANGED job)
    BY <1>7 DEF SetHeld, Guard
  <2> QED BY <2>1, <1>1, <1>2 DEF Taking
<1>8. CASE Book(a) \/ Store(a)
  <2>1. Return(a) \/ (Goto(a, "store") /\ UNCHANGED job)
    BY <1>8 DEF Book, Store
  <2> QED BY <2>1, <1>1, <1>2 DEF Taking
<1>9. CASE ReleaseHw(a)
  <2>1. \/ Return(a)
        \/ /\ Goto(a, "unmark") \/ Goto(a, "unmarkUndo") \/ Goto(a, "drop")
           /\ UNCHANGED job
    BY <1>9 DEF ReleaseHw
  <2> QED BY <2>1, <1>1, <1>2 DEF Taking
<1>10. CASE Unmark(a) \/ Drop(a)
  <2>1. Return(a) \/ (Goto(a, "drop") /\ UNCHANGED job)
    BY <1>10 DEF Unmark, Drop
  <2> QED BY <2>1, <1>1, <1>2 DEF Taking
<1> QED BY <1>4, <1>5, <1>6, <1>7, <1>8, <1>9, <1>10 DEF LeaseStep

LEMMA AimedStep == TypeOK /\ Aimed /\ [Next]_vars => Aimed'
<1> SUFFICES ASSUME TypeOK, Aimed, [Next]_vars PROVE Aimed'
  OBVIOUS
<1>s. ASSUME UNCHANGED <<pc, job>> PROVE Aimed'
  BY <1>s DEF Aimed, Turning, Taking, Stalls, MIN_TAKEOVER_DUTY
<1>g. ASSUME NEW a \in Task, NEW l, l \notin Taking, Goto(a, l), UNCHANGED job
      PROVE  Aimed'
  BY <1>g, AimedGoto
<1>b. ASSUME NEW a \in Task, NEW o, NEW want, NEW t, NEW target, NEW l,
             l \notin Taking, Begin(a, o, want, t, target, l)
      PROVE  Aimed'
  BY <1>b, AimedBegin
<1>1. ASSUME NEW a \in Task, LeaseStep(a) PROVE Aimed'
  BY <1>1, AimedLeaseStep
<1>2. ASSUME NEW c \in Client, Call(c) PROVE Aimed'
  <2>1. PICK o \in {"duty", "curve", "auto"}, want \in Request :
          Begin(c, o, IF o = "duty" THEN want ELSE 0, NoTemp, 0, "auth")
    BY <1>2 DEF Call
  <2> QED BY <2>1, <1>b, TaskFacts DEF Taking
<1>3. ASSUME NEW c \in Client, Authorized(c) PROVE Aimed'
  BY <1>3, <1>g, AimedSetDuty, TaskFacts DEF Authorized, Taking
<1>4. ASSUME NEW c \in Client, Denied(c) PROVE Aimed'
  BY <1>4, AimedReturn, TaskFacts DEF Denied
<1>5. CASE PollTick \/ PollObserve \/ PollPublish
  BY <1>5, <1>g, TaskFacts DEF PollTick, PollObserve, PollPublish, Taking
<1>6. CASE PollProfile
  BY <1>6, AimedSetDuty, TaskFacts DEF PollProfile, Taking
<1>7. CASE PollResume
  BY <1>7, <1>g, AimedSetDuty, TaskFacts DEF PollResume, Taking
<1>8. CASE PollGovern
  BY <1>8, <1>g, <1>b, TaskFacts DEF PollGovern, Taking
<1>9. CASE PollPanic \/ SleepDown \/ WatchdogCheck \/ Terminate
  BY <1>9, <1>b, TaskFacts DEF PollPanic, SleepDown, WatchdogCheck, Terminate, Taking
<1>10. CASE SleepUnlock
  BY <1>10, <1>g, TaskFacts DEF SleepUnlock, Taking
<1>11. CASE Crash \/ Exit
  BY <1>11 DEF Crash, Exit, Die, Aimed, Turning, Taking
<1>12. CASE SleepUp \/ ExecStopPost \/ Start \/ Environment
  BY <1>12, <1>s DEF SleepUp, ExecStopPost, Start, Environment, Wedge, Unwedge,
     GoStale, PrepareForSleep, Suspend, Wake, task
<1>13. CASE UNCHANGED vars
  BY <1>13, <1>s DEF vars
<1> QED
  BY <1>1, <1>2, <1>3, <1>4, <1>5, <1>6, <1>7, <1>8, <1>9, <1>10, <1>11, <1>12, <1>13
  DEF Next, PollStep

\* What a step may put on the fan of an EC board: nothing, firmware, a fan switched
\* off, or a duty that turns it.
LEMMA StalledStep ==
  ASSUME ~Observable, TypeOK, Aimed, NeverStalled, [Next]_vars
  PROVE  NeverStalled'
<1>1. CASE UNCHANGED hw
  BY <1>1 DEF NeverStalled, Stalls, MIN_TAKEOVER_DUTY
<1>2. CASE hw' = Firmware \/ hw' = Held(0, NoTemp)
  BY <1>2 DEF NeverStalled, Firmware, Held, Stalls
<1>3. ASSUME NEW a \in Task, NEW t, ~Stalls(job[a].target),
             hw' = Held(Settle(job[a].target), t)
      PROVE  NeverStalled'
  <2>1. job[a].target \in Duty
    BY DEF TypeOK, JobType
  <2>2. ~Stalls(Settle(job[a].target))
    BY <1>3, <2>1, SettleTurns
  <2>3. hw'.duty = Settle(job[a].target)
    BY <1>3 DEF Held
  <2> QED BY <2>2, <2>3 DEF NeverStalled, Stalls, MIN_TAKEOVER_DUTY
<1>4. ASSUME NEW a \in Task, LeaseStep(a) PROVE NeverStalled'
  <2>1. CASE TakeMode(a) \/ TakeWrite(a)
    <3>1. ~Stalls(job[a].target)
      BY <2>1 DEF TakeMode, TakeWrite, Aimed, Turning, Taking
    <3>2. \/ UNCHANGED hw
          \/ hw' = Held(0, NoTemp)
          \/ hw' = Held(Settle(job[a].target), job[a].therm)
          \/ hw' = Held(Settle(job[a].target), NoTemp)
      BY <2>1 DEF TakeMode, TakeWrite
    <3> QED BY <3>1, <3>2, <1>1, <1>2, <1>3
  <2>2. CASE SetHeld(a)
    <3>1. \/ UNCHANGED hw
          \/ /\ ~Stalls(job[a].target)
             /\ \/ hw' = Held(Settle(job[a].target), job[a].therm)
                \/ hw' = Held(Settle(job[a].target), NoTemp)
      BY <2>2 DEF SetHeld, Sends
    <3> QED BY <3>1, <1>1, <1>3
  <2>3. CASE WriteMode(a) \/ Book(a) \/ Store(a) \/ ReleaseHw(a) \/ Unmark(a) \/ Drop(a)
    BY <2>3, <1>1, <1>2 DEF WriteMode, Book, Store, ReleaseHw, Unmark, Drop
  <2> QED BY <1>4, <2>1, <2>2, <2>3 DEF LeaseStep
<1>5. ASSUME NEW c \in Client, Call(c) \/ Authorized(c) \/ Denied(c)
      PROVE  NeverStalled'
  BY <1>5, <1>1 DEF Call, Authorized, Denied
<1>6. CASE PollStep \/ PollPanic
  BY <1>6, <1>1 DEF PollStep, PollPanic, PollTick, PollProfile, PollResume,
     PollGovern, PollObserve, PollPublish
<1>7. CASE \/ SleepDown \/ SleepUnlock \/ SleepUp \/ WatchdogCheck \/ Terminate
           \/ Environment
  BY <1>7, <1>1 DEF SleepDown, SleepUnlock, SleepUp, WatchdogCheck, Terminate,
     Environment, Wedge, Unwedge, GoStale, PrepareForSleep, Suspend, Wake
<1>8. CASE Crash \/ Exit
  BY <1>8, <1>1 DEF Crash, Exit, Die
<1>9. CASE ExecStopPost \/ Start
  BY <1>9, <1>1, <1>2 DEF ExecStopPost, RestoreFan, Start, Reclaim
<1>10. CASE UNCHANGED vars
  BY <1>10, <1>1 DEF vars
<1> QED
  BY <1>4, <1>5, <1>6, <1>7, <1>8, <1>9, <1>10 DEF Next

\* On a board driven by raw EC commands the fan is never left at a duty that names a
\* turning fan and may not start one: EcFan::send refuses it, take_manual refuses it
\* before it records its belief, and quantization does not create one.
THEOREM TurningFan == ASSUME ~Observable PROVE Spec => []NeverStalled
<1>1. Init => Aimed /\ NeverStalled
  BY DEF Init, Aimed, Turning, Taking, NeverStalled, Firmware
<1>2. TypeOK /\ Aimed /\ NeverStalled /\ [Next]_vars => Aimed' /\ NeverStalled'
  BY AimedStep, StalledStep
<1> QED BY <1>1, <1>2, TypeCorrect, PTL DEF Spec
=============================================================================

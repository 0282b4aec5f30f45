---------------------------- MODULE ChargeLimit ----------------------------
(***************************************************************************)
(* The battery charge limit: the EC's pair of limits behind its host        *)
(* command (ec.rs, core ec.rs), SetChargeLimit and the re-application at    *)
(* start and resume (iface.rs, main.rs), a profile's own limit (apply_      *)
(* profile, main.rs), and what is persisted of it (state.rs).               *)
(*                                                                         *)
(* The EC's maximum is set by a read-modify-write of the pair without a     *)
(* lock, and recorded after it.  Calls run beside each other and beside the *)
(* poll task.  A command to the EC is one step.                             *)
(*                                                                         *)
(* Left out: the mirror in sysfs, which is written last and read by nobody  *)
(* here.                                                                    *)
(***************************************************************************)
EXTENDS StateFile, FiniteSets

CONSTANTS
  ChargeClient,   \* D-Bus clients
  Percent,        \* what clients ask for
  ProfileLimit,   \* charge limits in profiles
  Factory,        \* the EC's pair after a reset
  OtherMin,       \* minimums other tools have set before the daemon was started
  MaxChargeCalls, MaxChargeFaults, MaxChargeResets, MaxChargeStarts  \* bounds

MIN_LIMIT == 20
MAX_LIMIT == 100

ASSUME ChargeAssumption ==
  /\ Percent \subseteq 0..255 /\ ProfileLimit \subseteq 0..255 /\ None \notin Int
  /\ Factory \in [max : 0..255, min : 0..255] /\ OtherMin \subseteq 0..255
  /\ "poll" \notin ChargeClient

VARIABLES
  limits,      \* what the EC holds
  chargeUp,    \* "off", "starting", "up"
  charge_limit,  \* State::charge_limit
  chargeFile,  \* the state file, as it was last saved
  op,          \* op[t]: the operation task t is in
  woken,       \* the EC may have been reset, and the poll task has not been told yet
  asked,       \* history: what clients asked for and were authorized to
  parted,      \* history: something that is known to let the EC and the record differ
  chargeBudget \* counters behind the Max* bounds

chargeVars == <<limits, chargeUp, charge_limit, chargeFile, op, woken, asked, parted,
                chargeBudget>>

ChargeTask == ChargeClient \cup {"poll"}
NoOp == [pc |-> "idle", want |-> 0, min |-> 0, records |-> FALSE, alone |-> TRUE]
InRange(p) == MIN_LIMIT <= p /\ p <= MAX_LIMIT
Busy == {t \in ChargeTask : op[t].pc # "idle"}

ChargeInit ==
  /\ limits \in [max : {Factory.max}, min : {Factory.min} \cup OtherMin]
  /\ chargeUp = "off"
  /\ charge_limit = None /\ chargeFile = DefaultState
  /\ op = [t \in ChargeTask |-> NoOp]
  /\ woken = FALSE /\ asked = {} /\ parted = FALSE
  /\ chargeBudget = [calls |-> MaxChargeCalls, faults |-> MaxChargeFaults,
                     resets |-> MaxChargeResets, starts |-> MaxChargeStarts]

\* Whoever is at it is no longer alone.
Crowded ==
  [s \in ChargeTask |-> IF s \in Busy THEN [op[s] EXCEPT !.alone = FALSE] ELSE op[s]]

Begin(t, pc, want, records) ==
  op' = [Crowded EXCEPT ![t] = [pc |-> pc, want |-> want, min |-> 0, records |-> records,
                                alone |-> Busy = {}]]

To(t, pc) == op' = [op EXCEPT ![t].pc = pc]

\* A task ends.  Done alone, EC and record agree; anything else may part them.
End(t, agreed) ==
  /\ op' = [op EXCEPT ![t] = NoOp]
  /\ parted' = ~(agreed /\ op[t].alone)

Fault == chargeBudget.faults > 0
UseFault == chargeBudget' = [chargeBudget EXCEPT !.faults = @ - 1]
-----------------------------------------------------------------------------
\* SetChargeLimit, past polkit: the range is checked before anything is touched.
SetChargeLimit(t, p) ==
  /\ chargeUp = "up" /\ op[t].pc = "idle" /\ chargeBudget.calls > 0
  /\ chargeBudget' = [chargeBudget EXCEPT !.calls = @ - 1]
  /\ IF InRange(p)
     THEN /\ Begin(t, "get", p, TRUE)
          /\ asked' = asked \cup {p}
     ELSE UNCHANGED <<op, asked>>
  /\ UNCHANGED <<limits, chargeUp, charge_limit, chargeFile, woken, parted>>

\* reapply_charge_limit: nothing persisted, or the limit is copied and the EC asked.
Reapply(next) ==
  IF charge_limit = None THEN op' = Crowded ELSE Begin("poll", next, charge_limit, FALSE)

\* poll_loop has taken the resume.
ChargeResume ==
  /\ chargeUp = "up" /\ op["poll"].pc = "idle" /\ woken
  /\ woken' = FALSE
  /\ Reapply("compare")
  /\ UNCHANGED <<limits, chargeUp, charge_limit, chargeFile, asked, parted, chargeBudget>>

\* apply_profile: the limit is set and not recorded.
ApplyProfileLimit(p) ==
  /\ chargeUp = "up" /\ op["poll"].pc = "idle" /\ InRange(p)
  /\ Begin("poll", "get", p, FALSE)
  /\ UNCHANGED <<limits, chargeUp, charge_limit, chargeFile, woken, asked, parted, chargeBudget>>

\* read_charge_limit, before the re-application: a limit that is right is left alone, one
\* that is wrong or cannot be read is set; one out of range fails there.
Compare ==
  /\ op["poll"].pc = "compare"
  /\ \/ /\ limits.max = op["poll"].want
        /\ End("poll", TRUE)
        /\ UNCHANGED chargeBudget
     \/ /\ limits.max # op["poll"].want
        /\ IF InRange(op["poll"].want) THEN To("poll", "get") /\ UNCHANGED parted
                                       ELSE End("poll", FALSE)
        /\ UNCHANGED chargeBudget
     \/ /\ Fault /\ UseFault
        /\ IF InRange(op["poll"].want) THEN To("poll", "get") /\ UNCHANGED parted
                                       ELSE End("poll", FALSE)
  /\ UNCHANGED <<limits, chargeUp, charge_limit, chargeFile, woken, asked>>

\* set_max, first command: the minimum is the EC's own.
Get(t) ==
  /\ op[t].pc = "get"
  /\ \/ /\ op' = [op EXCEPT ![t].pc = "set", ![t].min = limits.min]
        /\ UNCHANGED <<parted, chargeBudget>>
     \/ Fault /\ UseFault /\ End(t, FALSE)
  /\ UNCHANGED <<limits, chargeUp, charge_limit, chargeFile, woken, asked>>

\* Mutant: the minimum goes first on the wire.
SetRequestMinFirst(min, max) == [max |-> min, min |-> max]

\* set_request as the EC decodes it.
SetRequest(min, max) == [max |-> max, min |-> min]

\* set_max, second command; a failed one may have reached the EC.
Set(t) ==
  /\ op[t].pc = "set"
  /\ \/ /\ limits' = SetRequest(op[t].min, op[t].want)
        /\ To(t, "verify")
        /\ UNCHANGED <<parted, chargeBudget>>
     \/ /\ Fault /\ UseFault /\ End(t, FALSE)
        /\ limits' \in {limits, SetRequest(op[t].min, op[t].want)}
  /\ UNCHANGED <<chargeUp, charge_limit, chargeFile, woken, asked>>

\* The read-back, which another writer or a reset may have reached first.  Only a call
\* has a result to record.
Verify(t) ==
  /\ op[t].pc = "verify"
  /\ \/ /\ limits.max = op[t].want
        /\ IF op[t].records THEN To(t, "record") /\ UNCHANGED parted
                            ELSE End(t, op[t].want = charge_limit)
        /\ UNCHANGED chargeBudget
     \/ limits.max # op[t].want /\ End(t, FALSE) /\ UNCHANGED chargeBudget
     \/ Fault /\ UseFault /\ End(t, FALSE)
  /\ UNCHANGED <<limits, chargeUp, charge_limit, chargeFile, woken, asked>>

\* set_charge_limit (iface.rs) records what it has verified and saves it.
RecordLimit(t) ==
  /\ op[t].pc = "record"
  /\ charge_limit' = op[t].want
  /\ chargeFile' = [chargeFile EXCEPT !["charge_limit"] = op[t].want]
  /\ End(t, TRUE)
  /\ UNCHANGED <<limits, chargeUp, woken, asked, chargeBudget>>

\* A suspend during which firmware resets the EC's pair; the poll task hears of it later.
FirmwareReset ==
  /\ chargeBudget.resets > 0
  /\ chargeBudget' = [chargeBudget EXCEPT !.resets = @ - 1]
  /\ limits' = Factory
  /\ woken' = TRUE
  /\ UNCHANGED <<chargeUp, charge_limit, chargeFile, op, asked, parted>>

\* A crash or a power failure.
ChargeDown ==
  /\ chargeUp # "off"
  /\ chargeUp' = "off"
  /\ chargeFile' \in Loadable(chargeFile)
  /\ charge_limit' = None
  /\ op' = [t \in ChargeTask |-> NoOp]
  /\ UNCHANGED <<limits, woken, asked, parted, chargeBudget>>

\* Mutant: the limit is left to the next resume.
StartLater ==
  /\ chargeUp = "off" /\ chargeBudget.starts > 0
  /\ chargeBudget' = [chargeBudget EXCEPT !.starts = @ - 1]
  /\ chargeUp' = "up"
  /\ charge_limit' = chargeFile["charge_limit"]
  /\ parted' = FALSE /\ woken' = FALSE
  /\ UNCHANGED <<limits, chargeFile, op, asked>>

\* main: the file is read and the limit re-applied before the bus is served.
ChargeStart ==
  /\ chargeUp = "off" /\ chargeBudget.starts > 0
  /\ chargeBudget' = [chargeBudget EXCEPT !.starts = @ - 1]
  /\ chargeUp' = "starting"
  /\ charge_limit' = chargeFile["charge_limit"]
  /\ IF charge_limit' = None THEN UNCHANGED op
     ELSE Begin("poll", "compare", charge_limit', FALSE)
  /\ parted' = FALSE /\ woken' = FALSE
  /\ UNCHANGED <<limits, chargeFile, asked>>

Serve ==
  /\ chargeUp = "starting" /\ op["poll"].pc = "idle"
  /\ chargeUp' = "up"
  /\ UNCHANGED <<limits, charge_limit, chargeFile, op, woken, asked, parted, chargeBudget>>

ChargeNext ==
  \/ ChargeResume \/ Compare \/ FirmwareReset \/ ChargeDown \/ ChargeStart \/ Serve
  \/ \E p \in ProfileLimit : ApplyProfileLimit(p)
  \/ \E t \in ChargeClient : \/ \E p \in Percent : SetChargeLimit(t, p)
                             \/ RecordLimit(t)
  \/ \E t \in ChargeTask : Get(t) \/ Set(t) \/ Verify(t)

ChargeSpec == ChargeInit /\ [][ChargeNext]_chargeVars
-----------------------------------------------------------------------------
ChargeTypeOK ==
  /\ limits \in [max : 0..255, min : 0..255]
  /\ chargeUp \in {"off", "starting", "up"}
  /\ charge_limit \in 0..255 \cup {None}
  /\ chargeFile["charge_limit"] \in 0..255 \cup {None}
  /\ op \in [ChargeTask -> [pc : {"idle", "compare", "get", "set", "verify", "record"},
                            want : 0..255, min : 0..255, records : BOOLEAN, alone : BOOLEAN]]
  /\ asked \subseteq Percent

\* The EC only ever stops charging at a percentage somebody chose or at its own default,
\* and its minimum stays its own: through overlapping writers, resets, failures, crashes
\* and a state file cut short in the middle of a number (set_max, set_charge_limit,
\* State::load).
ChargeIsChosen ==
  /\ limits.max \in asked \cup ProfileLimit \cup {Factory.max}
  /\ limits.min \in OtherMin \cup {Factory.min}

\* With nothing under way the EC holds what is recorded, also after a crash and a resume,
\* unless the last writer failed, overlapped with another or applied a profile's own
\* limit (reapply_charge_limit, set_charge_limit).
ChargeLimitHolds ==
  chargeUp = "up" /\ Busy = {} /\ ~woken /\ ~parted /\ charge_limit # None
    => limits.max = charge_limit
=============================================================================

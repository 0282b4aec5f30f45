------------------------- MODULE ChargeLimit_proofs -------------------------
(***************************************************************************)
(* Whatever the EC's charge limits come to hold, somebody has chosen it:    *)
(* for any number of clients, any calls, failures, resets, crashes and      *)
(* state files cut short.                                                   *)
(***************************************************************************)
EXTENDS ChargeLimit, TLAPS

Pcs == {"idle", "compare", "get", "set", "verify", "record"}
OpRecord == [pc : Pcs, want : 0..255, min : 0..255, records : BOOLEAN, alone : BOOLEAN]

\* What a record of A's choices may read as: one of them, or a number cut short, which is
\* out of the range of limits.
Recorded(v, A) == v = None \/ v \in A \/ v \in 0..(MIN_LIMIT - 1)

\* What an operation may be about to do.
TaskOK(o, A) ==
  /\ o.pc = "compare" => Recorded(o.want, A)
  /\ o.pc \in {"get", "set", "verify", "record"} => o.want \in A \cup ProfileLimit
  /\ o.pc = "set" => o.min \in OtherMin \cup {Factory.min}
  /\ o.pc = "record" => o.records
  /\ o.records => o.want \in A

Alike(o, q) ==
  o.pc = q.pc /\ o.want = q.want /\ o.min = q.min /\ (o.records <=> q.records)

\* The file is a function of the settings.
FileOK ==
  /\ chargeFile = [f \in DOMAIN chargeFile |-> chargeFile[f]]
  /\ "charge_limit" \in DOMAIN chargeFile

AskedOK == asked \subseteq Percent \cap (MIN_LIMIT..MAX_LIMIT)

RecordOK == Recorded(charge_limit, asked) /\ Recorded(chargeFile["charge_limit"], asked)

TasksOK == \A t \in ChargeTask : TaskOK(op[t], asked)

\* ChargeIsChosen holds because every operation that may write carries a chosen limit
\* and, between its two commands, a minimum of the EC's own.
ChargeInv == ChargeTypeOK /\ FileOK /\ AskedOK /\ RecordOK /\ TasksOK /\ ChargeIsChosen
-----------------------------------------------------------------------------
(* The file *)

LEMMA CutIsRecorded ==
  ASSUME NEW A \in SUBSET (MIN_LIMIT..MAX_LIMIT), NEW v, Recorded(v, A),
         NEW w \in CutNumber(v)
  PROVE  Recorded(w, A)
<1>1. CASE w = None
  BY <1>1 DEF Recorded
<1>2. CASE w # None
  <2>1. v # None /\ w \in {v \div 10, v \div 100}
    BY <1>2 DEF CutNumber
  <2>2. v \in 0..100
    <3>1. v # None
      BY <2>1
    <3>2. A \subseteq 0..100
      BY DEF MIN_LIMIT, MAX_LIMIT
    <3>3. 0..(MIN_LIMIT - 1) \subseteq 0..100
      BY DEF MIN_LIMIT
    <3> QED BY <3>1, <3>2, <3>3 DEF Recorded
  <2>3. w \in 0..19
    BY <2>1, <2>2
  <2> QED BY <2>3 DEF Recorded, MIN_LIMIT
<1> QED BY <1>1, <1>2

\* Whatever a start finds of a record is a record.
LEMMA LoadableIsRecorded ==
  ASSUME NEW A \in SUBSET (MIN_LIMIT..MAX_LIMIT), NEW s,
         s = [f \in DOMAIN s |-> s[f]], "charge_limit" \in DOMAIN s,
         Recorded(s["charge_limit"], A), NEW r \in Loadable(s)
  PROVE  /\ r = [f \in DOMAIN r |-> r[f]] /\ "charge_limit" \in DOMAIN r
         /\ Recorded(r["charge_limit"], A)
<1>1. CASE r = s
  BY <1>1
<1>2. CASE r # s
  <2>1. PICK n \in 1..5 : r \in TornAt(s, n)
    BY <1>2 DEF Loadable
  <2>2. PICK v \in Cut(Fields[n], s[Fields[n]]) :
          r = [f \in DOMAIN s |-> IF f = Fields[n] THEN v
                                  ELSE IF \E i \in 1..(n - 1) : f = Fields[i]
                                       THEN s[f] ELSE None]
    BY <2>1, Zenon DEF TornAt
  <2>3. r["charge_limit"] \in {v, s["charge_limit"], None}
    BY <2>2
  <2>4. CASE Fields[n] = "charge_limit"
    <3>1. Cut(Fields[n], s[Fields[n]]) = CutNumber(s["charge_limit"])
      BY <2>4 DEF Cut, Numbers
    <3>2. Recorded(v, A)
      BY <3>1, CutIsRecorded
    <3>3. r["charge_limit"] = v
      BY <2>2, <2>4
    <3> QED BY <2>2, <3>2, <3>3
  <2>5. CASE Fields[n] # "charge_limit"
    <3>1. r["charge_limit"] \in {s["charge_limit"], None}
      BY <2>2, <2>5
    <3>2. Recorded(r["charge_limit"], A)
      BY <3>1 DEF Recorded
    <3> QED BY <2>2, <3>2
  <2> QED BY <2>4, <2>5
<1> QED BY <1>1, <1>2

LEMMA RecordedMore ==
  ASSUME NEW A, NEW B, A \subseteq B, NEW v, Recorded(v, A)
  PROVE  Recorded(v, B)
  BY DEF Recorded
-----------------------------------------------------------------------------
(* Operations *)

LEMMA AlikeOK ==
  ASSUME NEW A, NEW B, A \subseteq B, NEW o, NEW q, Alike(o, q), TaskOK(o, A)
  PROVE  TaskOK(q, B)
  BY DEF Alike, TaskOK, Recorded

LEMMA NoOpOK == NoOp \in OpRecord /\ \A A : TaskOK(NoOp, A)
  BY DEF NoOp, OpRecord, Pcs, TaskOK

LEMMA CrowdedFacts ==
  ASSUME ChargeTypeOK
  PROVE  /\ Crowded \in [ChargeTask -> OpRecord]
         /\ \A s \in ChargeTask : Alike(op[s], Crowded[s])
<1>1. op \in [ChargeTask -> OpRecord]
  BY DEF ChargeTypeOK, OpRecord, Pcs
<1>2. ASSUME NEW s \in ChargeTask
      PROVE  Crowded[s] \in OpRecord /\ Alike(op[s], Crowded[s])
  <2>1. CASE s \in Busy
    <3>1. Crowded[s] = [op[s] EXCEPT !.alone = FALSE]
      BY <2>1 DEF Crowded
    <3>2. op[s] \in OpRecord
      BY <1>1
    <3>3. [op[s] EXCEPT !.alone = FALSE] \in OpRecord
      BY <3>2 DEF OpRecord
    <3>4. Alike(op[s], [op[s] EXCEPT !.alone = FALSE])
      BY <3>2 DEF OpRecord, Alike
    <3> QED BY <3>1, <3>3, <3>4
  <2>2. CASE s \notin Busy
    <3>1. Crowded[s] = op[s]
      BY <2>2 DEF Crowded
    <3> QED BY <1>1, <3>1 DEF Alike
  <2> QED BY <2>1, <2>2
<1> QED BY <1>2, Zenon DEF Crowded

LEMMA BeginFacts ==
  ASSUME ChargeTypeOK, TasksOK, asked \subseteq asked',
         NEW t \in ChargeTask, NEW pc \in Pcs, NEW want \in 0..255, NEW records \in BOOLEAN,
         Begin(t, pc, want, records),
         pc \in {"idle", "compare", "get"},
         pc = "compare" => Recorded(want, asked'),
         pc = "get" => want \in asked' \cup ProfileLimit,
         records => want \in asked'
  PROVE  op' \in [ChargeTask -> OpRecord] /\ TasksOK'
<1> DEFINE new == [pc |-> pc, want |-> want, min |-> 0, records |-> records,
                   alone |-> Busy = {}]
<1>1. op' = [Crowded EXCEPT ![t] = new]
  BY DEF Begin
<1>2. (Busy = {}) \in BOOLEAN
  OBVIOUS
<1>3. new \in OpRecord
  BY <1>2 DEF OpRecord
<1>4. TaskOK(new, asked')
  BY DEF TaskOK
<1> HIDE DEF new
<1>5. op' \in [ChargeTask -> OpRecord]
  BY <1>1, <1>3, CrowdedFacts
<1>6. ASSUME NEW s \in ChargeTask
      PROVE  TaskOK(op'[s], asked')
  <2>1. CASE s = t
    BY <1>1, <1>4, <2>1, CrowdedFacts
  <2>2. CASE s # t
    <3>1. op'[s] = Crowded[s]
      BY <1>1, <2>2, CrowdedFacts
    <3> QED BY <3>1, CrowdedFacts, AlikeOK DEF TasksOK
  <2> QED BY <2>1, <2>2
<1> QED BY <1>5, <1>6 DEF TasksOK

LEMMA CrowdedStep ==
  ASSUME ChargeTypeOK, TasksOK, asked' = asked, op' = Crowded
  PROVE  op' \in [ChargeTask -> OpRecord] /\ TasksOK'
  BY CrowdedFacts, AlikeOK DEF TasksOK

\* One task moves on, the others stay.
LEMMA MoveFacts ==
  ASSUME ChargeTypeOK, TasksOK, asked' = asked,
         NEW t \in ChargeTask, NEW new \in OpRecord, TaskOK(new, asked),
         op' = [op EXCEPT ![t] = new]
  PROVE  op' \in [ChargeTask -> OpRecord] /\ TasksOK'
<1>1. op \in [ChargeTask -> OpRecord]
  BY DEF ChargeTypeOK, OpRecord, Pcs
<1>2. \A s \in ChargeTask : op'[s] = IF s = t THEN new ELSE op[s]
  BY <1>1
<1> QED BY <1>1, <1>2 DEF TasksOK

LEMMA EndFacts ==
  ASSUME ChargeTypeOK, TasksOK, asked' = asked, NEW t \in ChargeTask, NEW agreed,
         End(t, agreed)
  PROVE  op' \in [ChargeTask -> OpRecord] /\ TasksOK'
  BY MoveFacts, NoOpOK DEF End

LEMMA ToFacts ==
  ASSUME ChargeTypeOK, TasksOK, asked' = asked, NEW t \in ChargeTask,
         NEW pc \in {"get", "verify", "record"}, To(t, pc),
         op[t].want \in asked \cup ProfileLimit,
         pc = "record" => op[t].records
  PROVE  op' \in [ChargeTask -> OpRecord] /\ TasksOK'
<1> DEFINE new == [op[t] EXCEPT !.pc = pc]
<1>1. op[t] \in OpRecord
  BY DEF ChargeTypeOK, OpRecord, Pcs
<1>2. new \in OpRecord
  BY <1>1 DEF OpRecord, Pcs
<1>3. TaskOK(op[t], asked)
  BY DEF TasksOK
<1>4. TaskOK(new, asked)
  <2>1. /\ new.pc = pc /\ new.want = op[t].want /\ new.min = op[t].min
        /\ new.records <=> op[t].records
    BY <1>1 DEF OpRecord
  <2> HIDE DEF new
  <2> QED BY <1>3, <2>1 DEF TaskOK
<1>5. op' = [op EXCEPT ![t] = new]
  BY DEF To
<1> HIDE DEF new
<1> QED BY <1>2, <1>4, <1>5, MoveFacts
-----------------------------------------------------------------------------
\* The parts of the invariant a step can disturb, for a step that leaves the records.
LEMMA Assemble ==
  ASSUME ChargeInv, op' \in [ChargeTask -> OpRecord], TasksOK', asked' = asked,
         limits' \in [max : 0..255, min : 0..255],
         chargeUp' \in {"off", "starting", "up"},
         UNCHANGED <<charge_limit, chargeFile>>, ChargeIsChosen'
  PROVE  ChargeInv'
  BY DEF ChargeInv, ChargeTypeOK, FileOK, AskedOK, RecordOK, OpRecord, Pcs

\* ... and that leaves the EC too.
LEMMA AssembleQuiet ==
  ASSUME ChargeInv, op' \in [ChargeTask -> OpRecord], TasksOK', asked' = asked,
         chargeUp' \in {"off", "starting", "up"},
         UNCHANGED <<charge_limit, chargeFile, limits>>
  PROVE  ChargeInv'
<1>1. ChargeIsChosen' /\ limits' \in [max : 0..255, min : 0..255]
  BY DEF ChargeInv, ChargeIsChosen, ChargeTypeOK
<1> QED BY <1>1, Assemble

LEMMA ChargeInitInv == ChargeInit => ChargeInv
<1> SUFFICES ASSUME ChargeInit
             PROVE  ChargeInv
  OBVIOUS
<1>1. chargeFile = DefaultState /\ Fields[1] = "charge_limit"
  BY DEF ChargeInit, Fields
<1>2. "charge_limit" \in {Fields[i] : i \in 1..5}
  BY <1>1
<1>3. FileOK /\ chargeFile["charge_limit"] = None
  BY <1>1, <1>2, Zenon DEF FileOK, DefaultState
<1>4. op \in [ChargeTask -> OpRecord] /\ TasksOK
  BY NoOpOK DEF ChargeInit, TasksOK
<1>5. ChargeTypeOK
  BY <1>3, <1>4, ChargeAssumption DEF ChargeInit, ChargeTypeOK, OpRecord, Pcs
<1>6. AskedOK /\ RecordOK
  BY <1>3 DEF ChargeInit, AskedOK, RecordOK, Recorded
<1>7. ChargeIsChosen
  BY DEF ChargeInit, ChargeIsChosen
<1> QED BY <1>3, <1>4, <1>5, <1>6, <1>7 DEF ChargeInv

LEMMA SetStep ==
  ASSUME ChargeInv, NEW t \in ChargeTask, Set(t)
  PROVE  ChargeInv'
<1>1. /\ op[t].want \in asked \cup ProfileLimit
      /\ op[t].min \in OtherMin \cup {Factory.min}
      /\ op[t].want \in 0..255 /\ op[t].min \in 0..255
  BY DEF ChargeInv, TasksOK, TaskOK, Set, ChargeTypeOK
<1>2. limits' \in {limits, SetRequest(op[t].min, op[t].want)}
  BY DEF Set
<1>3. limits' \in [max : 0..255, min : 0..255] /\ ChargeIsChosen'
  <2>1. CASE limits' = limits
    BY <2>1 DEF ChargeInv, ChargeTypeOK, ChargeIsChosen, Set
  <2>2. CASE limits' = SetRequest(op[t].min, op[t].want)
    BY <1>1, <2>2 DEF ChargeIsChosen, SetRequest, Set
  <2> QED BY <1>2, <2>1, <2>2
<1>4. op' \in [ChargeTask -> OpRecord] /\ TasksOK'
  <2>1. CASE To(t, "verify")
    BY <1>1, <2>1, ToFacts DEF Set, ChargeInv
  <2>2. CASE End(t, FALSE)
    BY <2>2, EndFacts DEF Set, ChargeInv
  <2> QED BY <2>1, <2>2 DEF Set
<1> QED BY <1>3, <1>4, Assemble DEF Set, ChargeInv, ChargeTypeOK

LEMMA GetStep ==
  ASSUME ChargeInv, NEW t \in ChargeTask, Get(t)
  PROVE  ChargeInv'
<1> DEFINE new == [op[t] EXCEPT !.pc = "set", !.min = limits.min]
<1>1. op[t] \in OpRecord /\ limits.min \in 0..255
  BY DEF ChargeInv, ChargeTypeOK, OpRecord, Pcs
<1>2. op[t].pc = "get" /\ op[t].want \in asked \cup ProfileLimit
  BY DEF ChargeInv, TasksOK, TaskOK, Get
<1>3. limits.min \in OtherMin \cup {Factory.min}
  BY DEF ChargeInv, ChargeIsChosen
<1>4. new \in OpRecord
  BY <1>1 DEF OpRecord, Pcs
<1>5. TaskOK(new, asked)
  <2>1. /\ new.pc = "set" /\ new.want = op[t].want /\ new.min = limits.min
        /\ new.records <=> op[t].records
    BY <1>1 DEF OpRecord
  <2>2. op[t].records => op[t].want \in asked
    BY DEF ChargeInv, TasksOK, TaskOK
  <2> HIDE DEF new
  <2> QED BY <1>2, <1>3, <2>1, <2>2 DEF TaskOK
<1>6. op' \in [ChargeTask -> OpRecord] /\ TasksOK'
  <2>1. CASE op' = [op EXCEPT ![t].pc = "set", ![t].min = limits.min]
    <3>1. op' = [op EXCEPT ![t] = new]
      BY <2>1, <1>1 DEF ChargeInv, ChargeTypeOK
    <3> HIDE DEF new
    <3> QED BY <1>4, <1>5, <3>1, MoveFacts DEF Get, ChargeInv
  <2>2. CASE End(t, FALSE)
    BY <2>2, EndFacts DEF Get, ChargeInv
  <2> QED BY <2>1, <2>2 DEF Get
<1> QED BY <1>6, AssembleQuiet DEF Get, ChargeInv, ChargeTypeOK

LEMMA VerifyStep ==
  ASSUME ChargeInv, NEW t \in ChargeTask, Verify(t)
  PROVE  ChargeInv'
<1>1. op[t].want \in asked \cup ProfileLimit
  BY DEF ChargeInv, TasksOK, TaskOK, Verify
<1>2. op' \in [ChargeTask -> OpRecord] /\ TasksOK'
  <2>1. CASE op[t].records /\ To(t, "record")
    BY <1>1, <2>1, ToFacts DEF Verify, ChargeInv
  <2>2. CASE End(t, op[t].want = charge_limit) \/ End(t, FALSE)
    BY <2>2, EndFacts DEF Verify, ChargeInv
  <2> QED BY <2>1, <2>2 DEF Verify
<1> QED BY <1>2, AssembleQuiet DEF Verify, ChargeInv, ChargeTypeOK

LEMMA CompareStep ==
  ASSUME ChargeInv, Compare
  PROVE  ChargeInv'
<1>1. "poll" \in ChargeTask
  BY DEF ChargeTask
<1>2. InRange(op["poll"].want) => op["poll"].want \in asked
  <2>1. Recorded(op["poll"].want, asked) /\ op["poll"].want \in 0..255
    BY <1>1 DEF Compare, ChargeInv, TasksOK, TaskOK, ChargeTypeOK
  <2> QED BY <2>1, ChargeAssumption DEF Recorded, InRange, MIN_LIMIT
<1>3. op' \in [ChargeTask -> OpRecord] /\ TasksOK'
  <2>1. CASE InRange(op["poll"].want) /\ To("poll", "get")
    BY <1>1, <1>2, <2>1, ToFacts DEF Compare, ChargeInv
  <2>2. CASE End("poll", TRUE) \/ End("poll", FALSE)
    BY <1>1, <2>2, EndFacts DEF Compare, ChargeInv
  <2> QED BY <2>1, <2>2 DEF Compare
<1> QED BY <1>3, AssembleQuiet DEF Compare, ChargeInv, ChargeTypeOK

LEMMA RecordStep ==
  ASSUME ChargeInv, NEW t \in ChargeTask, RecordLimit(t)
  PROVE  ChargeInv'
<1>1. op[t].want \in asked /\ op[t].want \in 0..255
  BY DEF ChargeInv, TasksOK, TaskOK, RecordLimit, ChargeTypeOK
<1>2. op' \in [ChargeTask -> OpRecord] /\ TasksOK'
  BY EndFacts DEF RecordLimit, ChargeInv
<1>3. FileOK' /\ chargeFile'["charge_limit"] = op[t].want
  BY DEF RecordLimit, ChargeInv, FileOK
<1>4. ChargeTypeOK'
  BY <1>1, <1>2, <1>3 DEF RecordLimit, ChargeInv, ChargeTypeOK, OpRecord, Pcs
<1>5. AskedOK' /\ RecordOK' /\ ChargeIsChosen'
  BY <1>1, <1>3 DEF RecordLimit, ChargeInv, AskedOK, RecordOK, Recorded, ChargeIsChosen
<1> QED BY <1>2, <1>3, <1>4, <1>5 DEF ChargeInv

LEMMA SetChargeLimitStep ==
  ASSUME ChargeInv, NEW t \in ChargeTask, NEW p \in Percent, SetChargeLimit(t, p)
  PROVE  ChargeInv'
<1>1. CASE InRange(p)
  <2>1. asked' = asked \cup {p} /\ Begin(t, "get", p, TRUE) /\ p \in 0..255
    BY <1>1, ChargeAssumption DEF SetChargeLimit
  <2>2. op' \in [ChargeTask -> OpRecord] /\ TasksOK'
    BY <2>1, BeginFacts DEF ChargeInv, Pcs
  <2>3. AskedOK'
    BY <1>1, <2>1, ChargeAssumption DEF ChargeInv, AskedOK, InRange, MIN_LIMIT, MAX_LIMIT
  <2>4. ChargeTypeOK'
    BY <2>1, <2>2 DEF SetChargeLimit, ChargeInv, ChargeTypeOK, OpRecord, Pcs
  <2>5. RecordOK' /\ FileOK' /\ ChargeIsChosen'
    BY <2>1, RecordedMore
    DEF SetChargeLimit, ChargeInv, RecordOK, FileOK, ChargeIsChosen
  <2> QED BY <2>2, <2>3, <2>4, <2>5 DEF ChargeInv
<1>2. CASE ~InRange(p)
  <2>1. UNCHANGED <<op, asked, limits, chargeUp, charge_limit, chargeFile>>
    BY <1>2 DEF SetChargeLimit
  <2> QED BY <2>1 DEF ChargeInv, ChargeTypeOK, FileOK, AskedOK, RecordOK, TasksOK,
                      ChargeIsChosen
<1> QED BY <1>1, <1>2

\* A re-application carries what is recorded.
LEMMA ReapplyFacts ==
  ASSUME ChargeInv, asked' = asked, Reapply("compare")
  PROVE  op' \in [ChargeTask -> OpRecord] /\ TasksOK'
<1>1. "poll" \in ChargeTask
  BY DEF ChargeTask
<1>2. CASE charge_limit = None
  BY <1>2, CrowdedStep DEF Reapply, ChargeInv
<1>3. CASE charge_limit # None
  <2>1. charge_limit \in 0..255 /\ Recorded(charge_limit, asked')
    BY <1>3 DEF ChargeInv, ChargeTypeOK, RecordOK
  <2>2. Begin("poll", "compare", charge_limit, FALSE)
    BY <1>3 DEF Reapply
  <2> QED BY <1>1, <2>1, <2>2, BeginFacts DEF ChargeInv, Pcs
<1> QED BY <1>2, <1>3

LEMMA ApplyProfileStep ==
  ASSUME ChargeInv, NEW p \in ProfileLimit, ApplyProfileLimit(p)
  PROVE  ChargeInv'
<1>1. "poll" \in ChargeTask /\ p \in 0..255
  BY ChargeAssumption DEF ChargeTask
<1>2. op' \in [ChargeTask -> OpRecord] /\ TasksOK'
  BY <1>1, BeginFacts DEF ApplyProfileLimit, ChargeInv, Pcs
<1> QED BY <1>2, AssembleQuiet DEF ApplyProfileLimit, ChargeInv, ChargeTypeOK

LEMMA ResetStep ==
  ASSUME ChargeInv, FirmwareReset
  PROVE  ChargeInv'
<1>1. UNCHANGED <<op, asked, chargeUp, charge_limit, chargeFile>> /\ limits' = Factory
  BY DEF FirmwareReset
<1>2. limits'.max = Factory.max /\ limits'.min = Factory.min
  BY <1>1
<1>3. ChargeIsChosen'
  BY <1>2 DEF ChargeIsChosen
<1>4. limits' \in [max : 0..255, min : 0..255]
  BY <1>1, ChargeAssumption
<1> QED BY <1>1, <1>3, <1>4
        DEF ChargeInv, ChargeTypeOK, FileOK, AskedOK, RecordOK, TasksOK

LEMMA DownStep ==
  ASSUME ChargeInv, ChargeDown
  PROVE  ChargeInv'
<1>1. asked \in SUBSET (MIN_LIMIT..MAX_LIMIT)
  BY DEF ChargeInv, AskedOK
<1>2. FileOK' /\ Recorded(chargeFile'["charge_limit"], asked)
  BY <1>1, LoadableIsRecorded DEF ChargeDown, ChargeInv, FileOK, RecordOK
<1>3. chargeFile'["charge_limit"] \in 0..255 \cup {None}
  <2>1. asked \subseteq 0..255
    BY <1>1 DEF MIN_LIMIT, MAX_LIMIT
  <2>2. 0..(MIN_LIMIT - 1) \subseteq 0..255
    BY DEF MIN_LIMIT
  <2> QED BY <1>2, <2>1, <2>2 DEF Recorded
<1>4. op' \in [ChargeTask -> OpRecord] /\ TasksOK'
  BY NoOpOK DEF ChargeDown, TasksOK
<1>5. ChargeTypeOK'
  BY <1>3, <1>4 DEF ChargeDown, ChargeInv, ChargeTypeOK, OpRecord, Pcs
<1>6. AskedOK' /\ RecordOK' /\ ChargeIsChosen'
  BY <1>2 DEF ChargeDown, ChargeInv, AskedOK, RecordOK, Recorded, ChargeIsChosen
<1> QED BY <1>2, <1>4, <1>5, <1>6 DEF ChargeInv

LEMMA StartStep ==
  ASSUME ChargeInv, ChargeStart
  PROVE  ChargeInv'
<1>1. "poll" \in ChargeTask
  BY DEF ChargeTask
<1>2. /\ charge_limit' \in 0..255 \cup {None}
      /\ Recorded(charge_limit', asked')
  BY DEF ChargeStart, ChargeInv, ChargeTypeOK, RecordOK
<1>3. op' \in [ChargeTask -> OpRecord] /\ TasksOK'
  <2>1. CASE charge_limit' = None
    BY <2>1 DEF ChargeStart, ChargeInv, ChargeTypeOK, TasksOK, OpRecord, Pcs
  <2>2. CASE charge_limit' # None
    <3>1. Begin("poll", "compare", charge_limit', FALSE) /\ charge_limit' \in 0..255
      BY <1>2, <2>2 DEF ChargeStart
    <3> QED BY <1>1, <1>2, <3>1, BeginFacts DEF ChargeStart, ChargeInv, Pcs
  <2> QED BY <2>1, <2>2
<1>4. ChargeTypeOK'
  BY <1>2, <1>3 DEF ChargeStart, ChargeInv, ChargeTypeOK, OpRecord, Pcs
<1>5. FileOK' /\ AskedOK' /\ RecordOK' /\ ChargeIsChosen'
  BY <1>2 DEF ChargeStart, ChargeInv, FileOK, AskedOK, RecordOK, ChargeIsChosen
<1> QED BY <1>3, <1>4, <1>5 DEF ChargeInv

LEMMA ChargeStep == ChargeInv /\ [ChargeNext]_chargeVars => ChargeInv'
<1> SUFFICES ASSUME ChargeInv, [ChargeNext]_chargeVars
             PROVE  ChargeInv'
  OBVIOUS
<1>1. CASE ChargeResume
  BY <1>1, ReapplyFacts, AssembleQuiet DEF ChargeResume, ChargeInv, ChargeTypeOK
<1>2. CASE Compare
  BY <1>2, CompareStep
<1>3. CASE FirmwareReset
  BY <1>3, ResetStep
<1>4. CASE ChargeDown
  BY <1>4, DownStep
<1>5. CASE ChargeStart
  BY <1>5, StartStep
<1>6. CASE Serve
  BY <1>6 DEF Serve, ChargeInv, ChargeTypeOK, FileOK, AskedOK, RecordOK, TasksOK,
              ChargeIsChosen
<1>7. CASE \E p \in ProfileLimit : ApplyProfileLimit(p)
  BY <1>7, ApplyProfileStep
<1>8. CASE \E t \in ChargeClient : \/ \E p \in Percent : SetChargeLimit(t, p)
                                   \/ RecordLimit(t)
  <2>1. ChargeClient \subseteq ChargeTask
    BY DEF ChargeTask
  <2> QED BY <1>8, <2>1, SetChargeLimitStep, RecordStep
<1>9. CASE \E t \in ChargeTask : Get(t) \/ Set(t) \/ Verify(t)
  BY <1>9, GetStep, SetStep, VerifyStep
<1>10. CASE UNCHANGED chargeVars
  BY <1>10 DEF chargeVars, ChargeInv, ChargeTypeOK, FileOK, AskedOK, RecordOK, TasksOK,
               ChargeIsChosen
<1> QED BY <1>1, <1>2, <1>3, <1>4, <1>5, <1>6, <1>7, <1>8, <1>9, <1>10 DEF ChargeNext

LEMMA ChargeInvSafe == ChargeSpec => []ChargeInv
  BY ChargeInitInv, ChargeStep, PTL DEF ChargeSpec

\* The EC's pair, the record, the file and every operation are of their types
\* (ec.rs, iface.rs).
THEOREM ChargeTypeSafe == ChargeSpec => []ChargeTypeOK
<1>1. ChargeInv => ChargeTypeOK
  BY DEF ChargeInv
<1> QED BY <1>1, ChargeInvSafe, PTL

\* The EC stops charging only at a percentage somebody chose or at its own default and
\* keeps its own minimum, whatever overlaps, fails, is reset, crashes or is cut short
\* (set_max, set_charge_limit, State::load).
THEOREM ChargeIsChosenSafe == ChargeSpec => []ChargeIsChosen
<1>1. ChargeInv => ChargeIsChosen
  BY DEF ChargeInv
<1> QED BY <1>1, ChargeInvSafe, PTL
-----------------------------------------------------------------------------
(* The EC holds what is recorded *)

\* An operation nothing has overlapped yet.
Solo(t) == op[t].pc # "idle" /\ op[t].alone

\* ChargeLimitHolds is not inductive: it says nothing of an operation that is under way.
\* One that is alone really is, carries what is recorded while it compares, and has the
\* EC's agreement when it records.
HoldInv ==
  /\ \A t, s \in ChargeTask : Solo(t) /\ op[s].pc # "idle" => s = t
  /\ \A t \in ChargeTask : Solo(t) /\ op[t].pc = "record" /\ ~woken => limits.max = op[t].want
  /\ \A t \in ChargeTask : Solo(t) /\ op[t].pc = "compare" => op[t].want = charge_limit
  /\ chargeUp = "off" => Busy = {}
  /\ chargeUp # "off" /\ Busy = {} /\ ~woken /\ ~parted /\ charge_limit # None
       => limits.max = charge_limit

LEMMA CrowdedAlone ==
  ASSUME ChargeTypeOK, NEW s \in ChargeTask
  PROVE  Crowded[s].pc = op[s].pc /\ (Crowded[s].pc # "idle" => ~Crowded[s].alone)
<1>1. op[s] \in OpRecord
  BY DEF ChargeTypeOK, OpRecord, Pcs
<1>2. CASE s \in Busy
  <2>1. Crowded[s] = [op[s] EXCEPT !.alone = FALSE]
    BY <1>2 DEF Crowded
  <2> QED BY <1>1, <2>1 DEF OpRecord
<1>3. CASE s \notin Busy
  <2>1. Crowded[s] = op[s] /\ op[s].pc = "idle"
    BY <1>3 DEF Crowded, Busy
  <2> QED BY <2>1
<1> QED BY <1>2, <1>3

\* A new operation: all others are overlapped.
LEMMA BeginHolds ==
  ASSUME ChargeTypeOK, NEW t \in ChargeTask, NEW pc \in {"compare", "get"}, NEW want,
         NEW records, Begin(t, pc, want, records), chargeUp' # "off",
         pc = "compare" => want = charge_limit'
  PROVE  HoldInv'
<1> DEFINE new == [pc |-> pc, want |-> want, min |-> 0, records |-> records,
                   alone |-> Busy = {}]
<1>1. /\ op'[t] = new
      /\ \A s \in ChargeTask \ {t} : op'[s] = Crowded[s]
  BY CrowdedFacts DEF Begin
<1>2. op'[t].pc = pc /\ op'[t].want = want /\ (op'[t].alone <=> Busy = {})
  <2>1. op'[t].pc = pc /\ op'[t].want = want
    BY <1>1
  <2>2. new.alone = (Busy = {})
    BY Zenon DEF new
  <2>3. op'[t].alone = new.alone
    BY <1>1, Zenon
  <2> QED BY <2>1, <2>2, <2>3, Zenon
<1>3. \A s \in ChargeTask \ {t} : op'[s].pc = op[s].pc /\ ~Solo(s)'
  BY <1>1, CrowdedAlone DEF Solo
<1>4. ASSUME Solo(t)', NEW s \in ChargeTask, op'[s].pc # "idle"
      PROVE  s = t
  BY <1>2, <1>3, <1>4 DEF Solo, Busy
<1>5. Busy' # {} /\ pc # "record"
  BY <1>2 DEF Busy
<1> QED BY <1>2, <1>3, <1>4, <1>5 DEF HoldInv

\* Nothing is recorded, so nothing begins; whoever is at it is no longer alone.
LEMMA CrowdedHolds ==
  ASSUME ChargeTypeOK, op' = Crowded, chargeUp' # "off", charge_limit' = None
  PROVE  HoldInv'
<1>1. \A s \in ChargeTask : ~Solo(s)'
  BY CrowdedAlone DEF Solo
<1> QED BY <1>1 DEF HoldInv

\* An operation goes on: if it is alone there are no others, and if it is not, nobody is.
LEMMA OnwardHolds ==
  ASSUME ChargeTypeOK, HoldInv, NEW t \in ChargeTask, op[t].pc # "idle",
         NEW new, op' = [op EXCEPT ![t] = new],
         new.pc \notin {"idle", "compare"}, new.alone <=> op[t].alone,
         new.pc = "record" => limits'.max = new.want,
         chargeUp' = chargeUp
  PROVE  HoldInv'
<1>1. /\ op'[t] = new
      /\ \A s \in ChargeTask \ {t} : op'[s] = op[s]
  BY DEF ChargeTypeOK
<1>2. \A s \in ChargeTask \ {t} : ~Solo(s)'
  BY <1>1 DEF HoldInv, Solo
<1>3. ASSUME Solo(t)', NEW s \in ChargeTask, op'[s].pc # "idle"
      PROVE  s = t
  BY <1>1, <1>3 DEF HoldInv, Solo
<1>4. Busy' # {} /\ chargeUp' # "off"
  BY <1>1 DEF Busy, HoldInv
<1> QED BY <1>1, <1>2, <1>3, <1>4 DEF HoldInv

\* An operation ends: done alone, the EC holds what is recorded.
LEMMA EndHolds ==
  ASSUME ChargeTypeOK, HoldInv, NEW t \in ChargeTask, op[t].pc # "idle",
         NEW agreed \in BOOLEAN, End(t, agreed), chargeUp' = chargeUp, woken' = woken,
         agreed /\ Solo(t) /\ ~woken => limits'.max = charge_limit'
  PROVE  HoldInv'
<1>1. /\ op'[t] = NoOp
      /\ \A s \in ChargeTask \ {t} : op'[s] = op[s]
  BY DEF End, ChargeTypeOK
<1>2. op'[t].pc = "idle"
  BY <1>1 DEF NoOp
<1>3. \A s \in ChargeTask : ~Solo(s)'
  BY <1>1, <1>2 DEF HoldInv, Solo
<1>4. chargeUp' # "off"
  BY DEF HoldInv, Busy
<1>5. ~parted' => agreed /\ Solo(t)
  BY DEF End, Solo
<1> QED BY <1>3, <1>4, <1>5 DEF HoldInv

LEMMA HoldGet ==
  ASSUME ChargeTypeOK, HoldInv, NEW t \in ChargeTask, Get(t)
  PROVE  HoldInv'
<1>1. CASE op' = [op EXCEPT ![t].pc = "set", ![t].min = limits.min]
  <2> DEFINE new == [op[t] EXCEPT !.pc = "set", !.min = limits.min]
  <2>1. op[t] \in OpRecord
    BY DEF ChargeTypeOK, OpRecord, Pcs
  <2>2. op' = [op EXCEPT ![t] = new]
    BY <1>1 DEF ChargeTypeOK
  <2>3. new.pc = "set" /\ (new.alone <=> op[t].alone)
    BY <2>1 DEF OpRecord
  <2> HIDE DEF new
  <2> QED BY <2>2, <2>3, OnwardHolds DEF Get
<1>2. CASE End(t, FALSE)
  BY <1>2, EndHolds DEF Get
<1> QED BY <1>1, <1>2 DEF Get

LEMMA HoldTo ==
  ASSUME ChargeTypeOK, HoldInv, NEW t \in ChargeTask, op[t].pc # "idle",
         NEW pc \in {"get", "verify", "record"}, To(t, pc),
         pc = "record" => limits'.max = op[t].want, chargeUp' = chargeUp
  PROVE  HoldInv'
<1> DEFINE new == [op[t] EXCEPT !.pc = pc]
<1>1. op[t] \in OpRecord
  BY DEF ChargeTypeOK, OpRecord, Pcs
<1>2. op' = [op EXCEPT ![t] = new]
  BY DEF To
<1>3. new.pc = pc /\ new.want = op[t].want /\ (new.alone <=> op[t].alone)
  BY <1>1 DEF OpRecord
<1> HIDE DEF new
<1> QED BY <1>2, <1>3, OnwardHolds

LEMMA HoldSet ==
  ASSUME ChargeTypeOK, HoldInv, NEW t \in ChargeTask, Set(t)
  PROVE  HoldInv'
<1>1. CASE To(t, "verify")
  BY <1>1, HoldTo DEF Set
<1>2. CASE End(t, FALSE)
  BY <1>2, EndHolds DEF Set
<1> QED BY <1>1, <1>2 DEF Set

LEMMA HoldVerify ==
  ASSUME ChargeTypeOK, HoldInv, NEW t \in ChargeTask, Verify(t)
  PROVE  HoldInv'
<1>1. CASE limits.max = op[t].want /\ To(t, "record")
  BY <1>1, HoldTo DEF Verify
<1>2. CASE limits.max = op[t].want /\ End(t, op[t].want = charge_limit)
  BY <1>2, EndHolds DEF Verify
<1>3. CASE End(t, FALSE)
  BY <1>3, EndHolds DEF Verify
<1> QED BY <1>1, <1>2, <1>3 DEF Verify

LEMMA HoldCompare ==
  ASSUME ChargeTypeOK, HoldInv, Compare
  PROVE  HoldInv'
<1>1. "poll" \in ChargeTask
  BY DEF ChargeTask
<1>2. CASE limits.max = op["poll"].want /\ End("poll", TRUE)
  BY <1>1, <1>2, EndHolds DEF Compare, HoldInv
<1>3. CASE To("poll", "get")
  BY <1>1, <1>3, HoldTo DEF Compare
<1>4. CASE End("poll", FALSE)
  BY <1>1, <1>4, EndHolds DEF Compare
<1> QED BY <1>2, <1>3, <1>4 DEF Compare

LEMMA HoldRecord ==
  ASSUME ChargeTypeOK, HoldInv, NEW t \in ChargeTask, RecordLimit(t)
  PROVE  HoldInv'
<1>1. Solo(t) /\ ~woken => limits'.max = charge_limit'
  BY DEF RecordLimit, HoldInv
<1> QED BY <1>1, EndHolds DEF RecordLimit

LEMMA HoldStart ==
  ASSUME ChargeTypeOK, HoldInv, ChargeStart
  PROVE  HoldInv'
<1>1. "poll" \in ChargeTask
  BY DEF ChargeTask
<1>2. CASE charge_limit' = None
  <2>1. \A s \in ChargeTask : op'[s].pc = "idle"
    BY <1>2 DEF ChargeStart, HoldInv, Busy
  <2> QED BY <1>2, <2>1 DEF ChargeStart, HoldInv, Solo
<1>3. CASE charge_limit' # None
  <2>1. Begin("poll", "compare", charge_limit', FALSE) /\ chargeUp' # "off"
    BY <1>3 DEF ChargeStart
  <2> QED BY <1>1, <2>1, BeginHolds
<1> QED BY <1>2, <1>3

LEMMA HoldResume ==
  ASSUME ChargeTypeOK, HoldInv, ChargeResume
  PROVE  HoldInv'
<1>1. "poll" \in ChargeTask
  BY DEF ChargeTask
<1>2. CASE charge_limit = None
  BY <1>2, CrowdedHolds DEF ChargeResume, Reapply
<1>3. CASE charge_limit # None
  <2>1. Begin("poll", "compare", charge_limit, FALSE)
    BY <1>3 DEF ChargeResume, Reapply
  <2> QED BY <1>1, <2>1, BeginHolds DEF ChargeResume
<1> QED BY <1>2, <1>3

LEMMA HoldStep ==
  ASSUME ChargeTypeOK, HoldInv, [ChargeNext]_chargeVars
  PROVE  HoldInv'
<1>1. CASE ChargeResume \/ Compare \/ ChargeStart
  BY <1>1, HoldResume, HoldCompare, HoldStart
<1>2. CASE FirmwareReset
  <2>1. UNCHANGED <<op, chargeUp, charge_limit>> /\ woken'
    BY <1>2 DEF FirmwareReset
  <2> QED BY <2>1 DEF HoldInv, Solo, Busy
<1>3. CASE ChargeDown
  <2>1. chargeUp' = "off" /\ \A s \in ChargeTask : op'[s].pc = "idle"
    BY <1>3 DEF ChargeDown, NoOp
  <2> QED BY <2>1 DEF HoldInv, Solo, Busy
<1>4. CASE Serve
  BY <1>4 DEF Serve, HoldInv, Solo, Busy
<1>5. CASE \E p \in ProfileLimit : ApplyProfileLimit(p)
  <2>1. "poll" \in ChargeTask
    BY DEF ChargeTask
  <2> QED BY <1>5, <2>1, BeginHolds DEF ApplyProfileLimit
<1>6. ASSUME NEW t \in ChargeClient, NEW p \in Percent, SetChargeLimit(t, p)
      PROVE  HoldInv'
  <2>1. t \in ChargeTask
    BY DEF ChargeTask
  <2>2. CASE InRange(p)
    <3>1. Begin(t, "get", p, TRUE) /\ chargeUp' # "off"
      BY <1>6, <2>2 DEF SetChargeLimit
    <3> QED BY <2>1, <3>1, BeginHolds
  <2>3. CASE ~InRange(p)
    <3>1. UNCHANGED <<op, chargeUp, charge_limit, limits, woken, parted>>
      BY <1>6, <2>3 DEF SetChargeLimit
    <3> QED BY <3>1 DEF HoldInv, Solo, Busy
  <2> QED BY <2>2, <2>3
<1>7. CASE \E t \in ChargeClient : RecordLimit(t)
  BY <1>7, HoldRecord DEF ChargeTask
<1>8. CASE \E t \in ChargeTask : Get(t) \/ Set(t) \/ Verify(t)
  BY <1>8, HoldGet, HoldSet, HoldVerify
<1>9. CASE UNCHANGED chargeVars
  BY <1>9 DEF chargeVars, HoldInv, Solo, Busy
<1> QED BY <1>1, <1>2, <1>3, <1>4, <1>5, <1>6, <1>7, <1>8, <1>9 DEF ChargeNext

\* With nothing under way the EC holds what is recorded, through overlapping writers,
\* resets, crashes and resumes, the exceptions of `parted` aside (reapply_charge_limit,
\* set_charge_limit).
THEOREM ChargeLimitSafe == ChargeSpec => []ChargeLimitHolds
<1>1. ChargeInit => HoldInv
  BY DEF ChargeInit, HoldInv, Solo, Busy, NoOp
<1>2. ChargeTypeOK /\ HoldInv /\ [ChargeNext]_chargeVars => HoldInv'
  BY HoldStep
<1>3. HoldInv => ChargeLimitHolds
  BY DEF HoldInv, ChargeLimitHolds
<1> QED BY <1>1, <1>2, <1>3, ChargeTypeSafe, PTL DEF ChargeSpec
=============================================================================

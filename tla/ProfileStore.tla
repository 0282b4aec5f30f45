---------------------------- MODULE ProfileStore ----------------------------
(***************************************************************************)
(* The known profiles: the built-ins (profile.rs), the files in             *)
(* /etc/fw-helper/profiles.d that a start puts over them (profiles.rs), and *)
(* SaveProfile and DeleteProfile (iface.rs), which change a file first and  *)
(* the daemon's copy after it, without a lock over the two.                 *)
(*                                                                         *)
(* Abstractions.  A curve is a tag.  What render writes parse reads back; a *)
(* file is written without a sync, and one cut short parses only if nothing *)
(* but points is missing.  A profile's charge limit is left out.            *)
(***************************************************************************)
EXTENDS Integers, SequencesExt

CONSTANTS
  StoreClient,   \* D-Bus clients
  Simple,        \* names of lowercase letters, digits and dashes
  Odd,           \* other names
  Stems,         \* the names files can have, in the order they sort
  Touched,       \* bound: the names clients and users use
  MachineStates, \* what SaveProfile may find
  ByHand,        \* profiles users write into files themselves
  NoFile, Broken,  \* no such file; one that does not parse
  MaxStoreEvents   \* bound on calls, edits, changes of the machine, failures and crashes

MIN_WATTS == 8
FALLBACK_MAX_WATTS == 25

Profile(name, ppd, watts, curve) ==
  [name |-> name, ppd |-> ppd, watts |-> watts, curve |-> curve]

BuiltIns == <<Profile("quiet", 1, 15, "quiet"), Profile("balanced", 2, 20, "balanced"),
              Profile("performance", 3, 25, "performance")>>

\* for_ppd, and canonical_name_for: the profile a position of the slider stands for.
ForPpd(ppd) == BuiltIns[ppd]

Name == Simple \cup Odd
\* The tags of the curves: the built-ins', what a machine follows, what users write.
Tag == {"none", "cut", "quiet", "balanced", "performance"}
         \cup {m.curve : m \in MachineStates} \cup {p.curve : p \in ByHand}
AnyProfile == [name : Name, ppd : 1..3, watts : Nat, curve : Tag]

ASSUME StoreAssumption ==
  /\ \A ppd \in 1..3 : BuiltIns[ppd].ppd = ppd /\ BuiltIns[ppd].name \in Simple
  /\ Simple \cap Odd = {} /\ Stems \in Seq(Name) /\ ToSet(Stems) = Name
  /\ Touched \subseteq Name /\ ByHand \subseteq AnyProfile
  /\ MachineStates \subseteq [ppd : 1..3, watts : Nat, curve : Tag]
  /\ NoFile # Broken /\ {NoFile, Broken} \cap AnyProfile = {}

VARIABLES
  folder,    \* folder[s]: the file s.conf
  known,     \* Daemon::profiles, in order
  storeUp,   \* the daemon runs
  machine,   \* what SaveProfile captures: slider, watts, and the curve the fan follows
  storeCall, \* storeCall[t]: where the call of client t is
  astray,    \* history: something since the start lets the files and `known` differ
  storeBudget

storeVars == <<folder, known, storeUp, machine, storeCall, astray, storeBudget>>

NoStoreCall == [pc |-> "idle", p |-> Profile("", 0, 0, "none")]

\* Profile::validate
ValidProfile(p) == /\ p.name \in Simple
                   /\ MIN_WATTS <= p.watts /\ p.watts <= FALLBACK_MAX_WATTS

\* A file that load_from makes a profile of: read, parsed and validated.
Parses(f) == f \notin {NoFile, Broken} /\ ValidProfile(f)

\* A profile takes the place of the one of its name, or the last place.
Put(s, p) == LET same == {i \in DOMAIN s : s[i].name = p.name}
             IN IF same = {} THEN Append(s, p) ELSE [s EXCEPT ![Min(same)] = p]

\* load_from: the files in order, over the built-ins; a bad one is skipped.
LoadFrom(f) ==
  LET loaded[n \in 0..Len(Stems)] ==
        IF n = 0 THEN BuiltIns
        ELSE IF Parses(f[Stems[n]]) THEN Put(loaded[n - 1], f[Stems[n]]) ELSE loaded[n - 1]
  IN loaded[Len(Stems)]

\* What a write that stops half-way leaves of p: the text without some of its points is
\* another curve, with less of it is no profile.
CutShort(p) == {Broken, [p EXCEPT !.curve = "cut"]}

SpendStore == storeBudget > 0 /\ storeBudget' = storeBudget - 1
ToStore(t, pc, p) == storeCall' = [storeCall EXCEPT ![t] = [pc |-> pc, p |-> p]]
EndStore(t) == storeCall' = [storeCall EXCEPT ![t] = NoStoreCall]

\* Calls that have changed their file and not yet `known`.
Halfway == {t \in StoreClient : storeCall[t].pc \in {"learn", "forget"}}

\* A file with another profile's name in it.
Misnamed == \E s \in Name : Parses(folder[s]) /\ folder[s].name # s

\* A call that comes to its file now cannot keep the files and `known` alike.
Disturbed(n) == Misnamed \/ \E t \in Halfway : storeCall[t].p.name = n

StoreInit ==
  /\ folder = [s \in Name |-> NoFile]
  /\ known = BuiltIns /\ storeUp = FALSE
  /\ machine = [ppd |-> 1, watts |-> ForPpd(1).watts, curve |-> "none"]
  /\ storeCall = [t \in StoreClient |-> NoStoreCall]
  /\ astray = FALSE /\ storeBudget = MaxStoreEvents
-----------------------------------------------------------------------------
\* main: profiles::load
StoreStart ==
  /\ ~storeUp
  /\ storeUp' = TRUE /\ known' = LoadFrom(folder) /\ astray' = FALSE
  /\ UNCHANGED <<folder, machine, storeCall, storeBudget>>

\* A crash or a power failure, which may cut the file written last.
StoreCrash ==
  /\ storeUp /\ SpendStore
  /\ storeUp' = FALSE
  /\ \/ UNCHANGED folder
     \/ \E t \in Halfway :
          /\ storeCall[t].pc = "learn"
          /\ \E f \in CutShort(storeCall[t].p) :
               folder' = [folder EXCEPT ![storeCall[t].p.name] = f]
  /\ storeCall' = [t \in StoreClient |-> NoStoreCall]
  /\ UNCHANGED <<known, machine, astray>>

\* The profile in use changes, or a part of it.
MachineMoves ==
  /\ SpendStore
  /\ machine' \in MachineStates \ {machine}
  /\ UNCHANGED <<folder, known, storeUp, storeCall, astray>>

\* A user writes or deletes a file; the daemon does not look until it starts.
EditByHand(s) ==
  /\ SpendStore
  /\ folder' \in {[folder EXCEPT ![s] = f] : f \in ByHand \cup {NoFile, Broken}} \ {folder}
  /\ astray' = TRUE
  /\ UNCHANGED <<known, storeUp, machine, storeCall>>

\* save_profile: PPD is asked first.
SaveAsk(t, n) ==
  /\ storeUp /\ storeCall[t].pc = "idle" /\ SpendStore
  /\ ToStore(t, "ppd", Profile(n, machine.ppd, 0, "none"))
  /\ UNCHANGED <<folder, known, storeUp, machine, astray>>

\* Then the register and the curve in use are captured, or the built-in's of that
\* position; what is not valid is refused before the prompt.
SaveCapture(t) ==
  /\ storeCall[t].pc = "ppd"
  /\ LET p == [storeCall[t].p EXCEPT
                 !.watts = machine.watts,
                 !.curve = IF machine.curve = "none" THEN ForPpd(storeCall[t].p.ppd).curve
                                                     ELSE machine.curve]
     IN \/ ValidProfile(p) /\ ToStore(t, "prompt", p)
        \/ EndStore(t)  \* not valid, or not to be read
  /\ UNCHANGED <<folder, known, storeUp, machine, astray, storeBudget>>

\* The prompt is answered: no, or the file is written, or the writing fails, perhaps
\* after the old contents are gone.
SaveFile(t) ==
  /\ storeCall[t].pc = "prompt"
  /\ LET p == storeCall[t].p
     IN \/ EndStore(t) /\ UNCHANGED <<folder, astray, storeBudget>>
        \/ /\ folder' = [folder EXCEPT ![p.name] = p]
           /\ astray' = (astray \/ Disturbed(p.name))
           /\ ToStore(t, "learn", p)
           /\ UNCHANGED storeBudget
        \/ /\ SpendStore
           /\ \E f \in CutShort(p) : folder' = [folder EXCEPT ![p.name] = f]
           /\ astray' = TRUE
           /\ EndStore(t)
  /\ UNCHANGED <<known, storeUp, machine>>

\* Mutant: a name that is new waits for the next restart.
SaveReplaced(t) ==
  /\ storeCall[t].pc = "learn"
  /\ known' = [i \in DOMAIN known |->
                 IF known[i].name = storeCall[t].p.name THEN storeCall[t].p ELSE known[i]]
  /\ EndStore(t)
  /\ UNCHANGED <<folder, storeUp, machine, astray, storeBudget>>

\* "Take effect now rather than at the next restart."
SaveKnown(t) ==
  /\ storeCall[t].pc = "learn"
  /\ known' = Put(known, storeCall[t].p)
  /\ EndStore(t)
  /\ UNCHANGED <<folder, storeUp, machine, astray, storeBudget>>

\* delete_profile, past the prompt: only a saved profile has a file.
DeleteFile(t, n) ==
  /\ storeUp /\ storeCall[t].pc = "idle" /\ n \in Simple /\ folder[n] # NoFile
  /\ SpendStore
  /\ folder' = [folder EXCEPT ![n] = NoFile]
  /\ astray' = (astray \/ Disturbed(n))
  /\ ToStore(t, "forget", Profile(n, 0, 0, "none"))
  /\ UNCHANGED <<known, storeUp, machine>>

\* The profiles of s with one of these names, in order.
Retained(s, names) ==
  LET kept[i \in 0..Len(s)] ==
        IF i = 0 THEN <<>>
        ELSE IF s[i].name \in names THEN Append(kept[i - 1], s[i]) ELSE kept[i - 1]
  IN kept[Len(s)]

\* Mutant: what the file was over does not come back.
KnownWithoutAny(s, n) == Retained(s, Name \ {n})

\* The profile goes, and the built-in it was over comes back.
KnownWithout(s, n) == Retained(s, Name \ {n}) \o Retained(BuiltIns, {n})

DeleteKnown(t) ==
  /\ storeCall[t].pc = "forget"
  /\ known' = KnownWithout(known, storeCall[t].p.name)
  /\ EndStore(t)
  /\ UNCHANGED <<folder, storeUp, machine, astray, storeBudget>>

StoreNext ==
  \/ StoreStart \/ StoreCrash \/ MachineMoves
  \/ \E s \in Touched : EditByHand(s)
  \/ \E t \in StoreClient :
       \/ \E n \in Touched : SaveAsk(t, n) \/ DeleteFile(t, n)
       \/ SaveCapture(t) \/ SaveFile(t) \/ SaveKnown(t) \/ DeleteKnown(t)

StoreSpec == StoreInit /\ [][StoreNext]_storeVars
-----------------------------------------------------------------------------
\* What is saved or deleted now is what the next start finds: with no call half-way the
\* daemon knows the profiles its files would load as, unless calls for one name
\* overlapped, a write failed, a file was edited by hand or names another profile than
\* its own (save_profile, delete_profile, load_from).
KnownIsWhatLoads ==
  storeUp /\ Halfway = {} /\ ~astray => ToSet(known) = ToSet(LoadFrom(folder))

\* A built-in's name always has a profile, and only one, whatever has been saved over it,
\* deleted, cut short or written by hand: it can be set, and the slider's position stands
\* for it (load_from, delete_profile; poll_loop looks the canonical name up).
BuiltInsKnown ==
  \A ppd \in 1..3 :
    \E i \in DOMAIN known : \A j \in DOMAIN known : known[j].name = ForPpd(ppd).name <=> j = i
=============================================================================

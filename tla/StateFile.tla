----------------------------- MODULE StateFile -----------------------------
(***************************************************************************)
(* The settings in /var/lib/fw-helper/state (state.rs): what is saved, and  *)
(* what a start may find.  save() truncates the file and writes it without  *)
(* a sync, so what is found after a crash or a power failure is any prefix  *)
(* of the text: the keys in the order of save(), the last line perhaps cut. *)
(* The floor's two lines come last; FloorLearning has them.                 *)
(*                                                                         *)
(* Abstraction.  A name cut short names no profile, which is what None does. *)
(***************************************************************************)
EXTENDS Integers

CONSTANT None  \* Option::None: the key is absent, or its value does not parse

Fields == <<"charge_limit", "power_limit", "profile", "profile_on_ac", "profile_on_battery">>
Numbers == {"charge_limit", "power_limit"}

\* State::default
DefaultState == [f \in {Fields[i] : i \in 1..5} |-> None]

\* What a number of at most three digits reads as once it is cut.
CutNumber(v) ==
  {None} \cup (IF v = None THEN {} ELSE {d \in {v \div 10, v \div 100} : d > 0})

Cut(f, v) == IF f \in Numbers THEN CutNumber(v) ELSE {None}

\* What load() makes of the file after the saving of s was cut short in line n: the
\* lines before it are whole, the lines after it are missing.
TornAt(s, n) ==
  {[f \in DOMAIN s |-> IF f = Fields[n] THEN v
                       ELSE IF \E i \in 1..(n - 1) : f = Fields[i] THEN s[f] ELSE None]
     : v \in Cut(Fields[n], s[Fields[n]])}

\* Whatever load() may return once s has been saved and the machine went down.
Loadable(s) == {s} \cup UNION {TornAt(s, n) : n \in 1..5}
=============================================================================

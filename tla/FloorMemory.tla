---------------------------- MODULE FloorMemory ----------------------------
(***************************************************************************)
(* What the learned floor promises, without how it is learned: a memory of  *)
(* a level per place, which only rises while somebody keeps it, survives in *)
(* what was saved of it, and comes back exactly as it was saved or, where   *)
(* it does not apply, not at all (floor.rs, state.rs, main.rs).             *)
(* FloorLearning implements it.                                             *)
(***************************************************************************)
EXTENDS Integers

CONSTANTS
  Place,
  Level,    \* numbers
  Nothing   \* the level of a place nothing is known of

VARIABLES
  alive,  \* somebody keeps the memory
  known,  \* the level of each place
  kept,   \* what was saved last
  copy    \* what is about to be saved

memoryVars == <<alive, known, kept, copy>>

Blank == [p \in Place |-> Nothing]

Asleep == ~alive /\ known = Blank /\ copy = Blank

MemoryInit == Asleep /\ kept \in [Place -> Level]

\* A start knows what was saved, or nothing.
Wake ==
  /\ ~alive /\ alive'
  /\ known' \in {kept, Blank}
  /\ copy' = Blank
  /\ UNCHANGED kept

\* Something was learned: no place loses its level.
Learn ==
  /\ alive
  /\ known' \in [Place -> Level]
  /\ \A p \in Place : known'[p] >= known[p]
  /\ UNCHANGED <<alive, kept, copy>>

\* What is known is taken aside, to be saved later, ...
TakeAside == alive /\ copy' = known /\ UNCHANGED <<alive, known, kept>>

\* ... and saved, while more may have been learned and saved since.
SaveAside == alive /\ kept' = copy /\ UNCHANGED <<alive, known, copy>>

SaveNow == alive /\ kept' = known /\ UNCHANGED <<alive, known, copy>>

\* All that was not saved is lost.
Sleep == alive /\ Asleep' /\ UNCHANGED kept

MemoryNext == Wake \/ Learn \/ TakeAside \/ SaveAside \/ SaveNow \/ Sleep

MemorySpec == MemoryInit /\ [][MemoryNext]_memoryVars
=============================================================================

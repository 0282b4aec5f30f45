---------------------------- MODULE PpdAdoption ----------------------------
(***************************************************************************)
(* Who drives the desktop's power axis: ProfileAxis (ppd.rs).  PPD may be   *)
(* late, leave and return.  Three tasks: main, with its bounded probe; the  *)
(* watcher of the bus names, which adopts PPD and lets it go; and the       *)
(* follower of the slider.                                                  *)
(*                                                                         *)
(* External: PPD claims two names, one after the other, answers from some   *)
(* moment after the first, and loses both at once; the bus reports names in *)
(* order to whoever has subscribed; the stream of changes keeps the latest  *)
(* and ends when the PPD it was opened on is gone.                          *)
(***************************************************************************)
EXTENDS Naturals, Sequences

CONSTANTS
  Position,    \* of the slider
  MaxLives, MaxMoves  \* bounds: PPD processes, moves of the slider

BusName == {"PREFERRED", "LEGACY"}

VARIABLES
  owned,     \* names PPD owns
  answers,   \* it answers
  life,      \* which PPD process this is; odd while there is one
  slider,    \* its position
  mainAt,    \* main: "probing", "probed", "watching"
  signals,   \* NameOwnerChanged the watcher has not taken: <<gained?>>
  proxy,     \* ProfileAxis::proxy
  adopted,   \* the permit of ProfileAxis::adopted
  follower,  \* "none", "look", "stream", "wait"
  reconcile, \* the follower's
  stream,    \* the life its stream was opened on
  news,      \* the stream holds a change
  heard,     \* history: the position last passed to on_change, or found at start
  missed,    \* history: PPD, or a move, came when nobody could have noticed
  moves      \* moves of the slider so far

adoptionVars == <<owned, answers, life, slider, mainAt, signals, proxy, adopted, follower,
                  reconcile, stream, news, heard, missed, moves>>

There == life % 2 = 1
Noted(s) == IF mainAt = "watching" THEN signals \o s ELSE signals

AdoptionInit ==
  /\ owned = {} /\ answers = FALSE /\ life = 0 /\ slider \in Position
  /\ mainAt = "probing" /\ signals = <<>>
  /\ proxy = FALSE /\ adopted = FALSE
  /\ follower = "none" /\ reconcile = FALSE /\ stream = 0 /\ news = FALSE
  /\ heard = slider /\ missed = FALSE /\ moves = 0
-----------------------------------------------------------------------------
(* PPD and the bus *)

Claim(n) ==
  /\ n \notin owned
  /\ owned = {} => life < 2 * MaxLives /\ ~There
  /\ life' = IF There THEN life ELSE life + 1
  /\ owned' = owned \cup {n}
  /\ signals' = Noted(<<TRUE>>)
  /\ missed' = (missed \/ mainAt = "probed")
  /\ UNCHANGED <<answers, slider, mainAt, proxy, adopted, follower, reconcile, stream, news,
                 heard, moves>>

Ready ==
  /\ There /\ ~answers
  /\ answers' = TRUE
  /\ UNCHANGED <<owned, life, slider, mainAt, signals, proxy, adopted, follower, reconcile,
                 stream, news, heard, missed, moves>>

\* PPD was found at the start, and the follower has not had its first turn.
Unstarted == proxy /\ ~reconcile /\ follower = "look"

Leave ==
  /\ There /\ owned = BusName
  /\ owned' = {} /\ answers' = FALSE /\ life' = life + 1
  /\ signals' = Noted(<<FALSE, FALSE>>)
  /\ missed' = (missed \/ mainAt = "probed" \/ Unstarted)
  /\ slider' \in Position
  /\ news' = FALSE
  /\ UNCHANGED <<mainAt, proxy, adopted, follower, reconcile, stream, heard, moves>>

\* A move before the stream is open, with no question to follow, is lost.
Move ==
  /\ answers /\ moves < MaxMoves
  /\ moves' = moves + 1
  /\ slider' \in Position \ {slider}
  /\ news' = (follower = "stream" /\ stream = life)
  /\ missed' = (missed \/ Unstarted)
  /\ UNCHANGED <<owned, answers, life, mainAt, signals, proxy, adopted, follower, reconcile,
                 stream, heard>>
-----------------------------------------------------------------------------
(* main *)

\* ProfileAxis::connect: the first name that answers, or none in time; then watch.
Connect ==
  /\ mainAt = "probing"
  /\ mainAt' = "probed"
  /\ proxy' = answers
  /\ missed' = (missed \/ (There /\ ~answers))
  /\ heard' = IF answers THEN slider ELSE heard
  /\ follower' = "look" /\ reconcile' = ~answers
  /\ UNCHANGED <<owned, answers, life, slider, signals, adopted, stream, news, moves>>

\* adopt_when_available, receive_name_owner_changed
Subscribe ==
  /\ mainAt = "probed"
  /\ mainAt' = "watching"
  /\ UNCHANGED <<owned, answers, life, slider, signals, proxy, adopted, follower, reconcile,
                 stream, news, heard, missed, moves>>
-----------------------------------------------------------------------------
(* The watcher of the names *)

Gained == signals # <<>> /\ Head(signals)
Lost == signals # <<>> /\ ~Head(signals)
TakeSignal == signals' = Tail(signals)

GainKnown ==
  /\ Gained /\ proxy /\ TakeSignal
  /\ UNCHANGED <<owned, answers, life, slider, mainAt, proxy, adopted, follower, reconcile,
                 stream, news, heard, missed, moves>>

\* The probe runs to its end before the next signal is taken.  The permit is kept when
\* the follower is not waiting yet.
GainAdopted ==
  /\ Gained /\ ~proxy /\ answers /\ TakeSignal
  /\ proxy' = TRUE /\ adopted' = TRUE
  /\ UNCHANGED <<owned, answers, life, slider, mainAt, follower, reconcile, stream, news,
                 heard, missed, moves>>

\* Both names timed out; only another signal brings another probe.
GainUnanswered ==
  /\ Gained /\ ~proxy /\ ~answers /\ TakeSignal
  /\ missed' = (missed \/ (There /\ signals' = <<>> /\ owned = BusName))
  /\ UNCHANGED <<owned, answers, life, slider, mainAt, proxy, adopted, follower, reconcile,
                 stream, news, heard, moves>>

LetGo ==
  /\ Lost /\ TakeSignal
  /\ proxy' = FALSE
  /\ UNCHANGED <<owned, answers, life, slider, mainAt, adopted, follower, reconcile, stream,
                 news, heard, missed, moves>>
-----------------------------------------------------------------------------
(* The follower of the slider *)

Idle ==
  /\ follower = "look" /\ ~proxy
  /\ follower' = "wait"
  /\ UNCHANGED <<owned, answers, life, slider, mainAt, signals, proxy, adopted, reconcile,
                 stream, news, heard, missed, moves>>

\* Adopted at the start: nothing to ask.
Open ==
  /\ follower = "look" /\ proxy /\ ~reconcile
  /\ follower' = "stream" /\ stream' = life /\ news' = FALSE
  /\ UNCHANGED <<owned, answers, life, slider, mainAt, signals, proxy, adopted, reconcile,
                 heard, missed, moves>>

\* Mutant: a late adoption does not ask what was missed.
AskNothing ==
  /\ follower = "look" /\ proxy /\ reconcile
  /\ follower' = "stream" /\ reconcile' = FALSE
  /\ stream' = life /\ news' = FALSE
  /\ UNCHANGED <<owned, answers, life, slider, mainAt, signals, proxy, adopted, heard, missed,
                 moves>>

\* The question and the subscription: the proxy's cache is subscribed to before it asks.
Ask ==
  /\ follower = "look" /\ proxy /\ reconcile
  /\ follower' = "stream" /\ reconcile' = FALSE
  /\ heard' = IF answers THEN slider ELSE heard
  /\ stream' = (IF answers THEN life ELSE 0) /\ news' = FALSE
  /\ UNCHANGED <<owned, answers, life, slider, mainAt, signals, proxy, adopted, missed, moves>>

Change ==
  /\ follower = "stream" /\ news
  /\ news' = FALSE
  /\ heard' = slider
  /\ UNCHANGED <<owned, answers, life, slider, mainAt, signals, proxy, adopted, follower,
                 reconcile, stream, missed, moves>>

StreamEnds ==
  /\ follower = "stream" /\ stream # life
  /\ follower' = "wait" /\ reconcile' = TRUE /\ news' = FALSE
  /\ UNCHANGED <<owned, answers, life, slider, mainAt, signals, proxy, adopted, stream, heard,
                 missed, moves>>

Notified ==
  /\ follower = "wait" /\ adopted
  /\ adopted' = FALSE /\ follower' = "look"
  /\ UNCHANGED <<owned, answers, life, slider, mainAt, signals, proxy, reconcile, stream,
                 news, heard, missed, moves>>

Bus == (\E n \in BusName : Claim(n)) \/ Ready \/ Leave \/ Move
Watcher == GainKnown \/ GainAdopted \/ GainUnanswered \/ LetGo
Follower == Idle \/ Ask \/ Open \/ Change \/ StreamEnds \/ Notified
AdoptionNext == Bus \/ Connect \/ Subscribe \/ Watcher \/ Follower

\* The daemon's three tasks are scheduled; PPD owes nothing.
AdoptionFairness ==
  /\ WF_adoptionVars(Connect \/ Subscribe)
  /\ WF_adoptionVars(Watcher)
  /\ WF_adoptionVars(Follower)

AdoptionSpec == AdoptionInit /\ [][AdoptionNext]_adoptionVars /\ AdoptionFairness
-----------------------------------------------------------------------------
\* However PPD comes, leaves and returns, if it stays and answers it is adopted in the end
\* and its slider followed from where it is: not missed while the daemon was starting,
\* not lost between two signals, a permit and a dead stream (connect,
\* adopt_when_available, watch).  Not so, and left out here, when PPD comes or goes
\* between the first probe and the subscription to its names, or answers later than the
\* probes of both its names wait.
PpdFollowedAtLast ==
  <>[](missed \/ ~answers \/ owned # BusName
       \/ (proxy /\ follower = "stream" /\ stream = life /\ heard = slider))

\* What adopt_when_available says of itself (ppd.rs:125-128): PPD is adopted whenever it
\* appears, and a lost race at the start does not bypass the desktop for the session.
AdoptedWhenever == <>[](~answers \/ owned # BusName \/ proxy)
=============================================================================

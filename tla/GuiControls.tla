---------------------------- MODULE GuiControls ----------------------------
(***************************************************************************)
(* The controls of the GTK client, each an input and a display at once      *)
(* (ui.rs), and its two threads (worker.rs): one runs the commands, in      *)
(* order, each as long as a password prompt may take; one fetches           *)
(* snapshots; both answer through a channel of one place.                   *)
(*                                                                         *)
(* A "debounced" control (power, charge) sends what it has settled on, a    *)
(* "direct" one (profile) at once; both are held until a snapshot confirms  *)
(* them or the wait is over.  The two automatic profiles are set as a pair  *)
(* and are not held.                                                        *)
(***************************************************************************)
EXTENDS Naturals, Sequences

CONSTANTS
  Setting,   \* values of a control
  NoSetting, \* nothing pending, nothing in flight
  MaxChoices, MaxUpsets  \* bounds: the user's choices; refused commands and changes made
             \* elsewhere, together

ASSUME GuiAssumption == NoSetting \notin Setting

Debounced == {"power"}
Direct == {"profile"}
Held == Debounced \cup Direct
Side == {"ac", "battery"}
Control == Held \cup Side

VARIABLES
  shown,      \* what the controls show
  pendingSend, \* Widgets::pending: the value a debounced control will send
  in_flight,  \* Widgets::in_flight: the value a control waits to see
  expired,    \* controls that have waited for CONFIRM_TIMEOUT
  queue,      \* commands not finished yet; the first one is being run
  result,     \* its result waits for the channel: "none", "ok", "err"
  snapshot,   \* fetched, waits for the channel
  update,     \* the place in the channel
  held,       \* what the daemon holds
  wished,     \* history: what the user chose last
  disturbed,  \* history: controls whose last choice something else has happened to
  budget      \* counters behind the Max* bounds

guiVars == <<shown, pendingSend, in_flight, expired, queue, result, snapshot, update, held,
             wished, disturbed, budget>>

None2 == [c \in Held |-> NoSetting]
Empty == [kind |-> "none"]
UseUp(f) == budget[f] > 0 /\ budget' = [budget EXCEPT ![f] = @ - 1]

GuiInit ==
  /\ \E s \in Setting : held = [c \in Control |-> s]
  /\ shown = held /\ wished = held
  /\ pendingSend = None2 /\ in_flight = None2 /\ expired = {}
  /\ queue = <<>> /\ result = "none" /\ snapshot = Empty /\ update = Empty
  /\ disturbed = {}
  /\ budget = [choices |-> MaxChoices, upsets |-> MaxUpsets]

\* The values of control c that are on their way to the daemon, in it, or on their way back.
Known(c) ==
  {held[c]} \cup {queue[i][c] : i \in {j \in DOMAIN queue : c \in DOMAIN queue[j]}}
    \cup {s.state[c] : s \in {r \in {snapshot, update} : r.kind = "data"}}

\* A refusal of an earlier command of c has not reached the window.
Failing(c) == \/ result = "err" /\ c \in DOMAIN Head(queue)
              \/ update.kind = "err" /\ c \in update.of

\* A choice starts a control afresh: only a value already on its way cannot be told from
\* the choice, nor an earlier command's refusal from its own.
Afresh(c, v) == IF v \in Known(c) \/ Failing(c) THEN disturbed \cup {c} ELSE disturbed \ {c}
-----------------------------------------------------------------------------
(* The user *)

Chosen(c, v) ==
  /\ UseUp("choices")
  /\ shown' = [shown EXCEPT ![c] = v]
  /\ wished' = [wished EXCEPT ![c] = v]

ChooseDirect(c, v) ==
  /\ v # shown[c] /\ Chosen(c, v)
  /\ disturbed' = Afresh(c, v)
  /\ in_flight' = [in_flight EXCEPT ![c] = v] /\ expired' = expired \ {c}
  /\ queue' = Append(queue, [d \in {c} |-> v])
  /\ UNCHANGED <<pendingSend, result, snapshot, update, held>>

\* debounce: what was queued for this control is cancelled.
Adjust(c, v) ==
  /\ v # shown[c] /\ Chosen(c, v)
  /\ disturbed' = Afresh(c, v)
  /\ pendingSend' = [pendingSend EXCEPT ![c] = v]
  /\ UNCHANGED <<in_flight, expired, queue, result, snapshot, update, held>>

\* What is sent is held, for five seconds from now.
DebounceFires(c) ==
  /\ pendingSend[c] # NoSetting
  /\ pendingSend' = [pendingSend EXCEPT ![c] = NoSetting]
  /\ in_flight' = [in_flight EXCEPT ![c] = pendingSend[c]] /\ expired' = expired \ {c}
  /\ queue' = Append(queue, [d \in {c} |-> pendingSend[c]])
  /\ UNCHANGED <<shown, result, snapshot, update, held, wished, disturbed, budget>>

\* Mutant: only the side that changed is sent, the other left empty.
OneSide(c) == [d \in Side |-> IF d = c THEN shown'[d] ELSE NoSetting]

\* Both sides are sent together, as they are shown.
BothSides(c) == [d \in Side |-> shown'[d]]

\* Mutant: a pair is not sent while another one is under way.
ChooseSideOnce(c, v) ==
  /\ v # shown[c] /\ Chosen(c, v)
  /\ disturbed' = (disturbed \cup {d \in Side : shown[d] # wished[d]}) \ {c}
  /\ queue' = IF \E i \in DOMAIN queue : c \in DOMAIN queue[i] THEN queue
              ELSE Append(queue, BothSides(c))
  /\ UNCHANGED <<pendingSend, in_flight, expired, result, snapshot, update, held>>

\* A row that did not show what was chosen for it sends what it shows.
ChooseSide(c, v) ==
  /\ v # shown[c] /\ Chosen(c, v)
  /\ disturbed' = (disturbed \cup {d \in Side : shown[d] # wished[d]}) \ {c}
  /\ queue' = Append(queue, BothSides(c))
  /\ UNCHANGED <<pendingSend, in_flight, expired, result, snapshot, update, held>>
-----------------------------------------------------------------------------
(* The daemon and the threads *)

Sent(c) == c \in DOMAIN Head(queue)

Run ==
  /\ queue # <<>> /\ result = "none"
  /\ held' = [c \in Control |-> IF Sent(c) THEN Head(queue)[c] ELSE held[c]]
  /\ result' = "ok"
  /\ UNCHANGED <<shown, pendingSend, in_flight, expired, queue, snapshot, update, wished,
                 disturbed, budget>>

\* A later command carries c too.
Again(c) == \E i \in 2..Len(queue) : c \in DOMAIN queue[i]

\* The refusal of a pair matters for the last one only.
Refuse ==
  /\ queue # <<>> /\ result = "none" /\ UseUp("upsets")
  /\ result' = "err"
  /\ disturbed' = disturbed \cup {c \in Control : Sent(c) /\ (c \in Held \/ ~Again(c))}
  /\ UNCHANGED <<shown, pendingSend, in_flight, expired, queue, snapshot, update, held, wished>>

Report ==
  /\ result # "none" /\ update = Empty
  /\ update' = [kind |-> result, of |-> DOMAIN Head(queue)]
  /\ queue' = Tail(queue) /\ result' = "none"
  /\ UNCHANGED <<shown, pendingSend, in_flight, expired, snapshot, held, wished, disturbed,
                 budget>>

\* Another client, or the daemon itself.
ChangedElsewhere(c, v) ==
  /\ v # held[c] /\ UseUp("upsets")
  /\ held' = [held EXCEPT ![c] = v]
  /\ disturbed' = disturbed \cup {c}
  /\ UNCHANGED <<shown, pendingSend, in_flight, expired, queue, result, snapshot, update,
                 wished>>

FetchSnapshot ==
  /\ snapshot = Empty
  /\ snapshot' = [kind |-> "data", state |-> held]
  /\ UNCHANGED <<shown, pendingSend, in_flight, expired, queue, result, update, held, wished,
                 disturbed, budget>>

Deliver ==
  /\ snapshot # Empty /\ update = Empty
  /\ update' = snapshot /\ snapshot' = Empty
  /\ UNCHANGED <<shown, pendingSend, in_flight, expired, queue, result, held, wished,
                 disturbed, budget>>

\* A choice that has not been sent is held all the same.
WaitOver(c) ==
  /\ in_flight[c] # NoSetting /\ c \notin expired
  /\ expired' = expired \cup {c}
  /\ disturbed' = IF pendingSend[c] = NoSetting THEN disturbed \cup {c} ELSE disturbed
  /\ UNCHANGED <<shown, pendingSend, in_flight, queue, result, snapshot, update, held, wished,
                 budget>>
-----------------------------------------------------------------------------
(* The main loop *)

\* sync_controls: what is confirmed or has waited long enough is let go, and whatever is
\* neither pending nor in flight shows what the daemon holds.
\* Mutant: a control waits for its confirmation however long it takes.
ConfirmedOnly(c) == in_flight[c] = update.state[c]

LetOff(c) == in_flight[c] = update.state[c] \/ c \in expired
Waiting(c) == in_flight'[c] # NoSetting \/ pendingSend[c] # NoSetting

Sync ==
  /\ update.kind = "data"
  /\ in_flight' = [c \in Held |-> IF LetOff(c) THEN NoSetting ELSE in_flight[c]]
  /\ shown' = [c \in Control |-> IF c \in Held /\ Waiting(c) THEN shown[c]
                                 ELSE update.state[c]]
  /\ expired' = {c \in expired : in_flight'[c] # NoSetting}
  /\ update' = Empty
  /\ UNCHANGED <<pendingSend, queue, result, snapshot, held, wished, disturbed, budget>>

\* Mutant: a control is let go as soon as its command has returned.
Release(kind) == kind \in {"ok", "err"}

\* Only a failure lets the control go.
LetsGo(kind) == kind = "err"

ResultArrives ==
  /\ update.kind \in {"ok", "err"}
  /\ in_flight' = [c \in Held |-> IF LetsGo(update.kind) /\ c \in update.of THEN NoSetting
                                  ELSE in_flight[c]]
  /\ update' = Empty
  /\ UNCHANGED <<shown, pendingSend, expired, queue, result, snapshot, held, wished, disturbed,
                 budget>>

Choose ==
  \/ \E c \in Direct, v \in Setting : ChooseDirect(c, v)
  \/ \E c \in Debounced, v \in Setting : Adjust(c, v)
  \/ \E c \in Side, v \in Setting : ChooseSide(c, v)

Commands == Run \/ Refuse \/ Report
Poller == FetchSnapshot \/ Deliver
MainLoop == Sync \/ ResultArrives

GuiNext ==
  \/ Choose \/ Commands \/ Poller \/ MainLoop
  \/ \E c \in Held : DebounceFires(c) \/ WaitOver(c)
  \/ \E c \in Control, v \in Setting : ChangedElsewhere(c, v)

\* Threads run, a prompt is answered in the end, and the channel serves both.
GuiFairness ==
  /\ SF_guiVars(Report) /\ SF_guiVars(Deliver)
  /\ WF_guiVars(Run \/ Refuse) /\ WF_guiVars(FetchSnapshot) /\ WF_guiVars(MainLoop)
  /\ \A c \in Held : WF_guiVars(DebounceFires(c)) /\ WF_guiVars(WaitOver(c))

GuiSpec == GuiInit /\ [][GuiNext]_guiVars /\ GuiFairness
-----------------------------------------------------------------------------
\* What the user has set does not jump back: from the choice on, a control shows no other
\* value, through its debounce, choices before it, its prompt, a command that has returned
\* and a snapshot that was fetched before it had; unless it or an earlier choice was
\* refused, left unconfirmed for too long or changed elsewhere, or its value was on its way
\* already and so seems confirmed too early (sync_controls, in_flight).
NoJumpBack == \A c \in Held : c \notin disturbed => shown[c] = wished[c]

\* Setting one automatic profile leaves the other as the user chose it: once the commands
\* have returned the daemon holds both choices, however many were made and whatever the
\* rows have shown meanwhile; unless the last command was refused, another client changed
\* it, or the row showed something else when the other one was set, which sends what it
\* shows (connect_selected_notify of auto_ac and auto_batt).
SidesKept ==
  \A c \in Side \ disturbed :
    (\A i \in DOMAIN queue : c \notin DOMAIN queue[i]) => held[c] = wished[c]

\* The same without the last exception, as ui.rs:395-396 means it, for a bound of no
\* refusals and no other clients: a row is no stale copy of the daemon's setting.
SidesAsChosen == queue = <<>> => \A c \in Side : held[c] = wished[c]

\* The command that carries the last choice has not come back.
Awaited(c) == \E i \in DOMAIN queue : c \in DOMAIN queue[i] /\ queue[i][c] = wished[c]

\* What worker.rs:41-44 says: a control is held until the result of its command arrives,
\* which may take as long as a prompt does.
HeldUntilAnswered == \A c \in Held : Awaited(c) => shown[c] = wished[c]

\* What ui.rs:558-560 says, within the five seconds: a control whose command has not come
\* back is not overwritten, also when an earlier one comes back refused.
NewestStaysHeld ==
  [][\A c \in Held \ expired :
       Awaited(c) /\ shown[c] = wished[c] /\ wished'[c] = wished[c]
         => shown'[c] = wished[c]]_guiVars

\* Whatever was chosen, refused, waited for or changed elsewhere, the window ends up
\* showing what the daemon holds: no control is held for good.
WindowAgreesAtLast == <>[](shown = held)
=============================================================================

------------------------------ MODULE MCParts ------------------------------
(***************************************************************************)
(* Small instances of the parts that share no state, for one run of TLC: in *)
(* each behaviour one part, the subject, moves, and the others rest in one  *)
(* of their initial states.                                                 *)
(***************************************************************************)
EXTENDS CurveEngine, ThermalLimits, PowerTelemetry, ChargeLimit, PpdAdoption,
        CurveEditor, GuiControls, ProfileStore

VARIABLE subject

partsVars == <<subject, curveVars, thermalVars, telemetryVars, chargeVars, adoptionVars,
               editorVars, guiVars, storeVars>>

Pt(c, d) == [celsius |-> c, duty |-> d]
\* One curve starts at a stop and climbs steeply, the other never stops.
MCCurves == {<<Pt(40, 0), Pt(42, 33), Pt(43, 60)>>, <<Pt(41, 50), Pt(44, 70)>>}
MCCurveCelsius == 40..43

\* The ends of the tables' segments and of the limits, and points between.
MCControl == {440, 449, 501, 539, 570, 600, 688, 689, 768, 769, 800, 850, 949, 950, 960}
MCPack == {421, 425, 460, 479, 480}
MCDmi == {<<"FRANMJCP", "07">>, <<"FRANMGCP", "01">>, <<"OTHER", "07">>}

\* A small curve with its ends in reach, which other clients set too.
MCQuiet == <<Pt(40, 0), Pt(41, 40)>>
MCOtherCurves == {MCQuiet}

MCFactory == [max |-> 100, min |-> 0]

MCStems == <<"My Own", "balanced", "own", "performance", "quiet">>
\* Watts within what a profile may have and above it, a curve in use and none.
MCMachine == {[ppd |-> 1, watts |-> 12, curve |-> "drawn"],
              [ppd |-> 3, watts |-> 30, curve |-> "none"],
              [ppd |-> 3, watts |-> 25, curve |-> "none"]}
\* One under a built-in's name, with another position, and one nobody may apply.
MCByHand == {Profile("quiet", 2, 12, "hand"), Profile("own", 1, 30, "hand")}

AtRest(part, state) == subject # part => state

Init ==
  /\ subject \in {"curve", "thermal", "telemetry", "charge", "adoption", "editor", "gui",
                  "store"}
  /\ CurveInit /\ AtRest("curve", celsius = 40 /\ curve[1].duty = 0)
  /\ ThermalInit
  /\ AtRest("thermal", /\ identified = Unmeasured
                       /\ control = [celsius |-> NoReading, crit |-> NoReading]
                       /\ pack = control)
  /\ TelemetryInit /\ energy_uj = 2  \* about to wrap
  /\ ChargeInit /\ AtRest("charge", limits = Factory)
  /\ AdoptionInit /\ AtRest("adoption", slider = 1)
  /\ EditorInit /\ AtRest("editor", running = NoPoints)
  /\ GuiInit /\ held["power"] = 1  \* the two values are alike
  /\ StoreInit

Rest(a, b, c, d, e, f, g) ==
  UNCHANGED <<subject, a, b, c, d, e, f, g>>

Next ==
  \/ /\ subject = "curve" /\ CurveNext
     /\ Rest(thermalVars, telemetryVars, chargeVars, adoptionVars, editorVars, guiVars,
             storeVars)
  \/ /\ subject = "thermal" /\ ThermalNext
     /\ Rest(curveVars, telemetryVars, chargeVars, adoptionVars, editorVars, guiVars,
             storeVars)
  \/ /\ subject = "telemetry" /\ TelemetryNext
     /\ Rest(curveVars, thermalVars, chargeVars, adoptionVars, editorVars, guiVars,
             storeVars)
  \/ /\ subject = "charge" /\ ChargeNext
     /\ Rest(curveVars, thermalVars, telemetryVars, adoptionVars, editorVars, guiVars,
             storeVars)
  \/ /\ subject = "adoption" /\ AdoptionNext
     /\ Rest(curveVars, thermalVars, telemetryVars, chargeVars, editorVars, guiVars,
             storeVars)
  \/ /\ subject = "editor" /\ EditorNext
     /\ Rest(curveVars, thermalVars, telemetryVars, chargeVars, adoptionVars, guiVars,
             storeVars)
  \/ /\ subject = "gui" /\ GuiNext
     /\ Rest(curveVars, thermalVars, telemetryVars, chargeVars, adoptionVars, editorVars,
             storeVars)
  \/ /\ subject = "store" /\ StoreNext
     /\ Rest(curveVars, thermalVars, telemetryVars, chargeVars, adoptionVars, editorVars,
             guiVars)

\* The fairness of the part that moves.
Fairness ==
  /\ WF_curveVars(subject = "curve" /\ EngineTick)
  /\ WF_adoptionVars(subject = "adoption" /\ (Connect \/ Subscribe))
  /\ WF_adoptionVars(subject = "adoption" /\ Watcher)
  /\ WF_adoptionVars(subject = "adoption" /\ Follower)
  /\ SF_guiVars(subject = "gui" /\ Report)
  /\ SF_guiVars(subject = "gui" /\ Deliver)
  /\ WF_guiVars(subject = "gui" /\ (Run \/ Refuse))
  /\ WF_guiVars(subject = "gui" /\ FetchSnapshot)
  /\ WF_guiVars(subject = "gui" /\ MainLoop)
  /\ \A c \in Held : /\ WF_guiVars(subject = "gui" /\ DebounceFires(c))
                     /\ WF_guiVars(subject = "gui" /\ WaitOver(c))

Spec == Init /\ [][Next]_partsVars /\ Fairness
=============================================================================

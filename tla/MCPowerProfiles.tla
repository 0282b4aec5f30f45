-------------------------- MODULE MCPowerProfiles --------------------------
(***************************************************************************)
(* Three profiles on two positions of the slider, so that one of them is    *)
(* not the profile its position stands for.                                 *)
(***************************************************************************)
EXTENDS PowerProfiles

MCBook == [quiet |-> [ppd |-> 1, watts |-> 10],
           mine |-> [ppd |-> 1, watts |-> 15],
           fast |-> [ppd |-> 2, watts |-> 20]]

MCCanonical == <<"quiet", "fast">>

MCAuto == {<<"fast", None>>}

MCInitial == {[DefaultState EXCEPT !["profile"] = "mine", !["power_limit"] = 12,
                                   !["profile_on_battery"] = "quiet"]}

\* One profile and one position: nothing but the limit can be set.
OnlyFast == [fast |-> [ppd |-> 1, watts |-> 20]]
OnlyPosition == <<"fast">>
FirstBoot == {DefaultState}
=============================================================================

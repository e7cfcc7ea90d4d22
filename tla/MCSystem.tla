------------------------------ MODULE MCSystem ------------------------------
(* The screens or the settings are asked for.                              *)
EXTENDS Screens, Settings

VARIABLE asked

(* Among them an acceleration that is switched off.                        *)
SomeScalings == {-8, 0, 1, 24}

MCInit ==
  /\ asked \in {"screens", "settings"}
  /\ Init /\ (asked = "settings" => build = "plain" /\ helper)
  /\ SettingsInit

MCNext ==
  /\ UNCHANGED asked
  /\ \/ asked = "screens" /\ Next /\ UNCHANGED settingVars
     \/ asked = "settings" /\ GetSetting /\ UNCHANGED vars

MCSpec ==
  /\ MCInit
  /\ [][MCNext]_<<asked, vars, settingVars>>
  /\ WF_vars(QueryStep /\ UNCHANGED <<asked, settingVars>>)
  /\ WF_vars(SettingsProc /\ UNCHANGED <<asked, settingVars>>)

=============================================================================

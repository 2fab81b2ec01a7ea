----------------------------- MODULE Persistence -----------------------------
(***************************************************************************)
(* What the Guardian keeps from one start to the next: its settings and    *)
(* its services.  It starts its services when its settings are loaded, and *)
(* when it is gone both are read again.                                    *)
(***************************************************************************)
EXTENDS Settings, Registry

CONSTANT Cases    \* the circumstances of the two that are met together

vars == <<settingsVars, registryVars>>

Init == /\ \E c \in Cases : world = c.world /\ may = c.may /\ files = c.files
        /\ SettingsInit /\ RegistryInit

\* serve: New and Run, once the configuration is loaded.
Start == /\ at["guardian"] = "up"
         /\ StartUp
         /\ UNCHANGED settingsVars

\* The Guardian is killed, or stops when nothing is under way; it may be gone
\* before it has loaded its services.
Leave ==
    /\ \/ MayGo(FALSE) /\ SettingsMayGo /\ Gone(FALSE)
       \/ MayGo(TRUE) /\ world.crashes /\ Gone(TRUE)
       \/ stage = "down" /\ SettingsMayGo /\ UNCHANGED registryVars
    /\ SettingsGone

Next == \/ SettingsStep /\ UNCHANGED registryVars
        \/ RegistryStep /\ UNCHANGED settingsVars
        \/ Start \/ Leave

Spec == Init /\ [][Next]_vars

TypeOK == SettingsTypeOK /\ RegistryTypeOK
=============================================================================

--------------------------- MODULE PersistenceProofs ---------------------------
(***************************************************************************)
(* The composition of the settings and the services implements each of     *)
(* them, so that what was proved of either holds of both together.         *)
(***************************************************************************)
EXTENDS Persistence, SettingsProofs, RegistryProofs

\* A Guardian that has begun to load its services has its settings.
Placed == stage # "down" => at["guardian"] = "up"

Inv == SettingsInv /\ RegistryInv /\ Placed

\* No step of the settings but the end of the Guardian takes it down.
LEMMA StaysUp ==
    ASSUME SettingsInv, SettingsStep, at["guardian"] = "up"
    PROVE  at'["guardian"] = "up"
<1>1. /\ at \in [Actors -> {"off", "truncate", "fill", "decrypt", "reset", "up", "done",
                            "apply", "marshal", "restore"}]
      /\ "guardian" \in Actors
  BY Names DEF SettingsInv, SettingsTypeOK
<1>2. ASSUME NEW l \in Loaders, Load(l) \/ Decrypt(l) PROVE at'["guardian"] = "up"
  <2>1. l # "guardian"
    BY <1>2 DEF Load, MayLoad, Decrypt
  <2> QED BY <1>1, <1>2, <2>1 DEF Load, Decrypt
<1>3. ASSUME NEW a \in Actors, Truncate(a) \/ Fill(a) \/ SaveFails(a)
      PROVE  at'["guardian"] = "up"
  <2>1. a # "guardian"
    BY <1>3 DEF Truncate, Fill, SaveFails
  <2> QED BY <1>1, <1>3, <2>1 DEF Truncate, Fill, SaveFails
<1>4. CASE ResetToken
  BY <1>1, <1>4 DEF ResetToken
<1>5. ASSUME NEW r \in Requests,
             \/ \E secrets \in [Cleared -> Optional] : Receive(r, secrets)
             \/ Apply(r) \/ ApplyFails(r) \/ Clear(r) \/ Marshal(r) \/ Restore(r)
      PROVE  at'["guardian"] = "up"
  <2>1. r # "guardian"
    BY Names
  <2> QED BY <1>1, <1>5, <2>1 DEF Receive, Apply, ApplyFails, Clear, Marshal, Restore
<1> QED BY <1>2, <1>3, <1>4, <1>5 DEF SettingsStep

\* A step of the two together is one of each, or leaves it alone.
LEMMA StepsOfBoth ==
    ASSUME Inv, [Next]_vars
    PROVE  [SettingsNext]_settingsVars /\ [RegistryNext]_registryVars /\ Placed'
<1>1. CASE SettingsStep /\ UNCHANGED registryVars
  <2>1. Placed'
    BY <1>1, StaysUp DEF Inv, Placed, registryVars
  <2> QED BY <1>1, <2>1 DEF SettingsNext
<1>2. CASE RegistryStep /\ UNCHANGED settingsVars
  <2>1. stage = "down" => stage' = "down"
    BY <1>2 DEF RegistryStep, Inv, RegistryInv, DefinitionInv, Orderly, Idle, Add, Update,
       Remove, Lookup, StartService, End, TruncateFile, FillFile, SaveService, WriteFails,
       Install, LoadAll, CountDegrees, Pop, AutoStart, runtime
  <2>2. Placed'
    BY <1>2, <2>1 DEF Inv, Placed, settingsVars
  <2> QED BY <1>2, <2>2 DEF RegistryNext
<1>3. CASE Start
  <2>1. Placed'
    BY <1>3 DEF Start, Placed, settingsVars
  <2> QED BY <1>3, <2>1 DEF Start, RegistryNext
<1>4. CASE Leave
  <2>1. CASE MayGo(FALSE) /\ SettingsMayGo /\ Gone(FALSE) /\ SettingsGone
    BY <2>1 DEF SettingsNext, RegistryNext, Gone, Placed
  <2>2. CASE MayGo(TRUE) /\ world.crashes /\ Gone(TRUE) /\ SettingsGone
    <3>1. SettingsMayGo
      BY <2>2 DEF MayGo, Inv, Placed, SettingsMayGo
    <3> QED BY <2>2, <3>1 DEF SettingsNext, RegistryNext, Gone, Placed
  <2>3. CASE stage = "down" /\ SettingsMayGo /\ UNCHANGED registryVars /\ SettingsGone
    BY <2>3 DEF SettingsNext, Placed, registryVars
  <2> QED BY <1>4, <2>1, <2>2, <2>3 DEF Leave
<1>5. CASE UNCHANGED vars
  BY <1>5 DEF vars, Inv, Placed, settingsVars, registryVars
<1> QED BY <1>1, <1>2, <1>3, <1>4, <1>5 DEF Next

LEMMA InvHolds == Spec => []Inv
<1>1. Init => Inv
  <2>1. RegistryInit => RegistryInv
    BY DefinitionStart, SortFields DEF RegistryInit, RegistryInv, SortInv
  <2>2. RegistryInit => Placed
    BY DEF RegistryInit, Placed
  <2> QED BY <2>1, <2>2, SettingsStart DEF Init, Inv
<1>2. Inv /\ [Next]_vars => Inv'
  BY StepsOfBoth, SettingsKeep, DefinitionNext, SortNext DEF Inv, RegistryInv
<1> QED BY <1>1, <1>2, PTL DEF Spec

\* The settings go through nothing together with the services that they would
\* not go through alone: a Guardian is killed, or stops, for both at once.
THEOREM ImplementsSettings == Spec => SettingsSpec
<1>1. Init => SettingsInit
  BY DEF Init
<1>2. Inv /\ [Next]_vars => [SettingsNext]_settingsVars
  BY StepsOfBoth
<1> QED BY <1>1, <1>2, InvHolds, PTL DEF Spec, SettingsSpec

\* Nor do the services, which are started when the settings are loaded.
THEOREM ImplementsRegistry == Spec => RegistrySpec
<1>1. Init => RegistryInit
  BY DEF Init
<1>2. Inv /\ [Next]_vars => [RegistryNext]_registryVars
  BY StepsOfBoth
<1> QED BY <1>1, <1>2, InvHolds, PTL DEF Spec, RegistrySpec

\* Types hold of the whole.
THEOREM TypesCorrect == Spec => []TypeOK
BY ImplementsSettings, ImplementsRegistry, TypeCorrect, RegistryTypes, PTL DEF TypeOK

\* What the Guardian keeps from one start to the next it keeps of both: secrets
\* it can use and a file that has them, and services whose definition, file,
\* jobs and state agree and that are started in an order they can be.
THEOREM KeptTogether ==
    Spec => [](SecretsUsable /\ FileMatches /\ DefinitionsMatch /\ StatusTrue /\ StartOrder)
BY ImplementsSettings, ImplementsRegistry, SecretsAreUsable, FileIsRight,
   DefinitionsCorrect, StatusCorrect, OrderCorrect, PTL
=============================================================================

------------------------------- MODULE Settings -------------------------------
(***************************************************************************)
(* The global configuration: one file, read by every process that loads it *)
(* and written back at once with its secrets encrypted; the copy the       *)
(* Guardian works on, which an update through the API changes, clears of   *)
(* its secrets, writes out and fills in again; and the command that resets *)
(* the API token, a process of its own.  Only the secrets and the token's  *)
(* hash are told apart: whatever else an update sets changes with them.    *)
(***************************************************************************)
EXTENDS Naturals, Sequences

CONSTANTS Cleared,       \* secrets an update clears before it saves
          Kept,          \* secrets it leaves in place: the slave token
          SecretOrder,   \* the order in which all of them are encrypted
          Sections,      \* the order in which an update treats the cleared ones
          MaxValue,      \* bound: values a secret takes, besides none
          Requests,      \* updates that may be in progress at a time
          Worlds         \* the circumstances to consider

Secrets  == Cleared \cup Kept
Values   == 1..MaxValue
Optional == 0..MaxValue          \* 0: the empty string
Loaders  == {"guardian", "cli"}
Actors   == Loaders \cup Requests

\* The encryption of a secret is named by what it decrypts to.
Config == [plain : [Secrets -> Optional], cipher : [Secrets -> Optional],
           hash : 0..2]
Installed == 1     \* the hash of the token the file was installed with
Fresh == 2         \* that of the token reset-token makes

World ==
    [dpapi   : BOOLEAN,   \* DPAPI encrypts and decrypts whatever it is given
     disk    : BOOLEAN,   \* writes succeed
     crashes : BOOLEAN,   \* the Guardian may be killed
     cli     : {"never", "offline", "online"},  \* when the token is reset
     given   : SUBSET Secrets,   \* the secrets the file has at first
     overlap : BOOLEAN,   \* updates may overlap
     updates : SUBSET Cleared]   \* the secrets that updates set

ASSUME SettingsAssumption ==
    /\ Cleared \cap Kept = {}
    /\ \A s \in Secrets : \E i \in DOMAIN SecretOrder : SecretOrder[i] = s
    /\ \A s \in Cleared : \E i \in DOMAIN Sections : Sections[i] = s
    /\ SecretOrder \in Seq(Secrets) /\ Sections \in Seq(Cleared)
    /\ MaxValue \in Nat \ {0}
    /\ Requests \cap Loaders = {}
    /\ Worlds \subseteq World

VARIABLES
    world,
    disk,     \* the configuration file, whole or cut off
    memory,   \* the configuration of each process
    at,       \* how far each of them is, and each update
    bytes,    \* what a save has marshalled
    update,   \* the new secrets an update has still to set, 0 for none
    aside     \* the secrets an update will restore

settingsVars == <<world, disk, memory, at, bytes, update, aside>>

NoSecrets == [s \in Secrets |-> 0]
NoConfig  == [plain |-> NoSecrets, cipher |-> NoSecrets, hash |-> 0]
NoUpdate  == [s \in Cleared |-> 0]

SettingsTypeOK ==
    /\ world \in Worlds
    /\ disk \in [whole : BOOLEAN, config : Config]
    /\ memory \in [Loaders -> Config]
    /\ at \in [Actors -> {"off", "truncate", "fill", "decrypt", "reset", "up",
                          "done", "apply", "marshal", "restore"}]
    /\ bytes \in [Actors -> Config]
    /\ update \in [Requests -> [Cleared -> Optional]]
    /\ aside \in [Requests -> [Cleared -> Optional]]

\* A file that was edited by hand, with secrets in the clear, or saved before.
SettingsInit ==
    /\ world \in Worlds
    /\ LET given == [s \in Secrets |-> IF s \in world.given THEN 1 ELSE 0] IN
       disk \in [whole : {TRUE},
                 config : {[plain |-> given, cipher |-> NoSecrets, hash |-> Installed],
                           [plain |-> NoSecrets, cipher |-> given, hash |-> Installed]}]
    /\ memory = [l \in Loaders |-> NoConfig]
    /\ at = [a \in Actors |-> "off"]
    /\ bytes = [a \in Actors |-> NoConfig]
    /\ update = [r \in Requests |-> NoUpdate]
    /\ aside = [r \in Requests |-> NoUpdate]

-----------------------------------------------------------------------------
(* Loading.                                                                *)

\* Load and Validate: a file is used when it has a token hash, which comes before
\* every secret in it; a file that was cut off may thus be used without them.
Usable == disk.config.hash # 0

Before(n) == {SecretOrder[i] : i \in 1..n}

\* EncryptSecrets, if it fails at the secret after the n-th.
Encrypted(c, n) ==
    LET done == {s \in Before(n) : c.plain[s] # 0} IN
    [c EXCEPT !.cipher = [s \in Secrets |-> IF s \in done THEN c.plain[s] ELSE @[s]],
              !.plain = [s \in Secrets |-> IF s \in done THEN 0 ELSE @[s]]]

\* DecryptSecrets, likewise.
Decrypted(c, n) ==
    [c EXCEPT !.plain = [s \in Secrets |->
                           IF s \in Before(n) /\ @[s] = 0 THEN c.cipher[s] ELSE @[s]]]

\* How many secrets a pass over them gets done.
Reached == IF world.dpapi THEN {Len(SecretOrder)} ELSE 0..Len(SecretOrder)

\* The Guardian starts, or the command does.
MayLoad(l) ==
    /\ at[l] = "off"
    /\ (l = "guardian" /\ world.cli = "offline") => at["cli"] \in {"off", "done"}
    /\ l = "cli" => \/ world.cli = "online"
                    \/ world.cli = "offline" /\ at["guardian"] = "off"

\* Load reads the file and encrypts its secrets; if that succeeds it saves.
\* With a file that cannot be used the Guardian runs on the defaults, which have
\* neither secrets nor a hash, and the command gives up.
Load(l) ==
    /\ MayLoad(l)
    /\ IF Usable
       THEN \E n \in Reached :
              LET c == Encrypted(disk.config, n) IN
              /\ memory' = [memory EXCEPT ![l] = c]
              /\ IF n = Len(SecretOrder)
                 THEN /\ bytes' = [bytes EXCEPT ![l] = c]
                      /\ at' = [at EXCEPT ![l] = "truncate"]
                 ELSE /\ at' = [at EXCEPT ![l] = "decrypt"]
                      /\ UNCHANGED bytes
       ELSE /\ at' = [at EXCEPT ![l] = IF l = "cli" THEN "done" ELSE "up"]
            /\ memory' = [memory EXCEPT ![l] = NoConfig]
            /\ UNCHANGED bytes
    /\ UNCHANGED <<world, disk, update, aside>>

\* Load decrypts for the run; it stops at the first secret that does not.
Decrypt(l) ==
    /\ at[l] = "decrypt"
    /\ \E n \in Reached : memory' = [memory EXCEPT ![l] = Decrypted(@, n)]
    /\ at' = [at EXCEPT ![l] = IF l = "cli" THEN "reset" ELSE "up"]
    /\ UNCHANGED <<world, disk, bytes, update, aside>>

\* reset-token saves the configuration as it was decrypted.
ResetToken ==
    /\ at["cli"] = "reset"
    /\ memory' = [memory EXCEPT !["cli"].hash = Fresh]
    /\ bytes' = [bytes EXCEPT !["cli"] = [memory["cli"] EXCEPT !.hash = Fresh]]
    /\ at' = [at EXCEPT !["cli"] = "truncate"]
    /\ UNCHANGED <<world, disk, update, aside>>

-----------------------------------------------------------------------------
(* Saving: os.WriteFile empties the file before it writes.                 *)

\* What there is of a configuration before it is written to the end: nothing
\* that can be used, or the part with the hash.
CutOff(c) == {[whole |-> FALSE, config |-> d] : d \in {NoConfig, [NoConfig EXCEPT !.hash = c.hash]}}

\* Whoever saved goes on, whether it succeeded or not.
AfterSave(a) == CASE a \in Requests -> "restore"
                  [] a = "guardian" -> "decrypt"
                  [] OTHER -> IF bytes[a].hash = Fresh THEN "done" ELSE "decrypt"

Truncate(a) ==
    /\ at[a] = "truncate"
    /\ disk' \in CutOff(bytes[a])
    /\ at' = [at EXCEPT ![a] = "fill"]
    /\ UNCHANGED <<world, memory, bytes, update, aside>>

Fill(a) ==
    /\ at[a] = "fill"
    /\ disk' = [whole |-> TRUE, config |-> bytes[a]]
    /\ at' = [at EXCEPT ![a] = AfterSave(a)]
    /\ bytes' = [bytes EXCEPT ![a] = NoConfig]
    /\ UNCHANGED <<world, memory, update, aside>>

\* The file cannot be opened, or not be written to the end.
SaveFails(a) ==
    /\ ~world.disk
    /\ at[a] \in {"truncate", "fill"}
    /\ at' = [at EXCEPT ![a] = AfterSave(a)]
    /\ bytes' = [bytes EXCEPT ![a] = NoConfig]
    /\ UNCHANGED <<world, disk, memory, update, aside>>

-----------------------------------------------------------------------------
(* handleUpdateConfig, on the one configuration all requests share.        *)

InProgress(r) == at[r] # "off"

Receive(r, secrets) ==
    /\ at["guardian"] = "up"
    /\ ~InProgress(r)
    /\ \A s \in Cleared \ world.updates : secrets[s] = 0
    /\ world.overlap \/ \A q \in Requests : ~InProgress(q)
    /\ update' = [update EXCEPT ![r] = secrets]
    /\ at' = [at EXCEPT ![r] = "apply"]
    /\ UNCHANGED <<world, disk, memory, bytes, aside>>

Due(r) == {i \in DOMAIN Sections : update[r][Sections[i]] # 0}
First(r) == CHOOSE i \in Due(r) : \A j \in Due(r) : i <= j

\* Fault: the last section does not count as a change.
ApplyUnnoticed(r) ==
    /\ at[r] = "apply" /\ Due(r) # {}
    /\ LET s == Sections[First(r)] IN
       /\ memory' = [memory EXCEPT !["guardian"].cipher[s] = update[r][s],
                                   !["guardian"].plain[s] = update[r][s]]
       /\ update' = [update EXCEPT ![r][s] = 0]
       /\ at' = [at EXCEPT ![r] = IF First(r) = Len(Sections) THEN "off" ELSE @]
    /\ UNCHANGED <<world, disk, bytes, aside>>

\* A section of the update: its secret is encrypted and set in both forms.
Apply(r) ==
    /\ at[r] = "apply" /\ Due(r) # {}
    /\ LET s == Sections[First(r)] IN
       /\ memory' = [memory EXCEPT !["guardian"].cipher[s] = update[r][s],
                                   !["guardian"].plain[s] = update[r][s]]
       /\ update' = [update EXCEPT ![r][s] = 0]
    /\ UNCHANGED <<world, disk, at, bytes, aside>>

\* It cannot be encrypted: the sections before it stay applied, unsaved.
ApplyFails(r) ==
    /\ at[r] = "apply" /\ Due(r) # {} /\ ~world.dpapi
    /\ update' = [update EXCEPT ![r] = NoUpdate]
    /\ at' = [at EXCEPT ![r] = "off"]
    /\ UNCHANGED <<world, disk, memory, bytes, aside>>

\* The secrets in the clear are put aside, all but the slave token.
Clear(r) ==
    /\ at[r] = "apply" /\ Due(r) = {}
    /\ aside' = [aside EXCEPT ![r] = [s \in Cleared |-> memory["guardian"].plain[s]]]
    /\ memory' = [memory EXCEPT !["guardian"].plain =
                    [s \in Secrets |-> IF s \in Cleared THEN 0 ELSE @[s]]]
    /\ at' = [at EXCEPT ![r] = "marshal"]
    /\ UNCHANGED <<world, disk, bytes, update>>

Marshal(r) ==
    /\ at[r] = "marshal"
    /\ bytes' = [bytes EXCEPT ![r] = memory["guardian"]]
    /\ at' = [at EXCEPT ![r] = "truncate"]
    /\ UNCHANGED <<world, disk, memory, update, aside>>

\* Fault: a secret is not put back.
RestoreAllButLast(r) ==
    /\ at[r] = "restore"
    /\ memory' = [memory EXCEPT !["guardian"].plain =
                    [s \in Secrets |-> IF s \in Cleared /\ s # Sections[Len(Sections)]
                                       THEN aside[r][s] ELSE @[s]]]
    /\ aside' = [aside EXCEPT ![r] = NoUpdate]
    /\ at' = [at EXCEPT ![r] = "off"]
    /\ UNCHANGED <<world, disk, bytes, update>>

Restore(r) ==
    /\ at[r] = "restore"
    /\ memory' = [memory EXCEPT !["guardian"].plain =
                    [s \in Secrets |-> IF s \in Cleared THEN aside[r][s] ELSE @[s]]]
    /\ aside' = [aside EXCEPT ![r] = NoUpdate]
    /\ at' = [at EXCEPT ![r] = "off"]
    /\ UNCHANGED <<world, disk, bytes, update>>

-----------------------------------------------------------------------------

\* The Guardian is gone, and the updates with it.
SettingsGone ==
    /\ memory' = [memory EXCEPT !["guardian"] = NoConfig]
    /\ at' = [a \in Actors |-> IF a = "cli" THEN at[a] ELSE "off"]
    /\ bytes' = [a \in Actors |-> IF a = "cli" THEN bytes[a] ELSE NoConfig]
    /\ update' = [r \in Requests |-> NoUpdate]
    /\ aside' = [r \in Requests |-> NoUpdate]
    /\ UNCHANGED <<world, disk>>

\* It is killed, or it ends when the updates are over.
SettingsMayGo == \/ world.crashes /\ at["guardian"] # "off"
                 \/ /\ at["guardian"] = "up"
                    /\ \A r \in Requests : ~InProgress(r)

SettingsStep ==
    \/ \E l \in Loaders : Load(l) \/ Decrypt(l)
    \/ ResetToken
    \/ \E a \in Actors : Truncate(a) \/ Fill(a) \/ SaveFails(a)
    \/ \E r \in Requests :
          \/ \E secrets \in [Cleared -> Optional] : Receive(r, secrets)
          \/ Apply(r) \/ ApplyFails(r) \/ Clear(r) \/ Marshal(r) \/ Restore(r)

SettingsNext == SettingsStep \/ (SettingsMayGo /\ SettingsGone)

SettingsSpec == SettingsInit /\ [][SettingsNext]_settingsVars

-----------------------------------------------------------------------------
(* Properties.                                                             *)

Quiescent == at["guardian"] = "up" /\ \A r \in Requests : ~InProgress(r)

\* Between updates the Guardian works with every secret it has on record, as
\* last set, if DPAPI does its work and updates do not overlap: two that do may
\* put each other's empty or old secrets back.
SecretsUsable ==
    (Quiescent /\ world.dpapi /\ ~world.overlap) =>
        memory["guardian"].plain = memory["guardian"].cipher

\* Between updates the file holds what the Guardian works with, encrypted, and
\* the token that was reset while it was down; no secret an update clears is on
\* the disk in the clear.  Not so after a save that failed, after updates that
\* overlapped, when the token is reset while the Guardian runs, or when it runs
\* on the defaults, because it was killed during a save: its next update then
\* takes the place of what was left of the file.  What was left may also be
\* usable: then the two agree, on a configuration that has lost its secrets.
FileMatches ==
    (/\ Quiescent /\ world.dpapi /\ world.disk /\ ~world.overlap
     /\ world.cli # "online" /\ memory["guardian"].hash # 0) =>
        /\ disk.whole
        /\ disk.config.cipher = memory["guardian"].cipher
        /\ disk.config.hash = memory["guardian"].hash
        /\ at["cli"] = "done" => disk.config.hash = Fresh
        /\ \A s \in Cleared : disk.config.plain[s] = 0
=============================================================================

---------------------------- MODULE SettingsProofs ----------------------------
(***************************************************************************)
(* Proofs about Settings, for any secrets, values, updates and worlds.     *)
(***************************************************************************)
EXTENDS Settings, WellFoundedInduction, TLAPS

-----------------------------------------------------------------------------
(* The invariant.                                                          *)

Guardian == memory["guardian"]

\* The update has put the secrets aside and not yet back.
Saving(r) == at[r] \in {"marshal", "truncate", "fill", "restore"}

\* Who is how far: updates need a Guardian that is up.
Stages ==
    /\ at["guardian"] \in {"off", "truncate", "fill", "decrypt", "up"}
    /\ at["cli"] \in {"off", "truncate", "fill", "decrypt", "reset", "done"}
    /\ world.cli = "never" => at["cli"] = "off"
    /\ \A r \in Requests : at[r] = "off" \/ at[r] = "apply" \/ Saving(r)
    /\ \A r \in Requests : InProgress(r) => at["guardian"] = "up"
    /\ ~world.overlap =>
          \A q, r \in Requests : InProgress(q) /\ InProgress(r) => q = r

\* Before they are decrypted no secret is in the clear; later all are, but for
\* those that an update has put aside.
SecretsInv ==
    (world.dpapi /\ ~world.overlap) =>
        /\ at["guardian"] \in {"truncate", "fill", "decrypt"} =>
              \A s \in Secrets : Guardian.plain[s] = 0
        /\ at["guardian"] = "up" =>
              /\ \A s \in Kept : Guardian.plain[s] = Guardian.cipher[s]
              /\ (\A r \in Requests : ~Saving(r)) =>
                    \A s \in Cleared : Guardian.plain[s] = Guardian.cipher[s]
              /\ \A r \in Requests, s \in Cleared :
                    Saving(r) => aside[r][s] = Guardian.cipher[s]

\* The file is the one the Guardian has.
Written ==
    /\ disk.whole
    /\ disk.config.cipher = Guardian.cipher /\ disk.config.hash = Guardian.hash
    /\ \A s \in Cleared : disk.config.plain[s] = 0

\* What is being written is what the Guardian has, without the secrets an
\* update clears; and a token that was reset is in the file, in the Guardian,
\* and in what either of them gets from the other.
FileInv ==
    (world.dpapi /\ world.disk /\ ~world.overlap /\ world.cli # "online") =>
        /\ at["cli"] \notin {"off", "done"} => at["guardian"] = "off"
        /\ at["guardian"] = "off" => Guardian.hash = 0
        /\ at["guardian"] \in {"truncate", "fill"} =>
              /\ bytes["guardian"].hash = Guardian.hash
              /\ bytes["guardian"].cipher = Guardian.cipher
              /\ \A s \in Cleared : bytes["guardian"].plain[s] = 0
        /\ at["guardian"] = "decrypt" => Written
        /\ \A r \in Requests :
              /\ Saving(r) => \A s \in Cleared : Guardian.plain[s] = 0
              /\ at[r] \in {"truncate", "fill"} => bytes[r] = Guardian
              /\ at[r] = "restore" => Written
        /\ Quiescent /\ Guardian.hash # 0 => Written
        /\ at["cli"] = "done" =>
              /\ Guardian.hash \in {0, Fresh}
              /\ disk.config.hash \in {0, Fresh}

SettingsInv == SettingsTypeOK /\ Stages /\ SecretsInv /\ FileInv

-----------------------------------------------------------------------------
(* The data.                                                               *)

LEMMA Names ==
    /\ {"guardian", "cli"} \subseteq Actors /\ Loaders = {"guardian", "cli"}
    /\ Actors = {"guardian", "cli"} \cup Requests
    /\ "guardian" \notin Requests /\ "cli" \notin Requests
    /\ Secrets = Cleared \cup Kept /\ Cleared \cap Kept = {}
    /\ Optional = 0..MaxValue /\ MaxValue \in Nat \ {0}
    /\ Installed = 1 /\ Fresh = 2
BY SettingsAssumption DEF Actors, Loaders, Secrets, Optional, Installed, Fresh

LEMMA Nothing ==
    /\ NoSecrets \in [Secrets -> Optional] /\ NoConfig \in Config
    /\ NoUpdate \in [Cleared -> Optional]
    /\ NoConfig.plain = NoSecrets /\ NoConfig.cipher = NoSecrets /\ NoConfig.hash = 0
BY Names DEF NoSecrets, NoConfig, NoUpdate, Config

LEMMA CutOffs ==
    ASSUME NEW c \in Config, NEW file \in CutOff(c)
    PROVE  /\ file \in [whole : BOOLEAN, config : Config] /\ ~file.whole
           /\ file.config.hash \in {0, c.hash}
<1>1. NoConfig \in Config /\ NoConfig.hash = 0 /\ c.hash \in 0..2
  BY Nothing DEF Config
<1>2. /\ [NoConfig EXCEPT !.hash = c.hash] \in Config
      /\ [NoConfig EXCEPT !.hash = c.hash].hash = c.hash
  BY <1>1 DEF Config
<1>3. PICK d \in {NoConfig, [NoConfig EXCEPT !.hash = c.hash]} :
          file = [whole |-> FALSE, config |-> d]
  BY DEF CutOff
<1>4. d \in Config /\ d.hash \in {0, c.hash}
  BY <1>1, <1>2, <1>3
<1> QED BY <1>3, <1>4

LEMMA Reaches == Reached \subseteq 0..Len(SecretOrder) /\ Len(SecretOrder) \in Nat
BY SettingsAssumption DEF Reached

LEMMA BeforeAll == Secrets \subseteq Before(Len(SecretOrder))
BY SettingsAssumption DEF Before

LEMMA Least ==
    ASSUME NEW T \in SUBSET Nat, T # {}
    PROVE  \E n \in T : \A m \in T : n <= m
<1>1. PICK n \in T : \A m \in T : ~ (<<m, n>> \in OpToRel(<, Nat))
  BY WFMin, NatLessThanWellFounded
<1>2. \A m \in T : ~ (m < n)
  BY <1>1, Zenon DEF OpToRel
<1>3. n \in Nat /\ \A m \in T : m \in Nat
  BY <1>1
<1> QED BY <1>2, <1>3

LEMMA EncryptedOf ==
    ASSUME NEW c \in Config, NEW n \in 0..Len(SecretOrder)
    PROVE  /\ Encrypted(c, n) \in Config /\ Encrypted(c, n).hash = c.hash
           /\ n = Len(SecretOrder) => \A s \in Secrets : Encrypted(c, n).plain[s] = 0
<1> DEFINE done == {s \in Before(n) : c.plain[s] # 0}
           cipher == [s \in Secrets |-> IF s \in done THEN c.plain[s] ELSE c.cipher[s]]
           plain == [s \in Secrets |-> IF s \in done THEN 0 ELSE c.plain[s]]
<1>1. Encrypted(c, n) = [c EXCEPT !.cipher = cipher, !.plain = plain]
  BY DEF Encrypted
<1>2. cipher \in [Secrets -> Optional] /\ plain \in [Secrets -> Optional]
  BY Names DEF Config
<1>3. n = Len(SecretOrder) => \A s \in Secrets : plain[s] = 0
  BY BeforeAll
<1> HIDE DEF cipher, plain
<1>4. Encrypted(c, n) = [plain |-> plain, cipher |-> cipher, hash |-> c.hash]
  BY <1>1 DEF Config
<1> QED BY <1>2, <1>3, <1>4 DEF Config

LEMMA DecryptedOf ==
    ASSUME NEW c \in Config, NEW n \in 0..Len(SecretOrder)
    PROVE  /\ Decrypted(c, n) \in Config /\ Decrypted(c, n).hash = c.hash
           /\ Decrypted(c, n).cipher = c.cipher
           /\ (n = Len(SecretOrder) /\ \A s \in Secrets : c.plain[s] = 0) =>
                 \A s \in Secrets : Decrypted(c, n).plain[s] = c.cipher[s]
<1> DEFINE plain == [s \in Secrets |-> IF s \in Before(n) /\ c.plain[s] = 0
                                       THEN c.cipher[s] ELSE c.plain[s]]
<1>1. Decrypted(c, n) = [c EXCEPT !.plain = plain]
  BY DEF Decrypted
<1>2. plain \in [Secrets -> Optional]
  BY Names DEF Config
<1>3. (n = Len(SecretOrder) /\ \A s \in Secrets : c.plain[s] = 0) =>
         \A s \in Secrets : plain[s] = c.cipher[s]
  BY BeforeAll
<1> HIDE DEF plain
<1>4. Decrypted(c, n) = [plain |-> plain, cipher |-> c.cipher, hash |-> c.hash]
  BY <1>1 DEF Config
<1> QED BY <1>2, <1>3, <1>4 DEF Config

LEMMA SettingsStart == SettingsInit => SettingsInv
<1> SUFFICES ASSUME SettingsInit PROVE SettingsInv
  OBVIOUS
<1>1. SettingsTypeOK
  <2> DEFINE given == [s \in Secrets |-> IF s \in world.given THEN 1 ELSE 0]
             c1 == [plain |-> given, cipher |-> NoSecrets, hash |-> Installed]
             c2 == [plain |-> NoSecrets, cipher |-> given, hash |-> Installed]
  <2>1. given \in [Secrets -> Optional]
    BY Names
  <2>2. c1 \in Config /\ c2 \in Config
    <3> HIDE DEF given
    <3> QED BY <2>1, Names, Nothing DEF Config
  <2>3. disk \in [whole : BOOLEAN, config : Config]
    <3>1. disk \in [whole : {TRUE}, config : {c1, c2}]
      BY DEF SettingsInit
    <3> HIDE DEF c1, c2
    <3> QED BY <2>2, <3>1
  <2> QED BY <2>3, Names, Nothing DEF SettingsInit, SettingsTypeOK
<1>2. Guardian = NoConfig /\ \A a \in Actors : at[a] = "off"
  BY Names DEF SettingsInit, Guardian
<1> QED BY <1>1, <1>2, Names, Nothing
        DEF SettingsInv, Stages, SecretsInv, FileInv, InProgress, Saving, Quiescent

-----------------------------------------------------------------------------
(* Loading.                                                                *)

\* A loader starts when the other is not at work.
LEMMA LoadKeeps ==
    ASSUME SettingsInv, NEW l \in Loaders, Load(l)
    PROVE  SettingsInv'
<1>0. l \in {"guardian", "cli"} /\ l \in Actors /\ at[l] = "off"
  BY Names DEF Load, MayLoad
<1>1. /\ UNCHANGED <<world, disk, update, aside>>
      /\ \A a \in Actors \ {l} : at'[a] = at[a]
      /\ at' \in [Actors -> {"off", "truncate", "fill", "decrypt", "reset", "up", "done",
                             "apply", "marshal", "restore"}]
      /\ memory' = [memory EXCEPT ![l] = memory'[l]] /\ memory'[l] \in Config
      /\ \/ /\ Usable /\ at'[l] \in {"truncate", "decrypt"}
            /\ memory'[l].hash = disk.config.hash
            /\ world.dpapi => at'[l] = "truncate" /\ \A s \in Secrets : memory'[l].plain[s] = 0
            /\ at'[l] = "truncate" => bytes' = [bytes EXCEPT ![l] = memory'[l]]
            /\ at'[l] = "decrypt" => bytes' = bytes
         \/ /\ ~Usable /\ memory'[l] = NoConfig /\ bytes' = bytes
            /\ at'[l] = IF l = "cli" THEN "done" ELSE "up"
  <2>1. CASE Usable
    <3>1. PICK n \in Reached :
             LET c == Encrypted(disk.config, n) IN
             /\ memory' = [memory EXCEPT ![l] = c]
             /\ IF n = Len(SecretOrder)
                THEN /\ bytes' = [bytes EXCEPT ![l] = c]
                     /\ at' = [at EXCEPT ![l] = "truncate"]
                ELSE at' = [at EXCEPT ![l] = "decrypt"] /\ UNCHANGED bytes
      BY <2>1 DEF Load
    <3>2. n \in 0..Len(SecretOrder) /\ disk.config \in Config
      BY Reaches DEF SettingsInv, SettingsTypeOK
    <3>3. world.dpapi => n = Len(SecretOrder)
      BY DEF Reached
    <3>4. memory'[l] = Encrypted(disk.config, n)
      BY <1>0, <3>1, Names DEF SettingsInv, SettingsTypeOK
    <3>5. /\ memory'[l] \in Config /\ memory'[l].hash = disk.config.hash
          /\ world.dpapi => \A s \in Secrets : memory'[l].plain[s] = 0
      BY <3>2, <3>3, <3>4, EncryptedOf
    <3>6. UNCHANGED <<world, disk, update, aside>>
      BY DEF Load
    <3>7. /\ n = Len(SecretOrder) => at' = [at EXCEPT ![l] = "truncate"]
          /\ n # Len(SecretOrder) => at' = [at EXCEPT ![l] = "decrypt"] /\ bytes' = bytes
          /\ n = Len(SecretOrder) => bytes' = [bytes EXCEPT ![l] = memory'[l]]
          /\ memory' = [memory EXCEPT ![l] = memory'[l]]
      BY <3>1, <3>4
    <3> QED BY <1>0, <2>1, <3>3, <3>5, <3>6, <3>7 DEF SettingsInv, SettingsTypeOK
  <2>2. CASE ~Usable
    <3>1. /\ at' = [at EXCEPT ![l] = IF l = "cli" THEN "done" ELSE "up"]
          /\ memory' = [memory EXCEPT ![l] = NoConfig]
          /\ UNCHANGED <<world, disk, update, aside, bytes>>
      BY <2>2 DEF Load
    <3>2. memory'[l] = NoConfig
      BY <1>0, <3>1, Names DEF SettingsInv, SettingsTypeOK
    <3> QED BY <1>0, <2>2, <3>1, <3>2, Nothing DEF SettingsInv, SettingsTypeOK
  <2> QED BY <2>1, <2>2
<1>2. SettingsTypeOK'
  <2>1. memory' \in [Loaders -> Config]
    BY <1>1 DEF SettingsInv, SettingsTypeOK
  <2>2. bytes' \in [Actors -> Config]
    <3>1. bytes' = bytes \/ bytes' = [bytes EXCEPT ![l] = memory'[l]]
      BY <1>1
    <3> QED BY <1>0, <1>1, <3>1 DEF SettingsInv, SettingsTypeOK
  <2> QED BY <1>1, <2>1, <2>2 DEF SettingsInv, SettingsTypeOK
<1>3. CASE l = "guardian"
  <2>1. \A r \in Requests : at[r] = "off" /\ at'[r] = "off"
    BY <1>0, <1>1, <1>3, Names DEF SettingsInv, Stages, InProgress
  <2>2. Guardian' = memory'["guardian"]
    BY DEF Guardian
  <2>3. Stages'
    BY <1>1, <1>3, <2>1, Names DEF SettingsInv, Stages, InProgress, Saving
  <2>4. SecretsInv'
    BY <1>1, <1>3, <2>1, <2>2, Names, Nothing DEF SecretsInv, Saving, NoSecrets
  <2>5. FileInv'
    <3> SUFFICES ASSUME world.dpapi, world.disk, ~world.overlap, world.cli # "online"
                 PROVE  FileInv'
      BY <1>1 DEF FileInv
    <3>1. at'["cli"] = at["cli"] /\ (at["cli"] = "done" =>
                                       disk.config.hash \in {0, Fresh})
      BY <1>1, <1>3, Names DEF SettingsInv, FileInv
    <3>2. at'["cli"] \in {"off", "done"}
      <4>1. world.cli \in {"never", "offline"}
        BY SettingsAssumption DEF SettingsInv, SettingsTypeOK, World
      <4>2. at["cli"] \in {"off", "done"}
        BY <1>3, <4>1 DEF Load, MayLoad, SettingsInv, Stages
      <4> QED BY <3>1, <4>2
    <3>3. at'["guardian"] \in {"truncate", "up"}
      BY <1>1, <1>3
    <3>4. at'["guardian"] = "truncate" =>
             /\ bytes'["guardian"] = Guardian' /\ \A s \in Cleared : Guardian'.plain[s] = 0
      BY <1>1, <1>3, <2>2, Names DEF SettingsInv, SettingsTypeOK
    <3>5. at'["guardian"] = "up" => Guardian'.hash = 0
      BY <1>1, <1>3, <2>2, Nothing
    <3>6. at["cli"] = "done" => Guardian'.hash \in {0, Fresh}
      BY <1>1, <1>3, <2>2, <3>1, Nothing DEF Usable
    <3>7. UNCHANGED <<world, disk>>
      BY <1>1
    <3> QED
      BY <2>1, <3>1, <3>2, <3>3, <3>4, <3>5, <3>6, <3>7 DEF FileInv, Saving, Quiescent
  <2> QED BY <1>2, <2>3, <2>4, <2>5 DEF SettingsInv
<1>4. CASE l = "cli"
  <2>1. Guardian' = Guardian /\ at'["guardian"] = at["guardian"]
        /\ bytes'["guardian"] = bytes["guardian"]
        /\ \A r \in Requests : at'[r] = at[r] /\ bytes'[r] = bytes[r]
    BY <1>1, <1>4, Names DEF Guardian, SettingsInv, SettingsTypeOK
  <2>2. Stages'
    <3>1. world.cli # "never"
      BY <1>4 DEF Load, MayLoad
    <3> QED BY <1>1, <1>4, <2>1, <3>1, Names DEF SettingsInv, Stages, InProgress, Saving
  <2>3. SecretsInv'
    BY <1>1, <2>1, Names DEF SettingsInv, SecretsInv, Saving
  <2>4. FileInv'
    <3> SUFFICES ASSUME world.dpapi, world.disk, ~world.overlap, world.cli # "online"
                 PROVE  FileInv'
      BY <1>1 DEF FileInv
    <3>1. at["guardian"] = "off"
      BY <1>4 DEF Load, MayLoad
    <3>2. \A r \in Requests : at[r] = "off"
      BY <3>1, Names DEF SettingsInv, Stages, InProgress
    <3>3. Guardian.hash = 0
      BY <3>1 DEF SettingsInv, FileInv
    <3> QED BY <1>1, <1>4, <2>1, <3>1, <3>2, <3>3
            DEF FileInv, Saving, Quiescent, Usable
  <2> QED BY <1>2, <2>2, <2>3, <2>4 DEF SettingsInv
<1> QED BY <1>0, <1>3, <1>4

-----------------------------------------------------------------------------
(* The command.                                                            *)

\* What the command does does not touch the Guardian, which is off meanwhile
\* unless the token is reset online.
LEMMA CommandKeeps ==
    ASSUME SettingsInv, SettingsTypeOK', UNCHANGED <<world, aside>>,
           at["cli"] \notin {"off", "done"},
           at'["cli"] \in {"truncate", "fill", "decrypt", "reset", "done"},
           \A a \in Actors \ {"cli"} : at'[a] = at[a] /\ bytes'[a] = bytes[a],
           Guardian' = Guardian,
           (world.disk /\ at'["cli"] = "done") =>
               disk'.config.hash \in {0, Fresh}
    PROVE  SettingsInv'
<1>1. /\ at'["guardian"] = at["guardian"] /\ bytes'["guardian"] = bytes["guardian"]
      /\ \A r \in Requests : at'[r] = at[r] /\ bytes'[r] = bytes[r]
  BY Names
<1>2. Stages'
  BY <1>1 DEF SettingsInv, Stages, InProgress, Saving
<1>3. SecretsInv'
  BY <1>1 DEF SettingsInv, SecretsInv, Saving
<1>4. FileInv'
  <2> SUFFICES ASSUME world.dpapi, world.disk, ~world.overlap, world.cli # "online"
               PROVE  FileInv'
    BY DEF FileInv
  <2>1. at["guardian"] = "off" /\ Guardian.hash = 0
    BY DEF SettingsInv, FileInv
  <2>2. \A r \in Requests : at[r] = "off"
    BY <2>1, Names DEF SettingsInv, Stages, InProgress
  <2> QED BY <1>1, <2>1, <2>2 DEF FileInv, Saving, Quiescent
<1> QED BY <1>2, <1>3, <1>4 DEF SettingsInv

LEMMA CommandSteps ==
    ASSUME SettingsInv,
           ResetToken \/ Decrypt("cli") \/ Truncate("cli") \/ Fill("cli") \/ SaveFails("cli")
    PROVE  SettingsInv'
<1>1. "cli" \in Actors /\ "cli" \in Loaders /\ "guardian" \in Loaders /\ "cli" # "guardian"
  BY Names
<1>2. CASE ResetToken
  <2>1. [memory["cli"] EXCEPT !.hash = Fresh] \in Config
    <3>1. memory["cli"] \in Config
      BY <1>1 DEF SettingsInv, SettingsTypeOK
    <3> HIDE DEF Fresh
    <3> QED BY <3>1, Names DEF Config
  <2>2. SettingsTypeOK'
    BY <1>1, <1>2, <2>1 DEF ResetToken, SettingsInv, SettingsTypeOK
  <2> QED BY <1>1, <1>2, <2>2, CommandKeeps
          DEF ResetToken, SettingsInv, SettingsTypeOK, Guardian
<1>3. CASE Decrypt("cli")
  <2>1. PICK n \in Reached : memory' = [memory EXCEPT !["cli"] = Decrypted(memory["cli"], n)]
    BY <1>3 DEF Decrypt
  <2>2. Decrypted(memory["cli"], n) \in Config
    BY <1>1, Reaches, DecryptedOf DEF SettingsInv, SettingsTypeOK
  <2>3. SettingsTypeOK'
    BY <1>1, <1>3, <2>1, <2>2 DEF Decrypt, SettingsInv, SettingsTypeOK
  <2> QED BY <1>1, <1>3, <2>1, <2>3, CommandKeeps
          DEF Decrypt, SettingsInv, SettingsTypeOK, Guardian
<1>4. CASE Truncate("cli")
  <2>1. disk' \in [whole : BOOLEAN, config : Config]
    <3>1. disk' \in CutOff(bytes["cli"]) /\ bytes["cli"] \in Config
      BY <1>1, <1>4 DEF Truncate, SettingsInv, SettingsTypeOK
    <3> QED BY <3>1, CutOffs
  <2>2. SettingsTypeOK'
    BY <1>1, <1>4, <2>1 DEF Truncate, SettingsInv, SettingsTypeOK
  <2> QED BY <1>1, <1>4, <2>2, CommandKeeps
          DEF Truncate, SettingsInv, SettingsTypeOK, Guardian
<1>5. CASE Fill("cli") \/ SaveFails("cli")
  <2>1. AfterSave("cli") = IF bytes["cli"].hash = Fresh THEN "done" ELSE "decrypt"
    BY <1>1, Names DEF AfterSave
  <2>2. bytes["cli"] \in Config
    BY <1>1 DEF SettingsInv, SettingsTypeOK
  <2>3. Fill("cli") => disk'.config = bytes["cli"]
    BY DEF Fill
  <2>4. disk' \in [whole : BOOLEAN, config : Config]
    <3>1. CASE Fill("cli")
      <4>1. disk' = [whole |-> TRUE, config |-> bytes["cli"]]
        BY <3>1 DEF Fill
      <4> QED BY <2>2, <4>1
    <3>2. CASE SaveFails("cli")
      BY <3>2 DEF SaveFails, SettingsInv, SettingsTypeOK
    <3> QED BY <1>5, <3>1, <3>2
  <2>5. SettingsTypeOK'
    <3>1. /\ UNCHANGED <<world, memory, update, aside>>
          /\ at' = [at EXCEPT !["cli"] = AfterSave("cli")]
          /\ bytes' = [bytes EXCEPT !["cli"] = NoConfig]
      BY <1>5 DEF Fill, SaveFails
    <3> QED BY <1>1, <2>1, <2>4, <3>1, Nothing DEF SettingsInv, SettingsTypeOK
  <2>6. (world.disk /\ at'["cli"] = "done") => disk'.config.hash = Fresh
    BY <1>1, <1>5, <2>1, <2>3 DEF Fill, SaveFails, SettingsInv, SettingsTypeOK
  <2> QED BY <1>1, <1>5, <2>1, <2>5, <2>6, CommandKeeps
          DEF Fill, SaveFails, SettingsInv, SettingsTypeOK, Guardian
<1> QED BY <1>2, <1>3, <1>4, <1>5

-----------------------------------------------------------------------------
(* The Guardian loads.                                                     *)

LEMMA LoadingGoesOn ==
    ASSUME SettingsInv,
           Truncate("guardian") \/ Fill("guardian") \/ SaveFails("guardian")
    PROVE  SettingsInv'
<1>1. /\ "cli" # "guardian" /\ {"cli", "guardian"} \subseteq Actors
      /\ \A r \in Requests : r \in Actors /\ r # "guardian"
  BY Names
<1>2. AfterSave("guardian") = "decrypt"
  BY <1>1 DEF AfterSave
<1>3. /\ UNCHANGED <<world, memory, update, aside>> /\ Guardian' = Guardian
      /\ at["guardian"] \in {"truncate", "fill"}
      /\ \/ /\ Truncate("guardian") /\ bytes' = bytes
            /\ at["guardian"] = "truncate"
            /\ at' = [at EXCEPT !["guardian"] = "fill"]
            /\ disk' \in CutOff(bytes["guardian"])
         \/ /\ Fill("guardian") \/ (SaveFails("guardian") /\ ~world.disk)
            /\ at' = [at EXCEPT !["guardian"] = "decrypt"]
            /\ bytes' = [bytes EXCEPT !["guardian"] = NoConfig]
            /\ disk' \in {disk, [whole |-> TRUE, config |-> bytes["guardian"]]}
            /\ world.disk => disk' = [whole |-> TRUE, config |-> bytes["guardian"]]
  BY <1>2 DEF Truncate, Fill, SaveFails, Guardian
<1>4. \A r \in Requests : at[r] = "off"
  BY <1>3 DEF SettingsInv, Stages, InProgress
<1>5. /\ at'["guardian"] \in {"fill", "decrypt"} /\ at'["cli"] = at["cli"]
      /\ \A r \in Requests : at'[r] = "off"
  BY <1>1, <1>3, <1>4 DEF SettingsInv, SettingsTypeOK
<1>6. SettingsTypeOK'
  <2>1. bytes' \in [Actors -> Config]
    BY <1>1, <1>3, Nothing DEF SettingsInv, SettingsTypeOK
  <2>2. disk' \in [whole : BOOLEAN, config : Config]
    <3>1. bytes["guardian"] \in Config /\ disk \in [whole : BOOLEAN, config : Config]
      BY <1>1 DEF SettingsInv, SettingsTypeOK
    <3>2. /\ [whole |-> TRUE, config |-> bytes["guardian"]] \in [whole : BOOLEAN, config : Config]
          /\ \A file \in CutOff(bytes["guardian"]) : file \in [whole : BOOLEAN, config : Config]
      BY <3>1, CutOffs
    <3> QED BY <1>3, <3>1, <3>2
  <2>3. at' \in [Actors -> {"off", "truncate", "fill", "decrypt", "reset", "up", "done",
                            "apply", "marshal", "restore"}]
    BY <1>1, <1>3 DEF SettingsInv, SettingsTypeOK
  <2> QED BY <1>3, <2>1, <2>2, <2>3 DEF SettingsInv, SettingsTypeOK
<1>7. Stages'
  BY <1>3, <1>5 DEF SettingsInv, Stages, InProgress, Saving
<1>8. SecretsInv'
  BY <1>3, <1>5 DEF SettingsInv, SecretsInv, Saving
<1>9. FileInv'
  <2> SUFFICES ASSUME world.dpapi, world.disk, ~world.overlap, world.cli # "online"
               PROVE  FileInv'
    BY <1>3 DEF FileInv
  <2>1. /\ at["cli"] \in {"off", "done"}
        /\ bytes["guardian"].hash = Guardian.hash
        /\ bytes["guardian"].cipher = Guardian.cipher
        /\ \A s \in Cleared : bytes["guardian"].plain[s] = 0
        /\ at["cli"] = "done" => /\ Guardian.hash \in {0, Fresh}
                                 /\ disk.config.hash \in {0, Fresh}
    BY <1>3 DEF SettingsInv, FileInv
  <2>2. CASE /\ Truncate("guardian") /\ bytes' = bytes /\ disk' \in CutOff(bytes["guardian"])
             /\ at' = [at EXCEPT !["guardian"] = "fill"]
    <3>1. disk'.config.hash \in {0, Guardian.hash} /\ at'["guardian"] = "fill"
      BY <1>1, <2>1, <2>2, CutOffs DEF SettingsInv, SettingsTypeOK
    <3> QED BY <1>3, <1>5, <2>1, <2>2, <3>1 DEF FileInv, Saving, Quiescent
  <2>3. CASE /\ at' = [at EXCEPT !["guardian"] = "decrypt"]
             /\ disk' = [whole |-> TRUE, config |-> bytes["guardian"]]
    <3>1. at'["guardian"] = "decrypt"
      BY <1>1, <2>3 DEF SettingsInv, SettingsTypeOK
    <3>2. Written'
      BY <1>3, <2>1, <2>3 DEF Written
    <3>3. disk'.config.hash = Guardian.hash
      BY <2>1, <2>3
    <3> QED BY <1>3, <1>5, <2>1, <3>1, <3>2, <3>3 DEF FileInv, Saving, Quiescent
  <2> QED BY <1>3, <2>2, <2>3
<1> QED BY <1>6, <1>7, <1>8, <1>9 DEF SettingsInv

LEMMA DecryptKeeps ==
    ASSUME SettingsInv, Decrypt("guardian")
    PROVE  SettingsInv'
<1>1. /\ "cli" # "guardian" /\ {"cli", "guardian"} \subseteq Actors
      /\ "guardian" \in Loaders
      /\ \A r \in Requests : r \in Actors /\ r # "guardian"
  BY Names
<1>2. PICK n \in Reached :
         memory' = [memory EXCEPT !["guardian"] = Decrypted(memory["guardian"], n)]
  BY DEF Decrypt
<1>3. Guardian \in Config /\ n \in 0..Len(SecretOrder)
  BY <1>1, Reaches DEF SettingsInv, SettingsTypeOK, Guardian
<1>4. Guardian' = Decrypted(Guardian, n)
  BY <1>1, <1>2 DEF SettingsInv, SettingsTypeOK, Guardian
<1>5. /\ Guardian' \in Config /\ Guardian'.hash = Guardian.hash
      /\ Guardian'.cipher = Guardian.cipher
      /\ (n = Len(SecretOrder) /\ \A s \in Secrets : Guardian.plain[s] = 0) =>
            \A s \in Secrets : Guardian'.plain[s] = Guardian.cipher[s]
  BY <1>3, <1>4, DecryptedOf
<1>6. /\ UNCHANGED <<world, disk, bytes, update, aside>>
      /\ at["guardian"] = "decrypt" /\ at' = [at EXCEPT !["guardian"] = "up"]
  BY <1>1 DEF Decrypt
<1>7. \A r \in Requests : at[r] = "off"
  BY <1>6 DEF SettingsInv, Stages, InProgress
<1>8. /\ at'["guardian"] = "up" /\ at'["cli"] = at["cli"]
      /\ \A r \in Requests : at'[r] = "off"
  BY <1>1, <1>6, <1>7 DEF SettingsInv, SettingsTypeOK
<1>9. SettingsTypeOK'
  <2>1. memory' \in [Loaders -> Config]
    BY <1>2, <1>4, <1>5 DEF SettingsInv, SettingsTypeOK, Guardian
  <2>2. at' \in [Actors -> {"off", "truncate", "fill", "decrypt", "reset", "up", "done",
                            "apply", "marshal", "restore"}]
    BY <1>1, <1>6 DEF SettingsInv, SettingsTypeOK
  <2> QED BY <1>6, <2>1, <2>2 DEF SettingsInv, SettingsTypeOK
<1>10. Stages'
  BY <1>6, <1>8 DEF SettingsInv, Stages, InProgress, Saving
<1>11. SecretsInv'
  <2> SUFFICES ASSUME world.dpapi, ~world.overlap PROVE SecretsInv'
    BY <1>6 DEF SecretsInv
  <2>1. n = Len(SecretOrder)
    BY DEF Reached
  <2>2. \A s \in Secrets : Guardian'.plain[s] = Guardian'.cipher[s]
    BY <1>5, <1>6, <2>1 DEF SettingsInv, SecretsInv
  <2> QED BY <1>8, <2>2, Names DEF SecretsInv, Saving
<1>12. FileInv'
  <2> SUFFICES ASSUME world.dpapi, world.disk, ~world.overlap, world.cli # "online"
               PROVE  FileInv'
    BY <1>6 DEF FileInv
  <2>1. /\ at["cli"] \in {"off", "done"} /\ Written
        /\ at["cli"] = "done" => /\ Guardian.hash \in {0, Fresh}
                                 /\ disk.config.hash \in {0, Fresh}
    BY <1>6 DEF SettingsInv, FileInv
  <2>2. Written'
    BY <1>5, <1>6, <2>1 DEF Written
  <2> QED BY <1>5, <1>6, <1>8, <2>1, <2>2 DEF FileInv, Saving, Quiescent
<1> QED BY <1>9, <1>10, <1>11, <1>12 DEF SettingsInv

-----------------------------------------------------------------------------
(* Updates.                                                                *)

LEMMA Alone ==
    ASSUME SettingsInv, NEW r \in Requests, InProgress(r)
    PROVE  /\ at["guardian"] = "up"
           /\ ~world.overlap => \A q \in Requests \ {r} : at[q] = "off"
BY DEF SettingsInv, Stages, InProgress

\* An update goes on, while the others that there may be stay where they are.
LEMMA Advance ==
    ASSUME SettingsInv, NEW r \in Requests, world' = world, at["guardian"] = "up",
           ~world.overlap => \A q \in Requests \ {r} : at[q] = "off",
           NEW x \in {"off", "apply", "marshal", "truncate", "fill", "restore"},
           at' = [at EXCEPT ![r] = x]
    PROVE  /\ Stages'
           /\ at' \in [Actors -> {"off", "truncate", "fill", "decrypt", "reset", "up", "done",
                                  "apply", "marshal", "restore"}]
           /\ at'["guardian"] = "up" /\ at'["cli"] = at["cli"] /\ at'[r] = x
           /\ \A q \in Requests \ {r} : at'[q] = at[q]
           /\ r \in Actors /\ r \notin {"cli", "guardian"} /\ "guardian" \in Loaders
           /\ Guardian \in Config /\ disk \in [whole : BOOLEAN, config : Config]
<1>1. /\ r \in Actors /\ r \notin {"cli", "guardian"} /\ {"cli", "guardian"} \subseteq Actors
      /\ "guardian" \in Loaders
  BY Names
<1>2. /\ at' \in [Actors -> {"off", "truncate", "fill", "decrypt", "reset", "up", "done",
                             "apply", "marshal", "restore"}]
      /\ at'["guardian"] = "up" /\ at'["cli"] = at["cli"] /\ at'[r] = x
      /\ \A q \in Requests \ {r} : at'[q] = at[q]
  BY <1>1, Names DEF SettingsInv, SettingsTypeOK
<1>3. Stages'
  BY <1>2 DEF SettingsInv, Stages, InProgress, Saving
<1> QED BY <1>1, <1>2, <1>3 DEF SettingsInv, SettingsTypeOK, Guardian

LEMMA ReceiveKeeps ==
    ASSUME SettingsInv, NEW r \in Requests, NEW secrets \in [Cleared -> Optional],
           Receive(r, secrets)
    PROVE  SettingsInv'
<1>1. /\ UNCHANGED <<world, disk, memory, bytes, aside>> /\ at["guardian"] = "up"
      /\ ~world.overlap => \A q \in Requests : at[q] = "off"
      /\ at' = [at EXCEPT ![r] = "apply"] /\ update' = [update EXCEPT ![r] = secrets]
  BY DEF Receive, InProgress
<1>2. SettingsTypeOK'
  BY <1>1, Advance DEF SettingsInv, SettingsTypeOK
<1>3. Guardian' = Guardian /\ ~Saving(r)' /\ at[r] = "off"
  BY <1>1, Advance DEF Guardian, Saving, Receive, InProgress
<1>4. \A q \in Requests : Saving(q)' <=> Saving(q)
  BY <1>1, <1>3, Advance DEF Saving
<1>5. SecretsInv'
  BY <1>1, <1>3, <1>4, Advance DEF SettingsInv, SecretsInv
<1>6. FileInv'
  <2> SUFFICES ASSUME world.dpapi, world.disk, ~world.overlap, world.cli # "online"
               PROVE  FileInv'
    BY <1>1 DEF FileInv
  <2>1. \A q \in Requests : at'[q] \in {"off", "apply"}
    BY <1>1, Advance
  <2>2. ~Quiescent'
    BY <1>1, Advance DEF Quiescent, InProgress
  <2>3. \A q \in Requests : ~Saving(q)'
    BY <2>1 DEF Saving
  <2>4. at'["guardian"] = "up" /\ at'["cli"] = at["cli"]
    BY <1>1, Advance
  <2>5. at["cli"] \in {"off", "done"}
    BY <1>1 DEF SettingsInv, FileInv, Stages
  <2>6. at["cli"] = "done" =>
          /\ Guardian.hash \in {0, Fresh}
          /\ disk.config.hash \in {0, Fresh}
    BY DEF SettingsInv, FileInv
  <2>7. Guardian' = Guardian /\ disk' = disk
    BY <1>1, <1>3
  <2>8. \A q \in Requests : /\ at'[q] \notin {"truncate", "fill"}
                            /\ at'[q] # "restore"
    BY <2>1
  <2> QED BY <2>2, <2>3, <2>4, <2>5, <2>6, <2>7, <2>8 DEF FileInv
<1> QED BY <1>1, <1>2, <1>5, <1>6, Advance DEF SettingsInv

\* A section: encrypted or not, its secret is in both forms what was sent.
LEMMA ApplyKeeps ==
    ASSUME SettingsInv, NEW r \in Requests, Apply(r)
    PROVE  SettingsInv'
<1> DEFINE s == Sections[First(r)]
           v == update[r][s]
<1>1. /\ memory' = [memory EXCEPT !["guardian"].cipher[s] = v, !["guardian"].plain[s] = v]
      /\ update' = [update EXCEPT ![r][s] = 0]
      /\ UNCHANGED <<world, disk, at, bytes, aside>> /\ at[r] = "apply"
  BY DEF Apply
<1>2. s \in Cleared /\ v \in Optional
  <2>1. Due(r) \subseteq 1..Len(Sections) /\ Due(r) # {}
    BY SettingsAssumption DEF Apply, Due
  <2>2. First(r) \in Due(r)
    <3>1. \E i \in Due(r) : \A j \in Due(r) : i <= j
      <4>1. Due(r) \in SUBSET Nat
        BY <2>1, SettingsAssumption
      <4> QED BY <2>1, <4>1, Least
    <3> QED BY <3>1 DEF First
  <2>3. s \in Cleared
    BY <2>1, <2>2, SettingsAssumption
  <2> QED BY <2>3 DEF SettingsInv, SettingsTypeOK
<1> HIDE DEF s, v
<1>3. /\ "guardian" \in Loaders /\ Guardian \in Config /\ s \in Secrets /\ 0 \in Optional
      /\ "guardian" # "cli"
  BY <1>2, Names DEF SettingsInv, SettingsTypeOK, Guardian
<1>4. /\ Guardian' = [plain |-> [Guardian.plain EXCEPT ![s] = v],
                      cipher |-> [Guardian.cipher EXCEPT ![s] = v], hash |-> Guardian.hash]
      /\ memory' = [memory EXCEPT !["guardian"] = Guardian']
  <2>0. memory \in [Loaders -> Config]
    BY DEF SettingsInv, SettingsTypeOK
  <2>1. Guardian' = [[Guardian EXCEPT !.cipher = [Guardian.cipher EXCEPT ![s] = v]]
                                EXCEPT !.plain = [Guardian.plain EXCEPT ![s] = v]]
    BY <1>1, <1>3, <2>0 DEF Guardian, Config
  <2>2. memory' = [memory EXCEPT !["guardian"] = memory'["guardian"]]
    BY <1>1, <1>3, <2>0
  <2> QED BY <1>3, <2>1, <2>2 DEF Config, Guardian
<1>5. Guardian' \in Config
  BY <1>2, <1>3, <1>4 DEF Config
<1>6. /\ at["guardian"] = "up" /\ InProgress(r) /\ ~Saving(r)
      /\ ~world.overlap => \A q \in Requests \ {r} : at[q] = "off"
  BY <1>1, Alone DEF InProgress, Saving
<1>7. SettingsTypeOK'
  <2>1. memory' \in [Loaders -> Config]
    BY <1>3, <1>4, <1>5 DEF SettingsInv, SettingsTypeOK
  <2>2. update' \in [Requests -> [Cleared -> Optional]]
    BY <1>1, <1>2, <1>3 DEF SettingsInv, SettingsTypeOK
  <2> QED BY <1>1, <2>1, <2>2 DEF SettingsInv, SettingsTypeOK
<1>8. Stages'
  BY <1>1 DEF SettingsInv, Stages, InProgress, Saving
<1>9. SecretsInv'
  <2>1. \A t \in Secrets : (Guardian.plain[t] = Guardian.cipher[t])
                           => Guardian'.plain[t] = Guardian'.cipher[t]
    BY <1>3, <1>4 DEF Config
  <2>2. ~world.overlap => \A q \in Requests : ~Saving(q)
    BY <1>6 DEF Saving
  <2> QED BY <1>1, <1>6, <2>1, <2>2, Names DEF SettingsInv, SecretsInv, Saving
<1>10. FileInv'
  <2> SUFFICES ASSUME world.dpapi, world.disk, ~world.overlap, world.cli # "online"
               PROVE  FileInv'
    BY <1>1 DEF FileInv
  <2>1. \A q \in Requests : at[q] \in {"off", "apply"}
    BY <1>1, <1>6
  <2>2. ~Quiescent' /\ Guardian'.hash = Guardian.hash
    BY <1>1, <1>4, <1>6 DEF Quiescent, InProgress
  <2> QED BY <1>1, <1>6, <2>1, <2>2 DEF SettingsInv, FileInv, Saving
<1> QED BY <1>7, <1>8, <1>9, <1>10 DEF SettingsInv

\* Without DPAPI nothing is promised.
LEMMA ApplyFailsKeeps ==
    ASSUME SettingsInv, NEW r \in Requests, ApplyFails(r)
    PROVE  SettingsInv'
<1>1. /\ UNCHANGED <<world, disk, memory, bytes, aside>> /\ ~world.dpapi
      /\ at' = [at EXCEPT ![r] = "off"] /\ update' = [update EXCEPT ![r] = NoUpdate]
      /\ at["guardian"] = "up" /\ (~world.overlap => \A q \in Requests \ {r} : at[q] = "off")
  BY Alone DEF ApplyFails, InProgress
<1>2. SettingsTypeOK'
  BY <1>1, Advance, Nothing DEF SettingsInv, SettingsTypeOK
<1> QED BY <1>1, <1>2, Advance DEF SettingsInv, SecretsInv, FileInv

\* Writing what is in the clear in the Guardian.
LEMMA PlainSet ==
    ASSUME SettingsInv, NEW plain \in [Secrets -> Optional],
           memory' = [memory EXCEPT !["guardian"].plain = plain]
    PROVE  /\ memory' \in [Loaders -> Config]
           /\ Guardian'.plain = plain /\ Guardian'.cipher = Guardian.cipher
           /\ Guardian'.hash = Guardian.hash
<1>1. "guardian" \in Loaders /\ Guardian \in Config
  BY Names DEF SettingsInv, SettingsTypeOK, Guardian
<1>0. memory \in [Loaders -> Config]
  BY DEF SettingsInv, SettingsTypeOK
<1>2. Guardian' = [plain |-> plain, cipher |-> Guardian.cipher, hash |-> Guardian.hash]
      /\ memory' = [memory EXCEPT !["guardian"] = Guardian']
  BY <1>0, <1>1 DEF Config, Guardian
<1>3. Guardian' \in Config
  BY <1>1, <1>2 DEF Config
<1>4. memory' \in [Loaders -> Config]
  BY <1>0, <1>1, <1>2, <1>3
<1> QED BY <1>2, <1>4

LEMMA ClearKeeps ==
    ASSUME SettingsInv, NEW r \in Requests, Clear(r)
    PROVE  SettingsInv'
<1> DEFINE put == [s \in Cleared |-> Guardian.plain[s]]
           left == [s \in Secrets |-> IF s \in Cleared THEN 0 ELSE Guardian.plain[s]]
<1>1. /\ UNCHANGED <<world, disk, bytes, update>> /\ at' = [at EXCEPT ![r] = "marshal"]
      /\ aside' = [aside EXCEPT ![r] = put]
      /\ memory' = [memory EXCEPT !["guardian"].plain = left]
      /\ InProgress(r) /\ ~Saving(r) /\ at[r] = "apply"
  BY DEF Clear, Guardian, InProgress, Saving
<1>2. /\ at["guardian"] = "up" /\ (~world.overlap => \A q \in Requests \ {r} : at[q] = "off")
  BY <1>1, Alone
<1>3. /\ at'["guardian"] = "up" /\ at'["cli"] = at["cli"] /\ at'[r] = "marshal"
      /\ \A q \in Requests \ {r} : at'[q] = at[q]
      /\ Guardian \in Config /\ Stages'
      /\ at' \in [Actors -> {"off", "truncate", "fill", "decrypt", "reset", "up", "done",
                             "apply", "marshal", "restore"}]
  BY <1>1, <1>2, Advance
<1>4. put \in [Cleared -> Optional] /\ left \in [Secrets -> Optional]
  BY <1>3, Names DEF Config
<1>5. /\ \A s \in Cleared : put[s] = Guardian.plain[s] /\ left[s] = 0
      /\ \A s \in Kept : left[s] = Guardian.plain[s]
  BY Names
<1> HIDE DEF put, left
<1>6. /\ memory' \in [Loaders -> Config] /\ Guardian'.plain = left
      /\ Guardian'.cipher = Guardian.cipher /\ Guardian'.hash = Guardian.hash
  BY <1>1, <1>4, PlainSet
<1>7. aside'[r] = put /\ aside' \in [Requests -> [Cleared -> Optional]]
  BY <1>1, <1>4 DEF SettingsInv, SettingsTypeOK
<1>8. SettingsTypeOK'
  BY <1>1, <1>3, <1>6, <1>7 DEF SettingsInv, SettingsTypeOK
<1>9. SecretsInv'
  <2> SUFFICES ASSUME world.dpapi, ~world.overlap PROVE SecretsInv'
    BY <1>1 DEF SecretsInv
  <2>1. \A q \in Requests : ~Saving(q)
    BY <1>1, <1>2 DEF Saving
  <2>2. \A s \in Cleared \cup Kept : Guardian.plain[s] = Guardian.cipher[s]
    BY <1>2, <2>1 DEF SettingsInv, SecretsInv
  <2>3. /\ \A q \in Requests \ {r} : ~Saving(q)'
        /\ Saving(r)'
    BY <1>2, <1>3 DEF Saving
  <2> QED BY <1>3, <1>5, <1>6, <1>7, <2>2, <2>3 DEF SecretsInv
<1>10. FileInv'
  <2> SUFFICES ASSUME world.dpapi, world.disk, ~world.overlap, world.cli # "online"
               PROVE  FileInv'
    BY <1>1 DEF FileInv
  <2>1. \A q \in Requests \ {r} : at'[q] = "off"
    BY <1>2, <1>3
  <2>2. ~Quiescent'
    BY <1>3 DEF Quiescent, InProgress
  <2> QED BY <1>1, <1>2, <1>3, <1>5, <1>6, <2>1, <2>2 DEF SettingsInv, FileInv, Saving
<1> QED BY <1>3, <1>8, <1>9, <1>10 DEF SettingsInv

LEMMA MarshalKeeps ==
    ASSUME SettingsInv, NEW r \in Requests, Marshal(r)
    PROVE  SettingsInv'
<1>1. /\ UNCHANGED <<world, disk, memory, update, aside>> /\ at' = [at EXCEPT ![r] = "truncate"]
      /\ bytes' = [bytes EXCEPT ![r] = Guardian] /\ Guardian' = Guardian
      /\ InProgress(r) /\ at[r] = "marshal"
  BY DEF Marshal, Guardian, InProgress
<1>2. /\ at["guardian"] = "up" /\ (~world.overlap => \A q \in Requests \ {r} : at[q] = "off")
  BY <1>1, Alone
<1>3. /\ at'["guardian"] = "up" /\ at'["cli"] = at["cli"] /\ at'[r] = "truncate"
      /\ \A q \in Requests \ {r} : at'[q] = at[q]
      /\ r \in Actors /\ Guardian \in Config /\ Stages'
      /\ at' \in [Actors -> {"off", "truncate", "fill", "decrypt", "reset", "up", "done",
                             "apply", "marshal", "restore"}]
  BY <1>1, <1>2, Advance
<1>4. bytes' \in [Actors -> Config] /\ bytes'[r] = Guardian
  BY <1>1, <1>3 DEF SettingsInv, SettingsTypeOK
<1>5. SettingsTypeOK'
  BY <1>1, <1>3, <1>4 DEF SettingsInv, SettingsTypeOK
<1>6. \A q \in Requests : Saving(q)' <=> Saving(q)
  BY <1>1, <1>3 DEF Saving
<1>7. SecretsInv'
  BY <1>1, <1>2, <1>3, <1>6 DEF SettingsInv, SecretsInv
<1>8. FileInv'
  <2> SUFFICES ASSUME world.dpapi, world.disk, ~world.overlap, world.cli # "online"
               PROVE  FileInv'
    BY <1>1 DEF FileInv
  <2>1. \A q \in Requests \ {r} : at'[q] = "off"
    BY <1>2, <1>3
  <2>2. ~Quiescent'
    BY <1>3 DEF Quiescent, InProgress
  <2>3. \A s \in Cleared : Guardian.plain[s] = 0
    BY <1>1 DEF SettingsInv, FileInv, Saving
  <2> QED BY <1>1, <1>2, <1>3, <1>4, <2>1, <2>2, <2>3 DEF SettingsInv, FileInv, Saving
<1> QED BY <1>3, <1>5, <1>7, <1>8 DEF SettingsInv

LEMMA SaveKeeps ==
    ASSUME SettingsInv, NEW r \in Requests, Truncate(r) \/ Fill(r) \/ SaveFails(r)
    PROVE  SettingsInv'
<1>0. r \in Actors /\ AfterSave(r) = "restore"
  BY Names DEF AfterSave
<1>1. /\ UNCHANGED <<world, memory, update, aside>> /\ Guardian' = Guardian
      /\ at[r] \in {"truncate", "fill"} /\ InProgress(r) /\ Saving(r)
      /\ \/ /\ bytes' = bytes /\ at' = [at EXCEPT ![r] = "fill"]
            /\ disk' \in CutOff(bytes[r])
         \/ /\ at' = [at EXCEPT ![r] = "restore"]
            /\ bytes' = [bytes EXCEPT ![r] = NoConfig]
            /\ disk' \in {disk, [whole |-> TRUE, config |-> bytes[r]]}
            /\ world.disk => disk' = [whole |-> TRUE, config |-> bytes[r]]
  BY <1>0 DEF Truncate, Fill, SaveFails, Guardian, InProgress, Saving
<1>2. /\ at["guardian"] = "up" /\ (~world.overlap => \A q \in Requests \ {r} : at[q] = "off")
  BY <1>1, Alone
<1>3. /\ at'["guardian"] = "up" /\ at'["cli"] = at["cli"] /\ at'[r] \in {"fill", "restore"}
      /\ \A q \in Requests \ {r} : at'[q] = at[q]
      /\ Guardian \in Config /\ Stages'
      /\ at' \in [Actors -> {"off", "truncate", "fill", "decrypt", "reset", "up", "done",
                             "apply", "marshal", "restore"}]
      /\ at' = [at EXCEPT ![r] = "fill"] => at'[r] = "fill"
      /\ at' = [at EXCEPT ![r] = "restore"] => at'[r] = "restore"
  BY <1>1, <1>2, Advance
<1>4. SettingsTypeOK'
  <2>1. bytes' \in [Actors -> Config]
    BY <1>0, <1>1, Nothing DEF SettingsInv, SettingsTypeOK
  <2>2. disk' \in [whole : BOOLEAN, config : Config]
    <3>1. bytes[r] \in Config /\ disk \in [whole : BOOLEAN, config : Config]
      BY <1>0 DEF SettingsInv, SettingsTypeOK
    <3>2. /\ [whole |-> TRUE, config |-> bytes[r]] \in [whole : BOOLEAN, config : Config]
          /\ \A file \in CutOff(bytes[r]) : file \in [whole : BOOLEAN, config : Config]
      BY <3>1, CutOffs
    <3> QED BY <1>1, <3>1, <3>2
  <2> QED BY <1>1, <1>3, <2>1, <2>2 DEF SettingsInv, SettingsTypeOK
<1>5. \A q \in Requests : Saving(q)' <=> Saving(q)
  BY <1>1, <1>3 DEF Saving
<1>6. SecretsInv'
  BY <1>1, <1>2, <1>3, <1>5 DEF SettingsInv, SecretsInv
<1>7. FileInv'
  <2> SUFFICES ASSUME world.dpapi, world.disk, ~world.overlap, world.cli # "online"
               PROVE  FileInv'
    BY <1>1 DEF FileInv
  <2>1. \A q \in Requests \ {r} : at'[q] = "off"
    BY <1>2, <1>3
  <2>2. ~Quiescent'
    BY <1>3 DEF Quiescent, InProgress
  <2>3. /\ \A s \in Cleared : Guardian.plain[s] = 0
        /\ bytes[r] = Guardian /\ at["cli"] \in {"off", "done"}
        /\ at["cli"] = "done" => /\ Guardian.hash \in {0, Fresh}
                                 /\ disk.config.hash \in {0, Fresh}
    BY <1>1, <1>2 DEF SettingsInv, FileInv
  <2>4. CASE /\ bytes' = bytes /\ at' = [at EXCEPT ![r] = "fill"]
             /\ disk' \in CutOff(bytes[r])
    <3>1. disk'.config.hash \in {0, Guardian.hash}
      BY <1>3, <2>3, <2>4, CutOffs
    <3> QED BY <1>1, <1>2, <1>3, <2>1, <2>2, <2>3, <2>4, <3>1 DEF FileInv, Saving
  <2>5. CASE /\ at' = [at EXCEPT ![r] = "restore"]
             /\ disk' = [whole |-> TRUE, config |-> bytes[r]]
    <3>1. Written' /\ disk'.config.hash = Guardian.hash
      BY <1>1, <2>3, <2>5 DEF Written
    <3> QED BY <1>1, <1>2, <1>3, <2>1, <2>2, <2>3, <2>5, <3>1 DEF FileInv, Saving
  <2> QED BY <1>1, <2>4, <2>5
<1> QED BY <1>3, <1>4, <1>6, <1>7 DEF SettingsInv

LEMMA RestoreKeeps ==
    ASSUME SettingsInv, NEW r \in Requests, Restore(r)
    PROVE  SettingsInv'
<1> DEFINE full == [s \in Secrets |-> IF s \in Cleared THEN aside[r][s] ELSE Guardian.plain[s]]
<1>1. /\ UNCHANGED <<world, disk, bytes, update>> /\ at' = [at EXCEPT ![r] = "off"]
      /\ aside' = [aside EXCEPT ![r] = NoUpdate]
      /\ memory' = [memory EXCEPT !["guardian"].plain = full]
      /\ InProgress(r) /\ Saving(r) /\ at[r] = "restore"
  BY DEF Restore, Guardian, InProgress, Saving
<1>2. /\ at["guardian"] = "up" /\ (~world.overlap => \A q \in Requests \ {r} : at[q] = "off")
  BY <1>1, Alone
<1>3. /\ at'["guardian"] = "up" /\ at'["cli"] = at["cli"] /\ at'[r] = "off"
      /\ \A q \in Requests \ {r} : at'[q] = at[q]
      /\ Guardian \in Config /\ Stages'
      /\ at' \in [Actors -> {"off", "truncate", "fill", "decrypt", "reset", "up", "done",
                             "apply", "marshal", "restore"}]
  BY <1>1, <1>2, Advance
<1>4. full \in [Secrets -> Optional]
  BY <1>3, Names DEF Config, SettingsInv, SettingsTypeOK
<1>5. /\ \A s \in Cleared : full[s] = aside[r][s]
      /\ \A s \in Kept : full[s] = Guardian.plain[s]
  BY Names
<1> HIDE DEF full
<1>6. /\ memory' \in [Loaders -> Config] /\ Guardian'.plain = full
      /\ Guardian'.cipher = Guardian.cipher /\ Guardian'.hash = Guardian.hash
  BY <1>1, <1>4, PlainSet
<1>7. SettingsTypeOK'
  BY <1>1, <1>3, <1>6, Nothing DEF SettingsInv, SettingsTypeOK
<1>8. SecretsInv'
  <2> SUFFICES ASSUME world.dpapi, ~world.overlap PROVE SecretsInv'
    BY <1>1 DEF SecretsInv
  <2>1. \A q \in Requests : ~Saving(q)'
    BY <1>2, <1>3 DEF Saving
  <2>2. /\ \A s \in Cleared : aside[r][s] = Guardian.cipher[s]
        /\ \A s \in Kept : Guardian.plain[s] = Guardian.cipher[s]
    BY <1>1, <1>2 DEF SettingsInv, SecretsInv
  <2> QED BY <1>3, <1>5, <1>6, <2>1, <2>2 DEF SecretsInv
<1>9. FileInv'
  <2> SUFFICES ASSUME world.dpapi, world.disk, ~world.overlap, world.cli # "online"
               PROVE  FileInv'
    BY <1>1 DEF FileInv
  <2>1. \A q \in Requests : at'[q] = "off"
    BY <1>2, <1>3
  <2>2. Written
    BY <1>1 DEF SettingsInv, FileInv
  <2>3. Written'
    BY <1>1, <1>6, <2>2 DEF Written
  <2> QED BY <1>1, <1>2, <1>3, <1>6, <2>1, <2>3 DEF SettingsInv, FileInv, Saving, Quiescent
<1> QED BY <1>3, <1>7, <1>8, <1>9 DEF SettingsInv

-----------------------------------------------------------------------------
(* All steps.                                                              *)

LEMMA GoneKeeps ==
    ASSUME SettingsInv, SettingsMayGo, SettingsGone
    PROVE  SettingsInv'
<1>1. /\ "cli" # "guardian" /\ {"cli", "guardian"} \subseteq Actors
      /\ "guardian" \in Loaders /\ \A r \in Requests : r \in Actors /\ r # "cli"
  BY Names
<1>2. /\ at'["guardian"] = "off" /\ at'["cli"] = at["cli"]
      /\ \A r \in Requests : at'[r] = "off"
      /\ UNCHANGED <<world, disk>>
  BY <1>1 DEF SettingsGone
<1>3. Guardian' = NoConfig
  BY <1>1 DEF SettingsGone, Guardian, SettingsInv, SettingsTypeOK
<1>4. SettingsTypeOK'
  BY <1>1, Nothing DEF SettingsGone, SettingsInv, SettingsTypeOK
<1>5. Stages'
  BY <1>2 DEF SettingsInv, Stages, InProgress, Saving
<1>6. SecretsInv'
  BY <1>2 DEF SecretsInv
<1>7. FileInv'
  BY <1>2, <1>3, Nothing DEF SettingsInv, FileInv, Saving, Quiescent
<1> QED BY <1>4, <1>5, <1>6, <1>7 DEF SettingsInv

LEMMA SettingsKeep == SettingsInv /\ [SettingsNext]_settingsVars => SettingsInv'
<1> SUFFICES ASSUME SettingsInv, [SettingsNext]_settingsVars PROVE SettingsInv'
  OBVIOUS
<1>1. CASE UNCHANGED settingsVars
  BY <1>1 DEF settingsVars, SettingsInv, SettingsTypeOK, Stages, InProgress, Saving,
              SecretsInv, FileInv, Guardian, Written, Quiescent
<1>2. ASSUME NEW l \in Loaders, Load(l) \/ Decrypt(l) PROVE SettingsInv'
  <2>1. l \in {"guardian", "cli"}
    BY Names
  <2> QED BY <1>2, <2>1, LoadKeeps, DecryptKeeps, CommandSteps
<1>3. ASSUME NEW a \in Actors, Truncate(a) \/ Fill(a) \/ SaveFails(a) PROVE SettingsInv'
  <2>1. a = "guardian" \/ a = "cli" \/ a \in Requests
    BY Names
  <2> QED BY <1>3, <2>1, LoadingGoesOn, CommandSteps, SaveKeeps
<1>4. CASE ResetToken
  BY <1>4, CommandSteps
<1>5. ASSUME NEW r \in Requests,
             \/ \E secrets \in [Cleared -> Optional] : Receive(r, secrets)
             \/ Apply(r) \/ ApplyFails(r) \/ Clear(r) \/ Marshal(r) \/ Restore(r)
      PROVE  SettingsInv'
  BY <1>5, ReceiveKeeps, ApplyKeeps, ApplyFailsKeeps, ClearKeeps, MarshalKeeps, RestoreKeeps
<1> QED BY <1>1, <1>2, <1>3, <1>4, <1>5, GoneKeeps DEF SettingsNext, SettingsStep

LEMMA SettingsInvariant == SettingsSpec => []SettingsInv
BY SettingsStart, SettingsKeep, PTL DEF SettingsSpec

\* The configuration, the file and what a save or an update has in hand keep
\* their types.
THEOREM TypeCorrect == SettingsSpec => []SettingsTypeOK
<1>1. SettingsInv => SettingsTypeOK
  BY DEF SettingsInv
<1> QED BY <1>1, SettingsInvariant, PTL

\* Whatever updates came before, the Guardian has each of its secrets in the
\* clear as it has it encrypted.
THEOREM SecretsAreUsable == SettingsSpec => []SecretsUsable
<1>1. SettingsInv => SecretsUsable
  <2> SUFFICES ASSUME SettingsInv, Quiescent, world.dpapi, ~world.overlap
               PROVE  Guardian.plain = Guardian.cipher
    BY DEF SecretsUsable, Guardian
  <2>1. \A r \in Requests : ~Saving(r)
    BY DEF Quiescent, InProgress, Saving
  <2>2. \A s \in Secrets : Guardian.plain[s] = Guardian.cipher[s]
    BY <2>1, Names DEF SettingsInv, SecretsInv, Quiescent
  <2>3. Guardian \in Config
    BY Names DEF SettingsInv, SettingsTypeOK, Guardian
  <2> QED BY <2>2, <2>3 DEF Config
<1> QED BY <1>1, SettingsInvariant, PTL

\* Between updates the file is what the Guardian works with, its secrets
\* encrypted and its token the one that was set last.
THEOREM FileIsRight == SettingsSpec => []FileMatches
<1>1. SettingsInv => FileMatches
  <2> SUFFICES ASSUME SettingsInv, Quiescent, world.dpapi, world.disk, ~world.overlap,
                      world.cli # "online", Guardian.hash # 0
               PROVE  /\ Written
                      /\ at["cli"] = "done" => disk.config.hash = Fresh
    BY DEF FileMatches, Guardian, Written
  <2>1. Written
    BY DEF SettingsInv, FileInv
  <2> QED BY <2>1 DEF SettingsInv, FileInv, Written
<1> QED BY <1>1, SettingsInvariant, PTL
-----------------------------------------------------------------------------
(* What a save writes, whatever fails.                                     *)

\* What the Guardian has marshalled, at its start or for an update, holds none
\* of the secrets that updates clear in the clear: whether DPAPI and the disk do
\* their work or not, whenever it is killed, and whatever reset-token does to the
\* file meanwhile, as long as updates do not overlap.  (reset-token itself saves
\* the secrets as it has decrypted them.)
NoPlaintextWritten ==
    ~world.overlap => \A a \in Actors \ {"cli"}, s \in Cleared : bytes[a].plain[s] = 0

\* The file gets its secrets from what was marshalled: a step of the Guardian or
\* of an update that writes it leaves none of them readable.
NoPlaintextSaved ==
    [][~world.overlap =>
          \A a \in Actors \ {"cli"} : Fill(a) =>
              \A s \in Cleared : disk'.config.plain[s] = 0]_settingsVars

\* While an update saves, the Guardian has none of these secrets in the clear.
PlainInv ==
    /\ NoPlaintextWritten
    /\ ~world.overlap =>
          \A r \in Requests, s \in Cleared : Saving(r) => Guardian.plain[s] = 0

LEMMA PlainStart == SettingsInit => PlainInv
BY Names, Nothing DEF SettingsInit, PlainInv, NoPlaintextWritten, Saving, NoSecrets

\* Nobody starts to save, and what the Guardian has in the clear stays.
LEMMA PlainKept ==
    ASSUME PlainInv, world' = world,
           \A a \in Actors \ {"cli"} : bytes'[a] \in {bytes[a], NoConfig},
           ~world.overlap => \A r \in Requests : ~Saving(r)' \/ (Saving(r) /\ Guardian' = Guardian)
    PROVE  PlainInv'
<1>1. NoPlaintextWritten'
  <2>1. \A s \in Cleared : NoConfig.plain[s] = 0
    BY Names, Nothing DEF NoSecrets
  <2> QED BY <2>1 DEF PlainInv, NoPlaintextWritten
<1> QED BY <1>1 DEF PlainInv

LEMMA PlainLoads ==
    ASSUME SettingsInv, PlainInv, NEW l \in Loaders, Load(l)
    PROVE  PlainInv'
<1>0. /\ l \in {"guardian", "cli"} /\ l \in Actors /\ at[l] = "off" /\ world' = world
      /\ disk.config \in Config
      /\ bytes \in [Actors -> Config] /\ memory \in [Loaders -> Config]
      /\ Cleared \subseteq Secrets
  BY Names DEF Load, MayLoad, SettingsInv, SettingsTypeOK
<1>1. \/ bytes' = bytes
      \/ \E n \in Reached : /\ n = Len(SecretOrder)
                            /\ bytes' = [bytes EXCEPT ![l] = Encrypted(disk.config, n)]
  BY DEF Load
<1>2. \A a \in Actors \ {"cli"}, s \in Cleared :
         ~world.overlap => bytes'[a].plain[s] = 0
  <2>1. CASE bytes' = bytes
    BY <2>1 DEF PlainInv, NoPlaintextWritten
  <2>2. ASSUME NEW n \in Reached, n = Len(SecretOrder),
               bytes' = [bytes EXCEPT ![l] = Encrypted(disk.config, n)]
        PROVE  \A a \in Actors \ {"cli"}, s \in Cleared :
                   ~world.overlap => bytes'[a].plain[s] = 0
    <3>1. n \in 0..Len(SecretOrder)
      BY Reaches
    <3>2. \A s \in Secrets : Encrypted(disk.config, n).plain[s] = 0
      BY <1>0, <2>2, <3>1, EncryptedOf
    <3> QED BY <1>0, <2>2, <3>2 DEF PlainInv, NoPlaintextWritten
  <2> QED BY <1>1, <2>1, <2>2
<1>3. \A r \in Requests : at'[r] = at[r]
  <2>1. \E x \in {"truncate", "decrypt", "done", "up"} : at' = [at EXCEPT ![l] = x]
    BY DEF Load
  <2> QED BY <1>0, <2>1, Names DEF SettingsInv, SettingsTypeOK
<1>4. ASSUME NEW r \in Requests, Saving(r)' PROVE Saving(r) /\ Guardian' = Guardian
  <2>1. Saving(r) /\ l = "cli"
    BY <1>0, <1>3, <1>4 DEF Saving, SettingsInv, Stages, InProgress
  <2>2. \E c : memory' = [memory EXCEPT ![l] = c]
    BY DEF Load
  <2> QED BY <1>0, <2>1, <2>2, Names DEF Guardian
<1> QED BY <1>0, <1>2, <1>4 DEF PlainInv, NoPlaintextWritten

LEMMA PlainUpdates ==
    ASSUME SettingsInv, PlainInv, NEW r \in Requests,
           \/ \E secrets \in [Cleared -> Optional] : Receive(r, secrets)
           \/ Apply(r) \/ ApplyFails(r) \/ Clear(r) \/ Marshal(r) \/ Restore(r)
    PROVE  PlainInv'
<1>0. /\ r \in Actors /\ r \notin {"cli", "guardian"} /\ Requests \subseteq Actors
      /\ at \in [Actors -> {"off", "truncate", "fill", "decrypt", "reset", "up", "done",
                            "apply", "marshal", "restore"}]
      /\ bytes \in [Actors -> Config]
  BY Names DEF SettingsInv, SettingsTypeOK
<1>1. CASE \E secrets \in [Cleared -> Optional] : Receive(r, secrets)
  <2>1. /\ UNCHANGED <<world, memory, bytes>> /\ at' = [at EXCEPT ![r] = "apply"]
    BY <1>1 DEF Receive
  <2> QED BY <1>0, <2>1, PlainKept DEF Saving, Guardian
<1>2. CASE Apply(r) \/ ApplyFails(r) \/ Restore(r)
  <2>1. /\ UNCHANGED <<world, bytes>> /\ InProgress(r)
        /\ \A q \in Requests \ {r} : at'[q] = at[q]
        /\ at'[r] \in {"apply", "off"}
    BY <1>0, <1>2 DEF Apply, ApplyFails, Restore, InProgress
  <2>2. ~world.overlap => \A q \in Requests : ~Saving(q)'
    BY <2>1, Alone DEF Saving
  <2> QED BY <2>1, <2>2, PlainKept
<1>3. CASE Clear(r)
  <2> DEFINE left == [s \in Secrets |-> IF s \in Cleared THEN 0 ELSE Guardian.plain[s]]
  <2>1. UNCHANGED <<world, bytes>> /\ memory' = [memory EXCEPT !["guardian"].plain = left]
    BY <1>3 DEF Clear, Guardian
  <2>2. left \in [Secrets -> Optional] /\ \A s \in Cleared : left[s] = 0
    <3>1. Guardian \in Config
      BY Names DEF SettingsInv, SettingsTypeOK, Guardian
    <3> QED BY <3>1, Names DEF Config
  <2> HIDE DEF left
  <2>3. Guardian'.plain = left
    BY <2>1, <2>2, PlainSet
  <2> QED BY <2>1, <2>2, <2>3 DEF PlainInv, NoPlaintextWritten
<1>4. CASE Marshal(r)
  <2>1. /\ UNCHANGED <<world, memory>> /\ bytes' = [bytes EXCEPT ![r] = Guardian]
        /\ at' = [at EXCEPT ![r] = "truncate"] /\ Saving(r) /\ Guardian' = Guardian
    BY <1>4 DEF Marshal, Guardian, Saving
  <2>2. \A q \in Requests : Saving(q)' => Saving(q)
    BY <1>0, <2>1 DEF Saving
  <2>3. ~world.overlap => \A s \in Cleared : Guardian.plain[s] = 0
    BY <2>1 DEF PlainInv
  <2>4. NoPlaintextWritten'
    BY <1>0, <2>1, <2>3 DEF PlainInv, NoPlaintextWritten
  <2> QED BY <2>1, <2>2, <2>4 DEF PlainInv
<1> QED BY <1>1, <1>2, <1>3, <1>4

LEMMA PlainKeeps == SettingsInv /\ PlainInv /\ [SettingsNext]_settingsVars => PlainInv'
<1> SUFFICES ASSUME SettingsInv, PlainInv, [SettingsNext]_settingsVars PROVE PlainInv'
  OBVIOUS
<1>0. /\ Actors = {"guardian", "cli"} \cup Requests /\ Loaders = {"guardian", "cli"}
      /\ "guardian" \notin Requests /\ "cli" \notin Requests /\ "guardian" # "cli"
      /\ at \in [Actors -> {"off", "truncate", "fill", "decrypt", "reset", "up", "done",
                            "apply", "marshal", "restore"}]
      /\ bytes \in [Actors -> Config] /\ memory \in [Loaders -> Config]
  BY Names DEF SettingsInv, SettingsTypeOK
<1>1. CASE UNCHANGED settingsVars
  BY <1>1, PlainKept DEF settingsVars, Saving, Guardian
<1>2. ASSUME NEW l \in Loaders, Load(l) PROVE PlainInv'
  BY <1>2, PlainLoads
<1>3. ASSUME NEW l \in Loaders, Decrypt(l) PROVE PlainInv'
  <2>1. /\ UNCHANGED <<world, bytes>> /\ at[l] = "decrypt"
        /\ \A r \in Requests : at'[r] = at[r]
        /\ \E c : memory' = [memory EXCEPT ![l] = c]
    BY <1>0, <1>3 DEF Decrypt
  <2>2. \A r \in Requests : Saving(r)' => Saving(r) /\ l # "guardian"
    BY <2>1 DEF Saving, SettingsInv, Stages, InProgress
  <2> QED BY <1>0, <2>1, <2>2, PlainKept DEF Guardian
<1>4. CASE ResetToken
  <2>1. /\ world' = world /\ Guardian' = Guardian
        /\ \A a \in Actors \ {"cli"} : at'[a] = at[a] /\ bytes'[a] = bytes[a]
    BY <1>0, <1>4 DEF ResetToken, Guardian
  <2>2. \A r \in Requests : Saving(r)' => Saving(r)
    BY <1>0, <2>1 DEF Saving
  <2> QED BY <2>1, <2>2, PlainKept
<1>5. ASSUME NEW a \in Actors, Truncate(a) \/ Fill(a) \/ SaveFails(a) PROVE PlainInv'
  <2>1. /\ UNCHANGED <<world, memory>> /\ Guardian' = Guardian
        /\ \A b \in Actors : bytes'[b] \in {bytes[b], NoConfig}
        /\ \A b \in Actors \ {a} : at'[b] = at[b]
        /\ at[a] \in {"truncate", "fill"}
    BY <1>0, <1>5 DEF Truncate, Fill, SaveFails, Guardian
  <2>2. \A r \in Requests : Saving(r)' => Saving(r)
    BY <1>0, <2>1 DEF Saving
  <2> QED BY <2>1, <2>2, PlainKept
<1>6. ASSUME NEW r \in Requests,
             \/ \E secrets \in [Cleared -> Optional] : Receive(r, secrets)
             \/ Apply(r) \/ ApplyFails(r) \/ Clear(r) \/ Marshal(r) \/ Restore(r)
      PROVE  PlainInv'
  BY <1>6, PlainUpdates
<1>7. CASE SettingsGone
  <2>1. /\ world' = world /\ \A r \in Requests : at'[r] = "off"
        /\ \A a \in Actors \ {"cli"} : bytes'[a] = NoConfig
    BY <1>0, <1>7 DEF SettingsGone
  <2> QED BY <2>1, PlainKept DEF Saving
<1> QED BY <1>1, <1>2, <1>3, <1>4, <1>5, <1>6, <1>7 DEF SettingsNext, SettingsStep

LEMMA PlainAlways == SettingsSpec => [](SettingsInv /\ PlainInv)
BY SettingsStart, SettingsKeep, PlainStart, PlainKeeps, PTL DEF SettingsSpec

\* No save of the Guardian writes a secret in the clear that updates clear, also
\* when DPAPI or the disk fails or the Guardian is killed: FileMatches says so of
\* the file between updates in the worlds where nothing fails, this of every
\* save (Load, Save, handleUpdateConfig).
THEOREM NoPlaintextCorrect == SettingsSpec => []NoPlaintextWritten /\ NoPlaintextSaved
<1>1. PlainInv => NoPlaintextWritten
  BY DEF PlainInv
<1>2. PlainInv /\ [SettingsNext]_settingsVars =>
        [~world.overlap => \A a \in Actors \ {"cli"} : Fill(a) =>
              \A s \in Cleared : disk'.config.plain[s] = 0]_settingsVars
  BY DEF PlainInv, NoPlaintextWritten, Fill
<1> QED BY <1>1, <1>2, PlainAlways, PTL DEF SettingsSpec, NoPlaintextSaved
=============================================================================

---------------------------- MODULE PersistenceMC ----------------------------
(***************************************************************************)
(* Instances of Persistence for TLC.  An instance exercises the settings   *)
(* or the services, since neither step of the one depends on the other.    *)
(***************************************************************************)
EXTENDS Persistence, TLC

CONSTANTS s1, s2, s3

\* Two secrets that an update clears and the one it does not.
Encryption == <<"smtp", "master", "slave">>
Handling   == <<"master", "smtp">>

\* The settings are left alone.
Untouched == [dpapi |-> TRUE, disk |-> TRUE, crashes |-> FALSE, cli |-> "never", given |-> {},
              overlap |-> FALSE, updates |-> {}]
Updated == [Untouched EXCEPT !.updates = Cleared, !.given = {"smtp", "slave"}]

\* Updates, and one thing that can go wrong in each of the others.
SettingsWorlds ==
    {Updated, [Updated EXCEPT !.crashes = TRUE, !.cli = "offline"],
     [Updated EXCEPT !.cli = "online"], [Updated EXCEPT !.dpapi = FALSE, !.disk = FALSE],
     [Updated EXCEPT !.overlap = TRUE, !.updates = {"smtp"}]}

Plain == [password |-> 0, interpreter |-> "", delay |-> 0, hook |-> "none",
          limits |-> [threshold |-> 0, interval |-> 0, memory |-> 0],
          dir |-> "", schedules |-> {"daily"}, needs |-> {}, auto |-> TRUE]

\* A service with a password, and one whose memory limit is a round size.
Guarded == [Plain EXCEPT !.password = 1, !.dir = "other", !.schedules = {"weekly", "wrong"}]
Limited == [Plain EXCEPT !.hook = "abort", !.delay = 1, !.auto = FALSE,
              !.limits = [threshold |-> 0, interval |-> 1, memory |-> ParseByteSize([tenths |-> 15, unit |-> 3])]]

\* What YAML does not keep, with the directory as a client got it.
Odd == [Guarded EXCEPT !.interpreter = "cmd", !.dir = "exe", !.delay = -1, !.hook = "",
          !.limits = [threshold |-> 0, interval |-> 1, memory |-> 0]]
Uneven == [Limited EXCEPT !.limits = [@ EXCEPT !.memory = 4095]]

Requested == {Plain, Guarded, Limited, Odd, Uneven}

Empty == [i \in Ids |-> Absent]

\* Every way three services can need each other, themselves and a stranger.
Needing == {[Plain EXCEPT !.needs = n] : n \in SUBSET (Ids \cup {Unknown})}
Graphs == [Ids -> {File(d) : d \in Needing}]

\* A file as a person writes it: a size that the Guardian would write otherwise,
\* and a hook that says nothing of failures.
Handwritten ==
    [kind |-> "whole",
     yaml |-> [ServiceToYAML(Plain) EXCEPT !.hook = "", !.limits.memory = [tenths |-> 15, unit |-> 2]]]
Provided == [Empty EXCEPT ![s1] = Handwritten]

Nothing == [fails |-> FALSE, crashes |-> FALSE, overlaps |-> FALSE,
            removes |-> FALSE, ids |-> {}]
Clients == [Nothing EXCEPT !.removes = TRUE, !.ids = {s1}]
ServiceWorlds ==
    {Clients, [Clients EXCEPT !.fails = TRUE, !.crashes = TRUE],
     [Clients EXCEPT !.overlaps = TRUE]}

AllWorlds == SettingsWorlds \cup {Untouched}
AllCircumstances == ServiceWorlds \cup {Nothing}
AllInstallations == Graphs \cup {Empty, Provided}

\* One part at a time.
PartByPart ==
    [world : SettingsWorlds, may : {Nothing}, files : {Empty}]
    \cup [world : {Untouched}, may : {Nothing}, files : Graphs]
    \cup [world : {Untouched}, may : ServiceWorlds, files : {Empty, Provided}]

\* Clients use one service, and nothing goes wrong.
ServicesOnly == [world : {Untouched}, may : {Clients}, files : {Empty}]
=============================================================================

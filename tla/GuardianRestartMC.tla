-------------------------- MODULE GuardianRestartMC --------------------------
(***************************************************************************)
(* Instances of GuardianRestart for TLC.                                   *)
(***************************************************************************)
EXTENDS GuardianRestart, TLC

CONSTANTS s1, s2

\* Stops and hand-overs with calls and automatic starts at every moment, by a
\* Guardian that need not see its kills through.
Busy == [callsIn |-> Phases \ {"off"}, restarts |-> TRUE, writeFails |-> FALSE,
         crashesIn |-> {}, exits |-> TRUE, settled |-> FALSE, hasty |-> TRUE]

\* No calls at the wrong moment, and kills that are seen through: then the file
\* need not be written.
Orderly == [Busy EXCEPT !.callsIn = {"up"}, !.settled = TRUE, !.hasty = FALSE,
                        !.writeFails = TRUE]

\* Hand-overs that succeed, because the Guardian is gone before its processes
\* are killed, and Guardians that are killed around them.
HandOver == [Orderly EXCEPT !.hasty = TRUE, !.writeFails = FALSE,
                            !.crashesIn = {"cancel", "closing", "read"}]
Adoption == [HandOver EXCEPT !.exits = FALSE,
                             !.crashesIn = {"cancel", "closing", "read", "adopt"}]

\* Guardians that adopt processes and cannot write the file for the next one.
Failing == [Orderly EXCEPT !.hasty = TRUE]

Ends == {Busy, Orderly, HandOver, Adoption, Failing}

\* Where the code does not do what the repository says.
RestartOnly == {[Orderly EXCEPT !.writeFails = FALSE, !.exits = FALSE,
                                !.hasty = TRUE]}
CrashOnly   == {[Orderly EXCEPT !.crashesIn = {"up"}, !.restarts = FALSE]}
=============================================================================

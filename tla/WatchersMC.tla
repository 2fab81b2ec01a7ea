------------------------------ MODULE WatchersMC ------------------------------
(***************************************************************************)
(* Instances of Watchers for TLC: services with health checks, with limits *)
(* and with both.                                                          *)
(***************************************************************************)
EXTENDS Watchers, TLC

Quiet == [checks |-> {}, onFail |-> FALSE, limits |-> {}, ails |-> "never",
          crashes |-> FALSE, misses |-> FALSE, fails |-> FALSE, stops |-> TRUE,
          late |-> FALSE]

\* Checks that come and go, and one that always fails.
Checked ==
    {[Quiet EXCEPT !.checks = Checks, !.onFail = TRUE, !.crashes = TRUE, !.late = TRUE],
     [Quiet EXCEPT !.checks = Checks, !.onFail = TRUE, !.fails = TRUE],
     [Quiet EXCEPT !.checks = Checks],
     [Quiet EXCEPT !.checks = Checks, !.onFail = TRUE, !.crashes = TRUE, !.ails = "health"]}

\* Limits, alone and together.
Limited ==
    {[Quiet EXCEPT !.limits = {"cpu"}, !.misses = TRUE],
     [Quiet EXCEPT !.limits = {"memory", "spike"}, !.misses = TRUE, !.fails = TRUE],
     [Quiet EXCEPT !.limits = {"cpu", "memory"}],
     [Quiet EXCEPT !.limits = {"memory"}, !.crashes = TRUE, !.ails = "memory"]}

Both == {[Quiet EXCEPT !.checks = {c}, !.onFail = TRUE, !.limits = {"memory"},
            !.crashes = TRUE, !.ails = a] : c \in {CHOOSE c \in Checks : TRUE},
                                            a \in {"health", "memory"}}

AllEnvironments == Checked \cup Limited \cup Both
=============================================================================

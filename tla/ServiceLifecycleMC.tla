-------------------------- MODULE ServiceLifecycleMC --------------------------
(***************************************************************************)
(* Instances of ServiceLifecycle for TLC.  Each environment isolates one   *)
(* kind of interference and gets the bounds that let it happen; a run      *)
(* checks its properties in several of them.                               *)
(***************************************************************************)
EXTENDS ServiceLifecycle, TLC

\* Callers are interchangeable in every environment.
CallerSymmetry == Permutations(Callers)

Quiet == [ops |-> {"start", "stop"}, inFlight |-> 2, launches |-> 2,
          mode |-> "on_failure", retries |-> 0, deps |-> FALSE,
          limits |-> FALSE, health |-> FALSE, exits |-> {}, failures |-> FALSE]

\* Two calls at a time on a service that never ends by itself.
ApiEnv == [Quiet EXCEPT !.ops = {"start", "stop", "restart"}]

\* Crashes and clean exits while two calls are made, with dependencies.
CallsEnv == [Quiet EXCEPT !.deps = TRUE, !.exits = {"clean", "crash"},
                          !.retries = 1]

\* One call at a time, and enough launches for a monitor that was stopped to
\* launch a process beside that of its successor.
OverlapEnv == [Quiet EXCEPT !.inFlight = 1, !.launches = 3, !.retries = 1,
                            !.exits = {"crash"}]

\* Restarts by resource breaches and failing health checks.
BreachEnv == [Quiet EXCEPT !.limits = TRUE, !.health = TRUE]

\* Both ways to shut the Guardian down, from every state of a service that is
\* always restarted.
ShutdownEnv == [Quiet EXCEPT !.ops = {"start", "stopAll", "detach"},
                             !.deps = TRUE, !.mode = "always", !.retries = 1,
                             !.exits = {"clean", "crash"}]

\* The service is updated while it starts, stops and crashes; it is removed
\* while calls and a shutdown are under way.
UpdateEnv == [Quiet EXCEPT !.ops = {"start", "stop", "update"}]
UpdateCrashEnv == [UpdateEnv EXCEPT !.exits = {"crash"}, !.launches = 1]
RemoveEnv == [Quiet EXCEPT !.ops = {"start", "stop", "remove", "stopAll"}]

\* A service left alone to crash until it has used its retries up.
CrashEnv == [Quiet EXCEPT !.ops = {"start"}, !.exits = {"crash"},
                          !.launches = 4, !.retries = 2]

SafetyEnvironments == {ApiEnv, CallsEnv, BreachEnv, ShutdownEnv, UpdateEnv,
                       UpdateCrashEnv, RemoveEnv, OverlapEnv, CrashEnv}

\* Liveness: contention for ms.mu, a stop at every point of a restart, and a
\* service left alone.
ContentionEnv == [Quiet EXCEPT !.launches = 1, !.deps = TRUE, !.limits = TRUE]
StopEnv       == [OverlapEnv EXCEPT !.launches = 2, !.retries = 0]
AloneEnv      == [CrashEnv EXCEPT !.launches = 2, !.retries = 1]

LivenessEnvironments == {ContentionEnv, StopEnv, AloneEnv}

\* Where the code does not do what the repository says.
OverlapOnly == {[OverlapEnv EXCEPT !.retries = 0]}
DepsOnly    == {[Quiet EXCEPT !.deps = TRUE]}
=============================================================================

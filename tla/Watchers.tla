------------------------------- MODULE Watchers -------------------------------
(***************************************************************************)
(* What watches a running service besides its process handle: the runner   *)
(* of its health checks, which lives as long as the service is started,    *)
(* the resource monitor, which is made anew for each process, and the      *)
(* monitor goroutine, which restarts the process when one of them reports. *)
(* Who may start and stop a service when is ServiceLifecycle's; here it is *)
(* stopped by one caller at a time, whose signal the monitor hears at once.*)
(***************************************************************************)
EXTENDS Integers, Sequences, FiniteSets

CONSTANTS Checks,       \* health checks a service may have
          Retries,      \* failures in a row that are reported
          FailureCap,   \* room for reports of the runner: 10 in the code
          BreachCap,    \* room for breaches: 8 in the code
          Warmup,       \* samples the memory baseline is taken from: 6
          Grace,        \* the time before limits are evaluated, in intervals
          Duration,     \* how long the CPU is to be busy, in intervals
          Memory,       \* sizes of the process
          MemoryMax,    \* the limit on them
          SpikeRatio,   \* and on their growth
          Environments  \* the circumstances to consider

Environment ==
    [checks  : SUBSET Checks,   \* the checks of the service
     onFail  : BOOLEAN,         \* a failing one restarts it
     limits  : SUBSET {"cpu", "memory", "spike"},
     ails    : {"never", "health", "memory"}, \* what is always wrong with it
     crashes : BOOLEAN,         \* its process may end by itself
     misses  : BOOLEAN,         \* samples may fail
     fails   : BOOLEAN,         \* restarts may fail or not be allowed
     stops   : BOOLEAN,         \* it is stopped and started
     late    : BOOLEAN]         \* a stop may come before Run was scheduled

ASSUME WatchersAssumption ==
    /\ IsFiniteSet(Checks)
    /\ {Retries, FailureCap, BreachCap, Warmup, Duration} \subseteq Nat \ {0}
    /\ Grace \in Nat /\ Memory \subseteq Nat /\ IsFiniteSet(Memory)
    /\ MemoryMax \in Memory /\ SpikeRatio \in Nat \ {0}
    /\ Environments \subseteq Environment

VARIABLES
    env,
    service,    \* its state
    pid,        \* of its process: a number differs from the one before
    alive,      \* the process runs
    monitor,    \* the monitor goroutine
    listening,  \* whether it selects on the resource monitor's channel
    runner,     \* the health runner
    rm          \* the resource monitor

vars == <<env, service, pid, alive, monitor, listening, runner, rm>>

NoRunner  == [stage |-> "none", cancelled |-> FALSE, looping |-> {},
              fails |-> [c \in Checks |-> 0], healthy |-> FALSE, failures |-> <<>>]
NewRunner == [NoRunner EXCEPT !.stage = "due"]

\* Samples carry their age; hotFor, which the code has not, is how long each
\* sample has shown the CPU above the limit, -1 if the last did not.
NoMonitor == [on |-> FALSE, elapsed |-> 0, base |-> <<>>, window |-> <<>>,
              breaches |-> <<>>, first |-> TRUE, hotFor |-> -1]
NewMonitor == [NoMonitor EXCEPT !.on = TRUE]

Heat == -1..(Duration + 1)
Reading == [age : 0..(Duration + 1), hot : BOOLEAN]
Breach == [type : {"cpu", "memory", "spike"}, pid : {0, 1}, hotFor : Heat]
Runners == [stage : {"none", "due", "running"}, cancelled : BOOLEAN,
            looping : SUBSET Checks, fails : [Checks -> 0..Retries],
            healthy : BOOLEAN, failures : Seq({0, 1})]
Monitors == [on : BOOLEAN, elapsed : 0..(Grace + 1), base : Seq(Memory),
             window : Seq(Reading), breaches : Seq(Breach), first : BOOLEAN,
             hotFor : Heat]

TypeOK ==
    /\ env \in Environments
    /\ service \in {"stopped", "running", "stopping", "failed"}
    /\ pid \in {0, 1} /\ alive \in BOOLEAN
    /\ monitor \in {"off", "watching", "waiting"} /\ listening \in BOOLEAN
    /\ runner \in Runners
    /\ runner.looping \subseteq env.checks
    /\ Len(runner.failures) <= FailureCap
    /\ rm \in Monitors
    /\ Len(rm.base) <= Warmup
    /\ Len(rm.window) <= Duration + 1
    /\ Len(rm.breaches) <= BreachCap

Init ==
    /\ env \in Environments
    /\ service = "stopped" /\ pid = 0 /\ alive = FALSE
    /\ monitor = "off" /\ listening = FALSE
    /\ runner = NoRunner /\ rm = NoMonitor

-----------------------------------------------------------------------------
(* Starting and stopping.                                                  *)

\* startService: whatever watched the service before is forgotten, not stopped.
StartService ==
    /\ service \in {"stopped", "failed"}
    /\ service' = "running" /\ pid' = 1 - pid /\ alive' = TRUE
    /\ runner' = IF env.checks = {} THEN NoRunner ELSE NewRunner
    /\ rm' = NewMonitor
    /\ monitor' = "watching" /\ listening' = TRUE
    /\ UNCHANGED env

\* Fault: the runner is not told.
StopForgetful ==
    /\ env.stops /\ service = "running"
    /\ ~env.late => runner.stage # "due"
    /\ service' = "stopping"
    /\ monitor' = "off"
    /\ UNCHANGED <<env, pid, alive, listening, rm, runner>>

\* stopService: the monitor is told, and Runner.Stop cancels the context that
\* Run has made, if it has.
Stop ==
    /\ env.stops /\ service = "running"
    /\ ~env.late => runner.stage # "due"
    /\ service' = "stopping"
    /\ monitor' = "off"
    /\ runner' = [runner EXCEPT !.cancelled = runner.stage = "running"]
    /\ UNCHANGED <<env, pid, alive, listening, rm>>

\* The wait for the loops is over, and the process is stopped.  A runner that
\* was still due has no loops to wait for: it runs when nobody knows it.
Stopped ==
    /\ service = "stopping"
    /\ runner.looping = {}
    /\ service' = "stopped" /\ alive' = FALSE
    /\ runner' = NoRunner /\ rm' = NoMonitor /\ listening' = FALSE
    /\ UNCHANGED <<env, pid, monitor>>

-----------------------------------------------------------------------------
(* The health runner.                                                      *)

\* Run installs the context, also after a Stop that found none.
Run ==
    /\ runner.stage = "due"
    /\ runner' = [runner EXCEPT !.stage = "running", !.looping = env.checks]
    /\ UNCHANGED <<env, service, pid, alive, monitor, listening, rm>>

Results == IF env.ails = "health" THEN {FALSE} ELSE BOOLEAN

\* A check of runCheck's loop: failures count from the last success, whatever
\* process they were of, and are reported from the Retries-th on.
Check(c, well) ==
    /\ c \in runner.looping
    /\ well \in Results
    /\ LET fails == IF well THEN 0
                    ELSE IF runner.fails[c] = Retries THEN Retries ELSE runner.fails[c] + 1
           reports == fails = Retries /\ Len(runner.failures) < FailureCap
       IN runner' = [runner EXCEPT !.fails[c] = fails, !.healthy = well,
                       !.failures = IF reports THEN Append(@, pid) ELSE @]
    /\ UNCHANGED <<env, service, pid, alive, monitor, listening, rm>>

LoopEnds(c) ==
    /\ c \in runner.looping /\ runner.cancelled
    /\ runner' = [runner EXCEPT !.looping = @ \ {c}]
    /\ UNCHANGED <<env, service, pid, alive, monitor, listening, rm>>

-----------------------------------------------------------------------------
(* The resource monitor.                                                   *)

\* medianInt64, on the samples in order of size.
Median(seq) ==
    LET n == Len(seq)
        Rank(i) == Cardinality({j \in 1..n : seq[j] < seq[i] \/ (seq[j] = seq[i] /\ j < i)})
        Nth(k) == seq[CHOOSE i \in 1..n : Rank(i) = k]
    IN  IF n % 2 = 0 THEN (Nth(n \div 2 - 1) + Nth(n \div 2)) \div 2
                     ELSE Nth(n \div 2)

Older(n, limit) == IF n >= limit THEN limit ELSE n + 1
Aged(window) == [i \in DOMAIN window |-> [window[i] EXCEPT !.age = Older(@, Duration + 1)]]

\* pruneOldSamples reads the clock again, lag after the sample was taken, and
\* cuts the samples that are too old then off the front.
Pruned(window, lag) ==
    LET Recent(i) == window[i].age + lag <= Duration
        first == CHOOSE n \in 1..(Len(window) + 1) :
                    /\ \A i \in 1..(n - 1) : ~Recent(i)
                    /\ n <= Len(window) => Recent(n)
    IN  SubSeq(window, first, Len(window))

\* Fault: the samples need not cover the duration.
SustainedAnyhow(window) ==
    /\ Len(window) >= 2
    /\ \A i \in DOMAIN window : window[i].hot

\* evaluateCPUSustained.
Sustained(window) ==
    /\ Len(window) >= 2
    /\ window[1].age - window[Len(window)].age >= Duration
    /\ \A i \in DOMAIN window : window[i].hot

\* Fault: there is room for everything.
SentAll(breaches, new) == breaches \o new

\* sendBreach drops what does not fit.
Sent(breaches, new) ==
    LET n == BreachCap - Len(breaches) IN
    breaches \o SubSeq(new, 1, IF Len(new) < n THEN Len(new) ELSE n)

\* An interval passes.
Later == [rm EXCEPT !.elapsed = Older(@, Grace + 1), !.window = Aged(@),
                    !.hotFor = IF @ = -1 THEN -1 ELSE Older(@, Duration + 1)]

\* What samples show, as far as a limit depends on it.
Sizes == CASE env.ails = "memory" -> {m \in Memory : m > MemoryMax}
           [] env.limits \cap {"memory", "spike"} = {} -> {MemoryMax}
           [] OTHER -> Memory
Loads == IF rm.first \/ "cpu" \notin env.limits THEN {FALSE} ELSE BOOLEAN

\* The first samples, of which the median is the baseline.
Base(mem) == IF Len(rm.base) < Warmup THEN Append(rm.base, mem) ELSE rm.base

\* How long the CPU has been busy at a sample; the code does not keep it.
HotFor(hot) == IF ~hot THEN -1 ELSE IF rm.hotFor = -1 THEN 0 ELSE Later.hotFor

\* The window with the sample.
Window(hot, lag) == Pruned(Append(Later.window, [age |-> 0, hot |-> hot]), lag)

\* The limits that are broken.
Broken(hot, mem, lag) ==
    LET known == Len(Base(mem)) = Warmup /\ Median(Base(mem)) > 0
        If(limit, bad) == IF limit \in env.limits /\ bad
                          THEN <<[type |-> limit, pid |-> pid, hotFor |-> HotFor(hot)]>>
                          ELSE <<>>
    IN  If("cpu", Sustained(Window(hot, lag))) \o If("memory", mem > MemoryMax)
        \o If("spike", known /\ mem >= SpikeRatio * Median(Base(mem)))

\* A round of ResourceMonitor.Run.  The first sample has no CPU share; until
\* Grace has passed only the baseline is taken; then the limits are looked at.
Sample(hot, mem, lag) ==
    /\ rm.on /\ alive
    /\ mem \in Sizes /\ hot \in Loads
    /\ LET quiet == Later.elapsed < Grace
       IN rm' = [Later EXCEPT !.first = FALSE, !.base = Base(mem), !.hotFor = HotFor(hot),
                   !.window = IF quiet \/ "cpu" \notin env.limits THEN @ ELSE Window(hot, lag),
                   !.breaches = IF quiet THEN @ ELSE Sent(@, Broken(hot, mem, lag))]
    /\ UNCHANGED <<env, service, pid, alive, monitor, listening, runner>>

\* The process cannot be opened: the interval passes without a sample.
SampleFails ==
    /\ rm.on /\ (alive => env.misses)
    /\ rm' = Later
    /\ UNCHANGED <<env, service, pid, alive, monitor, listening, runner>>

-----------------------------------------------------------------------------
(* monitorService.                                                         *)

Exit ==
    /\ env.crashes /\ alive
    /\ alive' = FALSE
    /\ UNCHANGED <<env, service, pid, monitor, listening, runner, rm>>

\* The process has ended; the restart policy is ServiceLifecycle's.  Without a
\* restart the monitor ends, and the other two go on.
OnExit ==
    /\ monitor = "watching" /\ ~alive
    /\ \/ monitor' = "waiting" /\ UNCHANGED service
       \/ env.fails /\ monitor' = "off" /\ service' = "failed"
    /\ UNCHANGED <<env, pid, alive, listening, runner, rm>>

\* restartAfterBreach stops the process before the delay.
OnBreach ==
    /\ monitor = "watching" /\ listening /\ rm.breaches # <<>>
    /\ rm' = [rm EXCEPT !.breaches = Tail(@)]
    /\ alive' = FALSE /\ monitor' = "waiting"
    /\ UNCHANGED <<env, service, pid, listening, runner>>

\* A report of the runner is taken; it may be of the process before.
OnFailure ==
    /\ monitor = "watching" /\ runner.failures # <<>>
    /\ runner' = [runner EXCEPT !.failures = Tail(@)]
    /\ IF env.onFail THEN alive' = FALSE /\ monitor' = "waiting"
                     ELSE UNCHANGED <<alive, monitor>>
    /\ UNCHANGED <<env, service, pid, listening, rm>>

\* Fault: the monitor keeps the channel of the old resource monitor.
RestartDeaf ==
    /\ monitor = "waiting"
    /\ pid' = 1 - pid /\ alive' = TRUE /\ monitor' = "watching"
    /\ rm' = NewMonitor /\ listening' = FALSE
    /\ UNCHANGED <<env, service, runner>>

\* doRestart, and the channels of the new monitors; the runner stays.
Restart ==
    /\ monitor = "waiting"
    /\ pid' = 1 - pid /\ alive' = TRUE /\ monitor' = "watching"
    /\ rm' = NewMonitor /\ listening' = TRUE
    /\ UNCHANGED <<env, service, runner>>

\* The process does not start: the runner is left running.
RestartFails ==
    /\ monitor = "waiting" /\ env.fails
    /\ service' = "failed" /\ monitor' = "off"
    /\ rm' = NoMonitor /\ listening' = FALSE
    /\ UNCHANGED <<env, pid, alive, runner>>

-----------------------------------------------------------------------------

Next ==
    \/ StartService \/ Stop \/ Stopped \/ Run
    \/ \E c \in Checks : LoopEnds(c) \/ \E well \in BOOLEAN : Check(c, well)
    \/ \E hot \in BOOLEAN, mem \in Memory, lag \in {0, 1} : Sample(hot, mem, lag)
    \/ SampleFails
    \/ Exit \/ OnExit \/ OnBreach \/ OnFailure \/ Restart \/ RestartFails

\* Goroutines that can go on do, tickers tick and delays end.
Fairness ==
    /\ WF_vars(Run) /\ WF_vars(Stopped)
    /\ \A c \in Checks : /\ WF_vars(LoopEnds(c))
                         /\ WF_vars(\E well \in BOOLEAN : Check(c, well))
    /\ WF_vars(\E hot \in BOOLEAN, mem \in Memory, lag \in {0, 1} : Sample(hot, mem, lag))
    /\ WF_vars(OnExit \/ OnBreach \/ OnFailure)
    /\ WF_vars(Restart \/ RestartFails)

Spec == Init /\ [][Next]_vars /\ Fairness

-----------------------------------------------------------------------------
(* Properties.                                                             *)

\* A breach the monitor can read is of the process that runs or ran last, and
\* one of the CPU says that every sample of the whole duration was above the
\* limit: samples that failed, the first one and the grace period do not count
\* towards it, and a restart starts over.
BreachesAreReal ==
    \A i \in DOMAIN rm.breaches :
        LET b == rm.breaches[i] IN
        /\ b.pid = pid
        /\ b.type = "cpu" => b.hotFor >= Duration

\* A service whose checks always fail, or that always uses too much memory, is
\* restarted again and again, however often it was before, whichever reports
\* were dropped and whether a process of its crashed in between; unless it is
\* stopped or cannot be started.
AilingIsRestarted ==
    \A p \in {0, 1} :
        (env.ails # "never" /\ service = "running" /\ pid = p)
            ~> (service # "running" \/ pid # p)

\* A stop returns: the wait for the check loops, with the service locked, ends.
\* Not so if Run is scheduled between Stop's look at the context and its wait.
StopReturns ==
    (service = "stopping" /\ ~env.late) ~> service # "stopping"
=============================================================================

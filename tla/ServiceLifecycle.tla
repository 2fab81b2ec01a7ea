--------------------------- MODULE ServiceLifecycle ---------------------------
(***************************************************************************)
(* The life of one managed service: the ManagedService record, the         *)
(* processes the Guardian spawns for it, the monitor goroutine every start *)
(* leaves behind, and the API callers that start, stop, restart, update    *)
(* and remove it or shut the Guardian down, all interleaved at the points  *)
(* where the code releases ms.mu or waits.                                 *)
(*                                                                         *)
(* A process, its Wrapper and its ResourceMonitor are born together and    *)
(* share a number in Procs, given in launch order.  A start also makes a   *)
(* stop channel, a health runner and a monitor goroutine, which carry the  *)
(* number of the process that start launched.  0 stands for nil (and, for  *)
(* stop channels, for the one NewManagedService makes).                    *)
(***************************************************************************)
EXTENDS Naturals, FiniteSets

CONSTANTS Callers,       \* goroutines that serve API calls, cron jobs, the SCM
          NoCaller,      \* nobody holds ms.mu
          MaxLaunches,   \* bound: processes ever launched
          Environments   \* the configurations and stimuli to consider

AllOps == {"start", "stop", "restart", "update", "remove", "stopAll", "detach"}

\* What stays the same while the service runs: its configuration, and what
\* happens around it.
Environment ==
    [ops      : SUBSET AllOps,                        \* the calls that are made,
     inFlight : Nat,                                  \* so many at a time
     launches : 0..MaxLaunches,                       \* bound: launches
     mode     : {"never", "on_failure", "always"},    \* RestartPolicy.Mode
     retries  : Nat,                                  \* MaxRetries, 0: no limit
     deps     : BOOLEAN,                              \* it has Dependencies
     limits   : BOOLEAN,                              \* it has ResourceLimits
     health   : BOOLEAN,       \* it has HealthChecks and RestartOnHealthFail
     exits    : SUBSET {"clean", "crash"},  \* how processes end by themselves
     failures : BOOLEAN]    \* the pre-start hook or Wrapper.Start may fail

ASSUME EnvironmentAssumption ==
    /\ NoCaller \notin Callers
    /\ MaxLaunches \in Nat
    /\ Environments \subseteq Environment

Procs    == 1..MaxLaunches
ProcOrNil == 0..MaxLaunches

VARIABLES
    env,       \* the environment of this behaviour
    svc,       \* the ManagedService fields ms.mu guards
    lock,      \* the caller that holds ms.mu across several of its steps
    removed,   \* the service is no longer in the manager's map
    saved,     \* the runtime state last written to the store
    closed,    \* stop channels that have been closed
    polling,   \* ResourceMonitor goroutines still running
    capturing, \* log captures not yet closed
    proc,      \* the operating system's view of each process
    exitCh,    \* content of each Wrapper's one-slot exit channel
    launched,  \* number of processes launched so far
    mon,       \* the monitor goroutine of each start
    api,       \* what each caller is doing
    ctxDone    \* the manager's lifecycle context is cancelled

vars == <<env, svc, lock, removed, saved, closed, polling, capturing, proc, exitCh,
          launched, mon, api, ctxDone>>

States == {"stopped", "starting", "running", "stopping", "failed"}
Live   == {"alive", "signalled"}   \* running, and no kill has been issued
Exited == {"clean", "crash"}

MonPcs == {"none", "born", "channels", "round", "select", "policy", "count",
           "giveUp", "cleanStop", "save", "backoff", "restart", "breachCount",
           "breachWrapper", "breachStop", "reChannels", "done"}
ApiPcs == {"idle", "start", "depWait", "launch", "stop", "stopSignal",
           "stopFinish", "again", "update", "stopAllCheck", "detachCheck",
           "detach", "cancel", "over"}

ProcState == {"none", "alive", "signalled", "dying", "exited"}

\* The ManagedService record; count is RestartCount.
Service == [state : States, pid : ProcOrNil, count : Nat,
            wrapper : ProcOrNil, stopCh : ProcOrNil, capture : ProcOrNil,
            resMon : ProcOrNil, health : ProcOrNil]

\* A monitor's local variables; byHealth: it restarts for a health failure.
Monitor == [pc : MonPcs, ch : ProcOrNil, w : ProcOrNil, breach : ProcOrNil,
            health : ProcOrNil, byHealth : BOOLEAN]

\* A caller's local variables; snap is what Update preserves.
Snapshot   == [state : States, pid : ProcOrNil, count : Nat]
CallerState == [pc : ApiPcs, op : AllOps \cup {"none"}, snap : Snapshot]

\* A service that was never saved is read back as the zero record, state "".
RunState == [state : States \cup {"none"}, pid : ProcOrNil]

TypeOK ==
    /\ env \in Environments
    /\ svc \in Service
    /\ lock \in Callers \cup {NoCaller}
    /\ removed \in BOOLEAN
    /\ saved \in RunState
    /\ closed \in SUBSET ProcOrNil
    /\ polling \in SUBSET Procs
    /\ capturing \in SUBSET Procs
    /\ proc \in [Procs -> ProcState]
    /\ exitCh \in [Procs -> {"empty"} \cup Exited]
    /\ launched \in ProcOrNil
    /\ mon \in [Procs -> Monitor]
    /\ api \in [Callers -> CallerState]
    /\ ctxDone \in BOOLEAN

NoSnap == [state |-> "stopped", pid |-> 0, count |-> 0]
Idle   == [pc |-> "idle", op |-> "none", snap |-> NoSnap]
Unborn == [pc |-> "none", ch |-> 0, w |-> 0, breach |-> 0, health |-> 0,
           byHealth |-> FALSE]

\* The service as Manager.Add leaves it.
Init ==
    /\ env \in Environments
    /\ svc = [state |-> "stopped", pid |-> 0, count |-> 0, wrapper |-> 0,
              stopCh |-> 0, capture |-> 0, resMon |-> 0, health |-> 0]
    /\ lock = NoCaller
    /\ removed = FALSE
    /\ saved = [state |-> "none", pid |-> 0]
    /\ closed = {}
    /\ polling = {}
    /\ capturing = {}
    /\ proc = [p \in Procs |-> "none"]
    /\ exitCh = [p \in Procs |-> "empty"]
    /\ launched = 0
    /\ mon = [p \in Procs |-> Unborn]
    /\ api = [c \in Callers |-> Idle]
    /\ ctxDone = FALSE

-----------------------------------------------------------------------------
(* Operations shared by several handlers.                                  *)

Free == lock = NoCaller

\* Update writes under the manager's map lock, from its read of the state to its
\* swap; StopAll and DetachAll read under it while they wait for ms.mu.
MapReadable == \A c \in Callers : api[c].pc # "update"
MapWritable == \A c \in Callers :
                 api[c].pc \notin {"update", "stopAllCheck", "detachCheck"}

\* Fault: the process id is not written.
SaveStateOnly(s) == saved' = [saved EXCEPT !.state = s.state]

saveRuntimeState(s) == saved' = [state |-> s.state, pid |-> s.pid]

Goto(c, pc) == api' = [api EXCEPT ![c].pc = pc]
Reply(c)    == api' = [api EXCEPT ![c] = Idle]

\* The monitor moves on.  The wrapper of the round is not used past the select,
\* and a goroutine that has returned has no variables.
MonGoto(m, pc) ==
    mon' = [mon EXCEPT ![m] = IF pc = "done" THEN [Unborn EXCEPT !.pc = "done"]
                                             ELSE [@ EXCEPT !.pc = pc, !.w = 0]]

\* Terminating a job object, or cancelling the context a command runs under,
\* asks the system for the end of a process and does not wait for it.
KillAll(ps) == proc' = [p \in Procs |->
                          IF p \in ps /\ proc[p] \in Live THEN "dying"
                                                          ELSE proc[p]]

\* Phase 1 of Wrapper.Stop: nothing is sent to a process known to have ended.
Signal(w) == proc' = [p \in Procs |-> IF p = w /\ proc[p] = "alive"
                                        THEN "signalled" ELSE proc[p]]

\* Fault: a process that outlives the timeout is left running.
StopWithoutKill(w) ==
    /\ exitCh' = [p \in Procs |-> IF p = w THEN "empty" ELSE exitCh[p]]
    /\ proc' = proc

\* Fault: the wait for the exit result has no timeout.
StopWithoutTimeout(w) ==
    /\ w # 0 => exitCh[w] # "empty"
    /\ exitCh' = [p \in Procs |-> IF p = w THEN "empty" ELSE exitCh[p]]
    /\ KillAll({w})

\* Phases 2 and 3 of Wrapper.Stop followed by Wrapper.Close: the exit result
\* is received, or the timeout expires (or there was nothing to wait for), and
\* what is left of the process is killed.
StopAndClose(w) ==
    /\ \/ exitCh' = exitCh
       \/ /\ w # 0
          /\ exitCh[w] # "empty"
          /\ exitCh' = [exitCh EXCEPT ![w] = "empty"]
    /\ KillAll({w})

\* Fault: processes are started under a context nobody cancels.
LaunchIgnoresContext == launched < env.launches

\* A cancelled context makes Wrapper.Start fail.  env.launches bounds the model:
\* the launches that would pass it fail.
LaunchCanSucceed == ~ctxDone /\ launched < env.launches
LaunchCanFail    == env.failures \/ ~LaunchCanSucceed

\* Wrapper.Start succeeds: process p exists.
Spawn(p) ==
    /\ launched' = p
    /\ proc' = [proc EXCEPT ![p] = "alive"]

\* Faults: an attempt is not counted, or is subtracted.
CountNothing(s) == s
CountDown(s)    == [s EXCEPT !.count = @ - 1]

\* RestartCount++.
CountAttempt(s) == [s EXCEPT !.count = @ + 1]

\* Fault: the watcher of the process before is overwritten, not ended.
ReplacedUncancelled(running, old, p) == running \cup {p}

\* The watcher old of the process before is ended, that of p is started.
Replaced(running, old, p) == (running \ {old}) \cup {p}

\* The health runner and the resource monitor are stopped and forgotten.
StopWatchers(s) == [s EXCEPT !.health = 0, !.resMon = 0]

\* The fields a successful launch of p sets, whoever launches it.
Attached(s, p) == [s EXCEPT !.state = "running", !.pid = p, !.wrapper = p,
                            !.capture = p, !.resMon = p]

-----------------------------------------------------------------------------
(* API calls: looking the service up, and startService.                    *)

MayCall ==
    Cardinality({c \in Callers : api[c].pc \notin {"idle", "over"}}) < env.inFlight

\* Where a call begins.  A shutdown that no longer finds the service in the map
\* has nothing to do for it.
FirstStep(op) ==
    CASE op = "start" -> "start"
      [] op \in {"stop", "restart"} -> "stop"
      [] op = "stopAll" -> IF removed THEN "cancel" ELSE "stopAllCheck"
      [] op = "detach"  -> IF removed THEN "cancel" ELSE "detachCheck"

\* A call looks the service up.  The one that shuts the Guardian down (StopAll
\* or DetachAll, chosen by restart mode) is made once.
Call(c, op) ==
    /\ api[c].pc = "idle"
    /\ op \in env.ops \ {"update", "remove"}
    /\ MayCall
    /\ MapReadable
    /\ IF op \in {"stopAll", "detach"}
       THEN \A d \in Callers : api[d].op \notin {"stopAll", "detach"}
       ELSE ~removed
    /\ api' = [api EXCEPT ![c].op = op, ![c].pc = FirstStep(op)]
    /\ UNCHANGED <<svc, lock, removed, saved, closed, polling, capturing, proc,
                   exitCh, launched, mon, ctxDone>>

\* With dependencies to wait for, the lock is given up right away.
StartEnter(c) ==
    /\ api[c].pc = "start"
    /\ Free
    /\ IF svc.state = "running"
       THEN /\ Reply(c)
            /\ UNCHANGED <<svc, lock>>
       ELSE /\ svc' = [svc EXCEPT !.state = "starting"]
            /\ IF env.deps THEN Goto(c, "depWait") /\ UNCHANGED lock
                          ELSE Goto(c, "launch") /\ lock' = c
    /\ UNCHANGED <<removed, saved, closed, polling, capturing, proc, exitCh,
                   launched, mon, ctxDone>>

\* WaitForDependencies timed out, or the lifecycle context ended.
DepWaitFails(c) ==
    /\ api[c].pc = "depWait"
    /\ Free
    /\ svc' = [svc EXCEPT !.state = "failed"]
    /\ saveRuntimeState(svc')
    /\ Reply(c)
    /\ UNCHANGED <<lock, removed, closed, polling, capturing, proc, exitCh,
                   launched, mon, ctxDone>>

\* All dependencies were met; only "running" is checked again.
DepsMet(c) ==
    /\ api[c].pc = "depWait"
    /\ ~ctxDone
    /\ Free
    /\ IF svc.state = "running" THEN Reply(c) /\ UNCHANGED lock
                                ELSE Goto(c, "launch") /\ lock' = c
    /\ UNCHANGED <<svc, removed, saved, closed, polling, capturing, proc,
                   exitCh, launched, mon, ctxDone>>

\* Fault: a launch that fails leaves the state as it was.
LaunchFailsUnseen(c) ==
    /\ api[c].pc = "launch"
    /\ LaunchCanFail
    /\ lock' = NoCaller
    /\ Reply(c)
    /\ UNCHANGED <<svc, removed, saved, closed, polling, capturing, proc, exitCh,
                   launched, mon, ctxDone>>

\* A pre-start hook aborts or the process cannot be created: nothing is saved.
LaunchFails(c) ==
    /\ api[c].pc = "launch"
    /\ LaunchCanFail
    /\ svc' = [svc EXCEPT !.state = "failed"]
    /\ lock' = NoCaller
    /\ Reply(c)
    /\ UNCHANGED <<removed, saved, closed, polling, capturing, proc, exitCh,
                   launched, mon, ctxDone>>

\* The process is up: capture, health runner and resource monitor take the
\* place of what the record held, which is not ended, a fresh stop channel is
\* installed and a monitor goroutine is left to itself.
Launch(c) ==
    /\ api[c].pc = "launch"
    /\ LaunchCanSucceed
    /\ LET p == launched + 1 IN
         /\ Spawn(p)
         /\ svc' = [Attached(svc, p) EXCEPT
                      !.stopCh = p,
                      !.health = IF env.health THEN p ELSE @]
         /\ saveRuntimeState(svc')
         /\ capturing' = capturing \cup {p}
         /\ polling' = polling \cup {p}
         /\ mon' = [mon EXCEPT ![p].pc = "born"]
    /\ lock' = NoCaller
    /\ Reply(c)
    /\ UNCHANGED <<removed, closed, exitCh, ctxDone>>

-----------------------------------------------------------------------------
(* stopService, Restart, and the two ways to shut the Guardian down.       *)

\* What a caller does when stopService has returned.
AfterStop(c) == CASE api[c].op = "restart" -> Goto(c, "again")
                  [] api[c].op = "stopAll" -> Goto(c, "cancel")
                  [] OTHER -> Reply(c)

\* The pre-stop hook runs here, under ms.mu and before any signal.
StopEnter(c) ==
    /\ api[c].pc = "stop"
    /\ Free
    /\ IF svc.state \in {"running", "starting"}
       THEN /\ svc' = [svc EXCEPT !.state = "stopping"]
            /\ lock' = c
            /\ Goto(c, "stopSignal")
       ELSE /\ AfterStop(c)
            /\ UNCHANGED <<svc, lock>>
    /\ UNCHANGED <<removed, saved, closed, polling, capturing, proc, exitCh,
                   launched, mon, ctxDone>>

\* signalStop, the health runner, the resource monitor, and the stop signal.
\* HealthRunner.Stop waits, with ms.mu held, for the check under way before this
\* step; that the wait ends is the subject of Watchers.
StopSignal(c) ==
    /\ api[c].pc = "stopSignal"
    /\ closed' = closed \cup {svc.stopCh}
    /\ polling' = polling \ {svc.resMon}
    /\ svc' = StopWatchers(svc)
    /\ Signal(svc.wrapper)
    /\ Goto(c, "stopFinish")
    /\ UNCHANGED <<lock, removed, saved, capturing, exitCh, launched, mon,
                   ctxDone>>

StopFinish(c) ==
    /\ api[c].pc = "stopFinish"
    /\ StopAndClose(svc.wrapper)
    /\ capturing' = capturing \ {svc.capture}
    /\ svc' = [svc EXCEPT !.wrapper = 0, !.capture = 0, !.state = "stopped",
                          !.pid = 0]
    /\ saveRuntimeState(svc')
    /\ lock' = NoCaller
    /\ AfterStop(c)
    /\ UNCHANGED <<removed, closed, polling, launched, mon, ctxDone>>

\* Restart: half a second later Start looks the service up afresh.
StartAgain(c) ==
    /\ api[c].pc = "again"
    /\ MapReadable
    /\ IF removed THEN Reply(c) ELSE Goto(c, "start")
    /\ UNCHANGED <<svc, lock, removed, saved, closed, polling, capturing, proc,
                   exitCh, launched, mon, ctxDone>>

\* StopAll only stops what it finds running or starting.
StopAllCheck(c) ==
    /\ api[c].pc = "stopAllCheck"
    /\ Free
    /\ Goto(c, IF svc.state \in {"running", "starting"} THEN "stop"
                                                        ELSE "cancel")
    /\ UNCHANGED <<svc, lock, removed, saved, closed, polling, capturing, proc,
                   exitCh, launched, mon, ctxDone>>

DetachCheck(c) ==
    /\ api[c].pc = "detachCheck"
    /\ Free
    /\ Goto(c, IF svc.state = "running" THEN "detach" ELSE "cancel")
    /\ UNCHANGED <<svc, lock, removed, saved, closed, polling, capturing, proc,
                   exitCh, launched, mon, ctxDone>>

\* DetachAll for this service.  Wrapper.Detach cancels the context the command
\* was created with, and os/exec answers by killing the process.
Detach(c) ==
    /\ api[c].pc = "detach"
    /\ Free
    /\ IF svc.wrapper = 0
       THEN UNCHANGED <<svc, closed, polling, capturing, proc>>
       ELSE /\ closed' = closed \cup {svc.stopCh}
            /\ polling' = polling \ {svc.resMon}
            /\ capturing' = capturing \ {svc.capture}
            /\ KillAll({svc.wrapper})
            /\ svc' = [StopWatchers(svc) EXCEPT !.wrapper = 0, !.capture = 0]
    /\ Goto(c, "cancel")
    /\ UNCHANGED <<lock, removed, saved, exitCh, launched, mon, ctxDone>>

\* Manager.Shutdown cancels the context every process was started under.
Shutdown(c) ==
    /\ api[c].pc = "cancel"
    /\ ctxDone' = TRUE
    /\ KillAll(Procs)
    /\ polling' = {}
    /\ Goto(c, "over")
    /\ UNCHANGED <<svc, lock, removed, saved, closed, capturing, exitCh,
                   launched, mon>>

-----------------------------------------------------------------------------
(* Calls that hold the manager's map lock but not ms.mu.                   *)

\* Update keeps what the record says of the running process ...
UpdateRead(c) ==
    /\ "update" \in env.ops
    /\ api[c].pc = "idle"
    /\ MayCall
    /\ MapWritable
    /\ ~removed
    /\ api' = [api EXCEPT ![c] =
                 [pc |-> "update", op |-> "update",
                  snap |-> [state |-> svc.state, pid |-> svc.pid,
                            count |-> svc.count]]]
    /\ UNCHANGED <<svc, lock, removed, saved, closed, polling, capturing, proc,
                   exitCh, launched, mon, ctxDone>>

\* ... and installs a new record with it, two file writes later, unless one of
\* them failed.
UpdateSwap(c) ==
    /\ api[c].pc = "update"
    /\ \/ svc' = [svc EXCEPT !.state = api[c].snap.state,
                             !.pid = api[c].snap.pid,
                             !.count = api[c].snap.count]
       \/ UNCHANGED svc
    /\ Reply(c)
    /\ UNCHANGED <<lock, removed, saved, closed, polling, capturing, proc,
                   exitCh, launched, mon, ctxDone>>

\* Remove reads the state without ms.mu, so it may see a handler half way.
Remove(c) ==
    /\ "remove" \in env.ops
    /\ api[c].pc = "idle"
    /\ MapWritable
    /\ svc.state \notin {"running", "starting"}
    /\ removed' = TRUE
    /\ UNCHANGED <<svc, lock, saved, closed, polling, capturing, proc, exitCh,
                   launched, mon, api, ctxDone>>

-----------------------------------------------------------------------------
(* Processes.                                                              *)

\* A process ends of its own accord, or because it was signalled or killed;
\* the wait goroutine puts the result in the exit channel.  A killed process
\* counts as crashed.
ProcExit(p, how) ==
    /\ \/ proc[p] = "alive" /\ how \in env.exits
       \/ proc[p] = "signalled"
       \/ proc[p] = "dying" /\ how = "crash"
    /\ proc' = [proc EXCEPT ![p] = "exited"]
    /\ exitCh' = [exitCh EXCEPT ![p] = how]
    /\ UNCHANGED <<svc, lock, removed, saved, closed, polling, capturing,
                   launched, mon, api, ctxDone>>

-----------------------------------------------------------------------------
(* monitorService: one goroutine per start, run by the steps below.        *)

MonUnchanged == UNCHANGED <<svc, lock, removed, saved, closed, polling,
                            capturing, proc, launched, api, ctxDone>>

Stopped(m) == mon[m].ch \in closed

MonTakeStopChannel(m) ==
    /\ mon[m].pc = "born"
    /\ Free
    /\ mon' = [mon EXCEPT ![m].ch = svc.stopCh, ![m].pc = "channels"]
    /\ MonUnchanged /\ UNCHANGED exitCh

\* Without a threshold the resource monitor's channel never delivers: nil.
BreachCh == IF env.limits THEN svc.resMon ELSE 0

MonTakeChannels(m) ==
    /\ mon[m].pc = "channels"
    /\ Free
    /\ mon' = [mon EXCEPT ![m].breach = BreachCh, ![m].health = svc.health,
                          ![m].pc = "round"]
    /\ MonUnchanged /\ UNCHANGED exitCh

\* Each round works with the wrapper it read at its start.
MonRound(m) ==
    /\ mon[m].pc = "round"
    /\ Free
    /\ IF svc.wrapper = 0
       THEN MonGoto(m, "done")
       ELSE mon' = [mon EXCEPT ![m].w = svc.wrapper, ![m].pc = "select"]
    /\ MonUnchanged /\ UNCHANGED exitCh

\* What a monitor that has not been stopped does about the end of its process.
AfterExit(how) == IF how = "crash" THEN "policy"
                  ELSE IF env.mode = "always" THEN "count" ELSE "cleanStop"

\* The select: the process of this round has ended.  Receiving the result and
\* testing the stop channel are one step here: only a close of the channel
\* falls between them, and it may as well come first.
MonExit(m) ==
    LET w == mon[m].w IN
    /\ mon[m].pc = "select"
    /\ exitCh[w] # "empty"
    /\ exitCh' = [exitCh EXCEPT ![w] = "empty"]
    /\ MonGoto(m, IF Stopped(m) THEN "done" ELSE AfterExit(exitCh[w]))
    /\ MonUnchanged

\* The select: a resource breach.  The channel is buffered, so a breach may be
\* waiting in it after its monitor was cancelled.
MonBreach(m) ==
    /\ mon[m].pc = "select"
    /\ mon[m].breach # 0
    /\ MonGoto(m, "breachCount")
    /\ MonUnchanged /\ UNCHANGED exitCh

\* The select: a health failure, buffered too.
MonHealthFail(m) ==
    /\ mon[m].pc = "select"
    /\ mon[m].health # 0
    /\ mon' = [mon EXCEPT ![m].byHealth = TRUE, ![m].pc = "breachCount"]
    /\ MonUnchanged /\ UNCHANGED exitCh

\* The select: every 30 seconds a sample is stored and a new round begins.
MonTick(m) ==
    /\ mon[m].pc = "select"
    /\ MonGoto(m, "round")
    /\ MonUnchanged /\ UNCHANGED exitCh

\* Fault: only the end of the Guardian ends a monitor.
MonStopAtShutdown(m) ==
    /\ mon[m].pc = "select"
    /\ ctxDone
    /\ MonGoto(m, "done")
    /\ MonUnchanged /\ UNCHANGED exitCh

\* The select: the stop channel is closed or the lifecycle context is done.
MonStop(m) ==
    /\ mon[m].pc = "select"
    /\ Stopped(m) \/ ctxDone
    /\ MonGoto(m, "done")
    /\ MonUnchanged /\ UNCHANGED exitCh

\* Faults: off by one either way.
RetriesOneMore(count)  == env.mode # "never" /\ count <= env.retries
RetriesOneLess(count)  == env.mode # "never" /\ count + 1 < env.retries

\* shouldRestart on a snapshot of the record.
shouldRestart(count) ==
    /\ env.mode # "never"
    /\ count < env.retries \/ env.retries = 0

MonPolicy(m) ==
    /\ mon[m].pc = "policy"
    /\ Free
    /\ MonGoto(m, IF shouldRestart(svc.count) THEN "count" ELSE "giveUp")
    /\ MonUnchanged /\ UNCHANGED exitCh

MonGiveUp(m) ==
    /\ mon[m].pc = "giveUp"
    /\ Free
    /\ svc' = [svc EXCEPT !.state = "failed"]
    /\ MonGoto(m, "save")
    /\ UNCHANGED <<lock, removed, saved, closed, polling, capturing, proc,
                   exitCh, launched, api, ctxDone>>

MonCleanStop(m) ==
    /\ mon[m].pc = "cleanStop"
    /\ Free
    /\ svc' = [svc EXCEPT !.state = "stopped", !.pid = 0]
    /\ MonGoto(m, "save")
    /\ UNCHANGED <<lock, removed, saved, closed, polling, capturing, proc,
                   exitCh, launched, api, ctxDone>>

\* saveRuntimeStateLocked: saves what the record says by now.
MonSave(m) ==
    /\ mon[m].pc = "save"
    /\ Free
    /\ saveRuntimeState(svc)
    /\ MonGoto(m, "done")
    /\ UNCHANGED <<svc, lock, removed, closed, polling, capturing, proc,
                   exitCh, launched, api, ctxDone>>

MonCount(m) ==
    /\ mon[m].pc \in {"count", "breachCount"}
    /\ Free
    /\ svc' = CountAttempt(svc)
    /\ MonGoto(m, IF mon[m].pc = "count" THEN "backoff" ELSE "breachWrapper")
    /\ UNCHANGED <<lock, removed, saved, closed, polling, capturing, proc,
                   exitCh, launched, api, ctxDone>>

\* restartAfterBreach reads the wrapper again and asks its process to end ...
MonBreachWrapper(m) ==
    /\ mon[m].pc = "breachWrapper"
    /\ Free
    /\ mon' = [mon EXCEPT ![m].w = svc.wrapper,
                          ![m].pc = IF svc.wrapper = 0 THEN "backoff"
                                                       ELSE "breachStop"]
    /\ Signal(svc.wrapper)
    /\ UNCHANGED <<svc, lock, removed, saved, closed, polling, capturing,
                   exitCh, launched, api, ctxDone>>

\* ... and waits for that without ms.mu.
MonBreachStop(m) ==
    /\ mon[m].pc = "breachStop"
    /\ StopAndClose(mon[m].w)
    /\ MonGoto(m, "backoff")
    /\ UNCHANGED <<svc, lock, removed, saved, closed, polling, capturing,
                   launched, api, ctxDone>>

\* Fault: the result of sleepOrStop is taken the wrong way round.
AfterSleepInverted(m) == IF Stopped(m) \/ ctxDone THEN "restart" ELSE "done"

AfterSleep(m) == IF Stopped(m) \/ ctxDone THEN "done" ELSE "restart"

\* sleepOrStop.  A select that waits is decided by the first event it sees, so
\* the timer wins only while the channel is still open.
MonSleepOrStop(m) ==
    /\ mon[m].pc = "backoff"
    /\ MonGoto(m, AfterSleep(m))
    /\ MonUnchanged /\ UNCHANGED exitCh

\* doRestart cleans up what is attached, then launches: it looks neither at
\* the state nor at the stop channel.
MonRestart(m) ==
    /\ mon[m].pc = "restart"
    /\ Free
    /\ LaunchCanSucceed
    /\ LET p == launched + 1 IN
         /\ Spawn(p)
         /\ svc' = Attached(svc, p)
         /\ capturing' = Replaced(capturing, svc.capture, p)
         /\ polling' = Replaced(polling, svc.resMon, p)
    /\ saveRuntimeState(svc')
    /\ MonGoto(m, "reChannels")
    /\ UNCHANGED <<lock, removed, closed, exitCh, api, ctxDone>>

MonRestartFails(m) ==
    /\ mon[m].pc = "restart"
    /\ Free
    /\ LaunchCanFail
    /\ svc' = [svc EXCEPT !.state = "failed", !.capture = 0, !.resMon = 0]
    /\ capturing' = capturing \ {svc.capture}
    /\ polling' = polling \ {svc.resMon}
    /\ saveRuntimeState(svc')
    /\ MonGoto(m, "done")
    /\ UNCHANGED <<lock, removed, closed, proc, exitCh, launched, api, ctxDone>>

\* The breach channel is always read again, the health channel only after a
\* restart for health.
MonReChannels(m) ==
    /\ mon[m].pc = "reChannels"
    /\ Free
    /\ mon' = [mon EXCEPT ![m].breach = BreachCh,
                          ![m].health = IF mon[m].byHealth THEN svc.health
                                                           ELSE @,
                          ![m].byHealth = FALSE,
                          ![m].pc = "round"]
    /\ MonUnchanged /\ UNCHANGED exitCh

-----------------------------------------------------------------------------
(* The specification.                                                      *)

MonStep(m) ==
    /\ UNCHANGED env
    /\ \/ MonTakeStopChannel(m) \/ MonTakeChannels(m) \/ MonRound(m)
       \/ MonPolicy(m) \/ MonGiveUp(m) \/ MonCleanStop(m) \/ MonSave(m)
       \/ MonCount(m) \/ MonBreachWrapper(m) \/ MonBreachStop(m)
       \/ MonSleepOrStop(m) \/ MonRestart(m) \/ MonRestartFails(m)
       \/ MonReChannels(m)

MonSelect(m) ==
    /\ UNCHANGED env
    /\ \/ MonExit(m) \/ MonBreach(m) \/ MonHealthFail(m) \/ MonTick(m)
       \/ MonStop(m)

CallStep(c) ==
    /\ UNCHANGED env
    /\ \/ StartEnter(c) \/ DepWaitFails(c) \/ DepsMet(c)
       \/ LaunchFails(c) \/ Launch(c)
       \/ StopEnter(c) \/ StopSignal(c) \/ StopFinish(c) \/ StartAgain(c)
       \/ StopAllCheck(c) \/ DetachCheck(c) \/ Detach(c) \/ Shutdown(c)
       \/ UpdateSwap(c)

NewCall(c) ==
    /\ UNCHANGED env
    /\ \/ \E op \in AllOps : Call(c, op)
       \/ UpdateRead(c)
       \/ Remove(c)

ProcStep(p) == UNCHANGED env /\ \E how \in Exited : ProcExit(p, how)

Next ==
    \/ \E c \in Callers : NewCall(c) \/ CallStep(c)
    \/ \E p \in Procs : ProcStep(p) \/ MonStep(p) \/ MonSelect(p)

Spec == Init /\ [][Next]_vars

(***************************************************************************)
(* Fairness.  A goroutine that can run does run, and Go's mutex hands over *)
(* to a waiter that has waited long enough: weak fairness would miss a     *)
(* lock that is taken and released again and again, hence SF for steps     *)
(* that need it.  Select picks uniformly among the ready cases, hence SF   *)
(* for its stop and exit cases.  A killed process ends.  Nobody has to     *)
(* call anything, and no process has to exit, breach or fail by itself.    *)
(***************************************************************************)
Fairness ==
    /\ \A c \in Callers : SF_vars(CallStep(c))
    /\ \A m \in Procs : /\ SF_vars(MonStep(m))
                        /\ SF_vars(MonStop(m) /\ UNCHANGED env)
                        /\ SF_vars(MonExit(m) /\ UNCHANGED env)
    /\ \A p \in Procs : WF_vars(proc[p] = "dying" /\ ProcStep(p))

FairSpec == Spec /\ Fairness

-----------------------------------------------------------------------------
(* Properties that hold whatever the callers, the processes and the        *)
(* monitors do.                                                            *)

\* A service shown as running has a process behind it, and what the API shows
\* (pid) and the store holds (saved) is that process; only a Guardian that has
\* detached its services shows one without (doRestart and startService save
\* under the lock, whoever else is half way through a call).
RunningIsBacked ==
    (svc.state = "running" /\ "update" \notin env.ops) =>
      /\ svc.pid # 0
      /\ saved = [state |-> "running", pid |-> svc.pid]
      /\ \/ svc.wrapper = svc.pid
         \/ /\ svc.wrapper = 0
            /\ \E c \in Callers : api[c].op = "detach"

\* RestartCount never under-reports: every process the monitors launched was
\* counted before (the increment and doRestart are separate critical sections).
Relaunched == {p \in 1..launched : mon[p].pc = "none"}
RestartsAreCounted ==
    "update" \notin env.ops => Cardinality(Relaunched) <= svc.count

\* max_retries when only crashes restart the service: one monitor stays within
\* the limit, and each further monitor passes it by one attempt at most,
\* however their snapshots of the count and their increments interleave.
Monitors == {m \in Procs : mon[m].pc # "none"}
RetryBudget ==
    (/\ env.retries > 0 /\ env.mode = "on_failure"
     /\ ~env.limits /\ ~env.health /\ "update" \notin env.ops)
      => svc.count + 1 <= env.retries + Cardinality(Monitors)

\* Once the lifecycle context is cancelled no process is left running and none
\* is launched again, not even by a call or a backoff that was under way.
ShutdownLeavesNothing == ctxDone => \A p \in Procs : proc[p] \notin Live

\* No service is left starting or stopping for good: it is shown so only while a call
\* waits for its dependencies, is about to launch it or ends its process, however
\* calls and monitors overwrite each other's states (startService gives ms.mu up while
\* it waits, stopService keeps it throughout).
TransientShown ==
    "update" \notin env.ops =>
      /\ svc.state = "starting" =>
           \E c \in Callers : api[c].pc \in {"depWait", "launch"}
      /\ svc.state = "stopping" =>
           \E c \in Callers : api[c].pc \in {"stopSignal", "stopFinish"}

\* A monitor told to stop goes away, whatever it was doing: this is what
\* closing the channel, instead of sending on it, is for (signalStop).
StoppedMonitorEnds ==
    \A m \in Procs :
      (mon[m].pc \notin {"none", "born"} /\ Stopped(m))
        ~> (mon[m].pc = "done")

\* Every call returns: no caller waits for ever for ms.mu or for a process.
CallsReturn ==
    \A c \in Callers :
      (api[c].pc # "idle")
        ~> (api[c].pc \in {"idle", "over"})

-----------------------------------------------------------------------------
(* Properties of calmer environments.                                      *)

\* Processes only end when they are stopped, and a start does not wait.
ApiOnly == /\ env.exits = {} /\ ~env.limits /\ ~env.health /\ ~env.deps
           /\ "update" \notin env.ops

\* The service is never stopped, and a start does not wait.
StartOnly == env.ops = {"start"} /\ ~env.deps

Copies == {p \in Procs : proc[p] \in Live}

\* One of these, or no start but one has succeeded, whatever else happens.
Undisturbed == ApiOnly \/ StartOnly \/ Cardinality(Monitors) <= 1

\* At most one copy of the service runs at any time, and while nobody holds
\* ms.mu it is the one the record is attached to - provided that the monitors
\* have nothing to restart, that nobody stops the service, or that one monitor is
\* all startService has left behind: a second copy takes a second start.
SingleCopy ==
    Undisturbed =>
      /\ Cardinality(Copies) <= 1
      /\ Free => Copies \subseteq {svc.wrapper}

\* A monitor leaves a service nobody stops failed for good with no copy of it
\* left, and for one of two causes only: its retries are used up, or the restart
\* it had counted could not be launched, which is not tried again however many
\* retries are left (doRestart returns false and monitorService returns).
GivesUpForCause ==
    [][\A m \in Procs :
         (/\ StartOnly /\ env.mode # "never"
          /\ MonStep(m) /\ svc.state # "failed" /\ svc'.state = "failed")
           => /\ Copies' = {}
              /\ \/ svc.count >= env.retries /\ env.retries > 0
                 \/ mon[m].pc = "restart" /\ Cardinality(Relaunched) < svc.count]_vars

\* The poller and the log capture of a process end with their place in the
\* record: a restart, a stop and a detach never leave one behind, whoever else is
\* half way through a call.  One is left running only when startService has
\* overwritten it (a start of a service that was not stopped first, because its
\* process ended by itself), since it assigns resourceCancel and Capture without
\* ending what they held; where processes only end when they are stopped,
\* none is.  ("without calling this the goroutine keeps polling a dead PID until
\* the Guardian exits", managed_service.go.)
OverwrittenByStart(p) == p < launched /\ mon[p+1].pc # "none"

WatchersEnd ==
    /\ svc.resMon \in {0, svc.wrapper} /\ svc.capture \in {0, svc.wrapper}
    /\ \A p \in (polling \ {svc.resMon}) \cup (capturing \ {svc.capture}) :
         OverwrittenByStart(p)
    /\ ApiOnly => polling \subseteq {svc.resMon} /\ capturing \subseteq {svc.capture}

\* A crash is answered: nobody stopping the service, the process that crashed
\* is followed by another one or the service ends up failed.
CrashIsAnswered ==
    \A p \in Procs :
      (exitCh[p] = "crash" /\ StartOnly)
        ~> (launched > p \/ svc.state = "failed")

-----------------------------------------------------------------------------
(* What the repository says of the program and the code does not keep.     *)

\* One copy of the service at most, whatever the interleaving: a backoff ends "as
\* soon as the service is asked to stop" (sleepOrStop), and monitors that leave
\* "two copies running" are listed as fixed (CHANGELOG.md).
OneCopy == Cardinality(Copies) <= 1

\* A start never launches a service that was stopped while it waited for its
\* dependencies ("Stop stops a specific service", manager.go).
StartHonoursStop ==
    [][\A c \in Callers : Launch(c) => svc.state # "stopped"]_vars
=============================================================================

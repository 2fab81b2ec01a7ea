# A TLA+ model of the ELNSSM Guardian

ELNSSM replaces NSSM on Windows: one process, the Guardian, starts, watches,
restarts and stops the services described by YAML files, and serves a REST API
and a web interface. This directory holds TLA+ modules for the parts of it that
are hard to test, TLC configurations that check them on small instances, and
theorems with proofs for TLAPS.

    tlc -workers 4 -config LifecycleSafety.cfg ServiceLifecycleMC
    tlapm ServiceLifecycleProofs.tla

## The system

| component | state it keeps | operations | what is hard | what makes it correct |
|---|---|---|---|---|
| **manager** (`internal/manager`) | map of `ManagedService`: config with `State`, `PID`, `RestartCount`; wrapper, capture, health runner, resource monitor; stop channel; `ms.mu` | Add, Remove, Start, Stop, Restart, Update, StopAll, DetachAll, AdoptOrphans, one `monitorService` goroutine per start | every API call, cron job and monitor works on one record; the lock is given up while waiting for dependencies, for a backoff, between two reads | one copy at a time, record = store = process, retry budget, nothing left after shutdown, every call returns |
| **process wrapper** (`internal/process`) | command, job object, one-slot exit channel, `running` | Start, Stop, Close, Detach, Adopt | Stop and the monitor compete for one exit result; a process may ignore its signal | a stopped process is gone, a detached one is not |
| **dependencies** | the graph in the configurations | TopologicalSort, WaitForDependencies | states of other services change while one waits | order respects the graph; only cycles should be refused |
| **Guardian** (`internal/guardian`) | `restart_state.json` | Run, restart with hand-over, adoption | crashes between detaching, writing, launching, adopting, clearing | each process is supervised by at most one Guardian, none is lost |
| **store** (`internal/store`) | bbolt buckets: services, states, events, health, history | save, append, list, prune, downsample | order of keys, bounded histories | what is listed is the newest, nothing live is pruned |
| **health runner** | failure counters, failure channel | Run, Stop, runCheck | Stop before Run, a full channel | one failure per threshold, nothing after Stop |
| **resource monitor** | latest sample, breach channel of 8 | Run, sendBreach | sustained breaches, dropped breaches | no breach without a sustained excess |
| **log streamer** (`internal/logging`) | set of clients, send channels, connection counter | AtConnLimit, Register, Broadcast | two goroutines per client and a hub | no panic, counter exact, limit, slots freed |
| **log capture** | open files | Start, Close, scanning | closed while the process writes | closed with its process |
| **scheduler** | cron entries per service | Add/Update/RemoveService, Stop | jobs race shutdown | jobs of removed services do not run |
| **notifier** | senders, last times, one lock | Dispatch | slow servers under the lock | delivery does not block the manager |
| **SSPI sessions** | pending and complete sessions | GetOrCreate, Complete, Remove, evict | eviction of a session in use | a context is not used once freed |
| **API** | rate-limit windows, configuration | handlers, middleware | windows, concurrent rewrites | the rate promised, no lost update |
| **configuration** (`internal/config`, `handlers_config.go`, `reset_token.go`) | one YAML file, the copy of each process that loaded it, a YAML file per service | Load, Save, update through the API, reset of the token | a save that is cut short, updates that overlap, conversions that lose something | file and copy agree, secrets stay usable and off the disk |
| **cluster** | known slaves | heartbeat, ListSlaves, proxy | ageing of slaves | a silent slave is shown offline |
| **rest of the CLI, Windows service, web, testapp** | - | - | - | - |

How they interact: the API, the scheduler and the Windows service handler call
the manager; the manager calls wrappers, captures, health runners and resource
monitors and receives from their channels in the monitor goroutine; every change
of state is written to the store and sent to the notifier, under `ms.mu`;
captures call the streamer. The Guardian boots and shuts down all of it.
`PROJECT.json` lists every component with its sources and every hazard with the
line where it bites.

## Modules

| module | models | composed with |
|---|---|---|
| `ServiceLifecycle` | one managed service, its processes, monitors and callers | - |
| `ServiceLifecycleMC` | environments and symmetry for TLC | extends `ServiceLifecycle` |
| `ServiceLifecycleProofs` | theorems | extends `ServiceLifecycle`, `TLAPS` |
| `GuardianRestart` | Guardians one after the other: boot, adoption, auto-start, stop, hand-over, crash | `Supervision` |
| `Supervision` | abstract: one process and one supervisor per service | implemented by `GuardianRestart` |
| `GuardianRestartMC`, `GuardianRestartProofs` | environments; theorems | extend `GuardianRestart` |
| `LogStreamer` | the hub, its clients and the broadcasting captures | - |
| `LogStreamerMC`, `LogStreamerProofs` | an instance; theorems | extend `LogStreamer` |
| `Watchers` | health runner, resource monitor and monitor goroutine of a service | - |
| `WatchersMC`, `WatchersProofs` | environments; theorems | extend `Watchers` |
| `ApiServer` | limiter, authentication, sessions, connections, stop of the server | - |
| `ApiServerMC`, `ApiServerProofs` | an instance; theorems | extend `ApiServer` |
| `Settings` | the configuration file and its copies | `Persistence` |
| `Registry` | definitions, their files, the scheduler's jobs, the boot and its sort | `Persistence` |
| `Persistence` | a Guardian that loads its settings, then its services, and may be gone at any time | extends `Settings`, `Registry` |
| `PersistenceMC` | worlds, definitions and graphs for TLC | extends `Persistence` |
| `SettingsProofs`, `RegistryProofs` | theorems | extend `Settings`, `Registry` |
| `PersistenceProofs` | theorems of the composition | extends `Persistence`, `SettingsProofs`, `RegistryProofs` |

### ServiceLifecycle

Services share nothing but the manager's map lock, the scheduler and the
dependency wait, so one service is modelled, with all that acts on it.

| model | code |
|---|---|
| `svc` | the fields of `ManagedService` and of its `Config` that `ms.mu` guards |
| `lock` | `ms.mu`, where a handler holds it over several of its steps; a critical section without a wait inside is one action with the guard `Free` |
| `removed` | the service is gone from `Manager.services` |
| `saved` | what `saveRuntimeState` wrote last |
| `closed` | stop channels closed by `signalStop` |
| `polling`, `capturing` | resource monitor goroutines, open captures |
| `proc`, `exitCh` | the process behind each wrapper, and the result in its exit channel |
| `mon` | where each monitor goroutine is and what it holds: its stop channel, the wrapper of the round, the breach and the health channel |
| `api` | where each caller is |
| `ctxDone` | `Manager.Shutdown` has cancelled the lifecycle context |
| `env` | constants of a behaviour: configuration, the calls made, how processes end |

Each action is a critical section, or the part of a handler between two waits.
A process, its wrapper and its resource monitor carry the launch's number; a stop
channel, a health runner and a monitor carry the number of the start that made
them, so comparing numbers is comparing the pointers of the code.

- Pre-stop hooks run in `StopEnter`, before the stop channel is closed in
  `StopSignal`: other goroutines move in between.
- `Wrapper.Stop` receives the exit result, or times out, or sees a process
  already known to have ended; `Close` then kills whatever is left. The end of a
  killed process is a separate step.
- `MonExit` joins the receive with the test of the stop channel, and
  `MonSleepOrStop` decides a select by its first event.
- A call that was told to stop the health runner waits for its loops (manager.go:634-637);
  here that wait is over at once, and `Watchers` shows that it ends.
- An update installs its copy or, when a save fails, nothing.
- Breaches and health failures may come whenever their channel exists
  (more often than the real thresholds would let them).
- `LastError`, times, uptime, events, notifications and failed writes to the
  store are not modelled, nor is a restart mode other than the three documented
  (the code then allows ten attempts).
- Bounds: `MaxLaunches` processes per behaviour (`env.launches`; launches beyond
  it fail, as launches may), `env.inFlight` calls at a time. Callers make any
  number of calls.

Environments (`ServiceLifecycleMC`) combine only what interferes, so that each
gets the launches it needs: two callers that start, stop and restart a service
that never ends by itself; the same with crashes, clean exits and dependencies;
three launches with one call at a time for a monitor that outlives its stop;
breaches and health failures; StopAll and DetachAll with everything else under
way; update; removal; and a service left alone to use up its retries.

### GuardianRestart

Several services, from one Guardian to the next. What `ServiceLifecycle` takes
apart is one step here for a start and a restart by a monitor. A stop has two, between
which it holds the lock of its service (`stopService`, `StopEnds`), and so has a monitor
that gives up, which lets go of the lock in between (`MonitorGivesUp`, `MonitorSaves`).

| model | code |
|---|---|
| `phase` | where `Guardian.Run` is, from reading the restart file to closing the store; `off` between two Guardians |
| `restartMode` | `Guardian.restartMode`, set by the API |
| `rec` | state and wrapper of each `ManagedService`, and the context of its monitor |
| `saved`, `file` | the runtime states in the store; `restart_state.json`, absent, torn or whole |
| `toStart` | goroutines of `AutoStart` that have not started their service |
| `awaited`, `unsaved` | services whose stop `StopAll` waits for; services a monitor has given up and not saved yet |
| `todo`, `orphans` | what is left of the loop of `AdoptOrphans`, `DetachAll` or `StopAll`, each treating one service at a time; the map of process ids |
| `alive`, `owner`, `tied` | processes, their services, and the context their command was created with |
| `doomed` | processes whose context is cancelled: os/exec kills them, in a step of its own (`Kill`) |
| `env` | which calls, failures and crashes happen, and whether the Guardian may be gone before those kills (`hasty`) |

- A process launched by `startService` runs under the manager's context. The
  monitor of an adopted service runs under that of `Run`, and so does what it
  launches: `StopGuardian` cancels it at once, `Shutdown` the other.
- `Boot` is `New` with `LoadAll`; a service without saved state has the empty
  string for a state (`none`), as the store returns a zero value.
- A delayed automatic start may sleep through the end of the Guardian, or have been woken
  just before and start its service while it ends; `StopGuardian` chooses.
- A failed write may leave the file truncated, which reads as no orphans.
- Not modelled: a process id reused by another program, a Guardian stopped before
  its API is up, the limit of 60 seconds on the shutdown, services added or
  removed.
- Bounds: `MaxProcs` launches and `MaxBoots` Guardians in a behaviour. A launch
  beyond the bound fails, as launches may.

`Supervision` promises: a new process for a service only when there is none, and
one supervisor, who may let go of it and take it up again. `copies` maps to the
live processes of each service, `held` to those a record of the present Guardian
has attached. The promise is kept in `Calm` environments; the code does not keep
it when calls are made during a boot (the scheduler is started before the
adoption), when it is killed while it runs services, or when it is killed in an
adoption in which a process was already replaced.

### LogStreamer

| model | code |
|---|---|
| `handler` | where the HTTP handler of a connection is: before `AtConnLimit`, before `Register`, before the hand-over to the hub |
| `active` | `activeStreamConns` |
| `clients`, `queue`, `closed` | the hub's map; the lines in each `send` channel; channels closed by the hub |
| `writer`, `reader` | the two goroutines `Register` starts |
| `socket` | what reads and writes on the connection meet |
| `panicked` | a send on, or a close of, a closed channel: the Guardian would go down |

The hub receives in one step (`AtSelect`, `received`), which lets the sender go on, and
takes the lock and acts in another (`HubServes`): broadcasts, and what a client's
goroutines do next, come in between. A broadcast is one step under the read lock. The capacity of 256 and the limit of 50 are constants.
`handleStreamEvents` registers a client for service `*` and stream `events`,
which no broadcast ever matches (handlers_logs.go:133, streamer.go:134-139): the
event stream stays silent. In the model it is one more client without a source.

### Watchers

What `ServiceLifecycle` lets happen at any time - a failing check, a breach - is
here computed, and who may start and stop the service when is left to that module.

| model | code |
|---|---|
| `service`, `pid`, `alive` | the state of the service and its process; a process is told from the one before |
| `monitor`, `listening` | the monitor goroutine: watching, waiting to restart, or gone; the breach channel it has is that of the present resource monitor |
| `runner` | `Runner`: whether `Run` has been scheduled and its context cancelled, the loops, the failures in a row of each check, `HealthFailures` with the process each report is of |
| `rm` | `ResourceMonitor`: intervals since its start, baseline, CPU window, breaches in the channel |

`hotFor` says for how long all samples have been above the CPU limit; the code does
not have it, and `BreachesAreReal` compares the verdict of the window with it.
Time passes in check intervals; a second reading of the clock may be later than
the sample by `lag`. `env` says what is wrong with the service, and what else may
happen; `env.late` lets a stop come before `Run` was scheduled.

### ApiServer

| model | code |
|---|---|
| `conn`, `request` | the connections, by `r.RemoteAddr`, and how far the one request of each is in the middleware |
| `stored`, `session` | `SessionStore.sessions`; a session that was taken out lives on in the request that holds it |
| `live` | security contexts not deleted |
| `store`, `phase` | `Server.sspiStore` and the server |
| `bucket`, `admitted` | `RateLimiter.clients`; the requests let through in this half minute and the last |
| `client` | what the client was told last |
| `misused`, `freedTwice` | SSPI was called with something that is freed |

Half minutes are counted, the interval of the clean-up. `env` combines the
settings of the server with what makes handshakes go out of step: a client that
negotiates again, an SSPI call that takes over a minute, an unexpected status, a
server that stops under its requests.

### Settings, Registry, Persistence

| model | code |
|---|---|
| `disk` | the configuration file: secrets in the clear and encrypted, the token's hash, whole or cut off |
| `memory` | the `Config` of the Guardian and of `reset-token` |
| `at`, `bytes` | where each of them, and each update, is; what its save has marshalled |
| `update`, `aside` | what an update has still to apply; the secrets it put aside |
| `files`, `bucket`, `saved` | service files (whole, or torn in three ways), the services bucket, the runtime states |
| `held`, `definition`, `state`, `jobs`, `ticking` | `Manager.services`; the scheduler's entries, counted, and whether it runs |
| `op` | the addition or update that holds the manager's lock, and the step it is at |
| `found` | callers that have looked a service up and not yet started it |
| `sort` | in-degrees, queue and result of `TopologicalSort` |
| `astray` | services whose file says something else for a known reason |

A service's definition has the fields that are converted differently each:
`ServiceToYAML` and `ToService` are operators on it, with the byte sizes computed
as the code does (`Kilo` stands for 1024). The Guardian reads its configuration,
then its services; `Leave` is its end, in an orderly way or not, after which
both are read again. `os.WriteFile` is two steps: it empties the file, then writes it.
What a configuration file has when its write is cut off is nothing, or the part with
the token's hash, which is written before every secret (config.go:20-33): that file is
usable, and the Guardian that loads it has lost its secrets without a word.
A dependency or a schedule that is listed twice counts once; in the code a schedule that
is listed twice has two cron entries.

- A configuration that cannot be used does not stop the Guardian (serve.go:27-31):
  it runs on the defaults, without secrets and without a token, and its next
  update overwrites the file.
- `reset-token` writes the secrets in the clear, as they were decrypted, and a
  Guardian that runs does not notice: its next update brings the old hash back.
- While an update saves, the secrets in memory are empty for everyone else.
- `interpreter` has no field in `ServiceConfigYAML` and is lost when a file is loaded,
  although model/service.go:91-94 gives it a YAML tag and configs/service.example.yaml:57
  and CHANGELOG.md:27-28 document it. `DefinitionsMatch` excepts it; sizes are rounded to
  a tenth of a unit.
- A start fills in a missing `WorkingDir` in the definition that is held
  (manager.go:488-491) and saves it nowhere: manager and file differ from then on, until
  an update writes what a client was shown. `DefinitionsMatch` excepts that too, and
  nothing else.
- A service that needs a name nobody has is never popped, and `TopologicalSort` reports
  the "circular dependency" of dependencies.go:63-65 for a graph without one: `StartOrder`
  names the case (`NeedsStranger`). `AutoStart` then starts no service at all; otherwise
  it starts each in a goroutine of its own (manager.go:120-155), so that the order of
  manager.go:103 is the order in which goroutines are made, and only the waits for
  dependencies keep the services in order.

## Runs

| run | expects | what it shows |
|---|---|---|
| `lifecycle_safety` | pass | eight invariants and an action property over nine environments (2.2 million states) |
| `lifecycle_progress` | pass | stopped monitors end, calls return, crashes are answered |
| `log_streamer` | pass | the hub's invariants over every moment between a receive and its effect (168 thousand states), and that a lost viewer gives its slot back |
| `guardian_restart` | pass | two services and three Guardians: everything a Guardian that ends leaves is being killed or on the file, everything is supervised while one is up, and `Supervision` is implemented (2.6 million states) |
| `watchers` | pass | breaches are real, an ailing service is restarted again and again, a stop returns (61 thousand states, two liveness properties) |
| `api_server` | pass | contexts are owned and freed once, sessions are administrators', clients keep theirs, the rate is bounded (264 thousand states, one liveness property) |
| `persistence` | pass | the configuration and the services through updates, failed writes and crashes; the sort on every graph of three services (1.8 million states) |
| `two_copies` | violation | two copies of a service |
| `lost_stop` | violation | a start forgets a stop it raced |
| `hand_over` | violation | a restart of the Guardian kills its services |
| `guardian_recovery` | violation | after a crash, services shown as running have nothing attached |
| `removed_returns` | violation | a service that was removed is loaded again at the next start |

The bounds: two callers are enough for every pair of calls to race and symmetry
makes them interchangeable; two launches let one process follow another, three
let an overlapping monitor launch beside its successor, and four let the retry
limit of two be reached and passed. Three connections with a limit of one and two
handlers let the limit be passed, and a third viewer be refused or admitted after
a slot is freed; a channel of two lines fills and overflows.
Three Guardians let a hand-over be followed by an adoption and that by another end;
three processes let one of two services that run be replaced. Its five environments are
a Guardian with calls at every moment, an orderly one whose file may fail to be written,
hand-overs that succeed with kills around them, the same with kills during the
adoption, and one that has adopted processes and cannot write the file. One service starts at once
and one after its delay, so that a start may still be due at any step of a
shutdown.
Two checks with two retries and a channel of two let reports overflow and one check
hide another's success; a window of two intervals over a grace period of one lets
samples be cut, missed and restarted; sizes 0, 1 and 3 are below, at and above
the limit, and the last a spike of the first that counts. Two connections of one
address, a rate of two and three contexts let a context be leaked and the next be
made, and windows meet in a minute. Two overlapping updates with two secrets that are
cleared and one that is kept show every way they can mix; since the settings and the
services share no step, `PersistenceMC` exercises one of them at a time. All
4096 graphs of three services and a stranger are sorted, the maps walked in every
order.
Liveness of the lifecycle is checked with one caller and three environments: contention for
`ms.mu`, a stop at any point of a restart, and a crash loop. Deadlock is not
checked, since the Guardian may be idle and the bounds let behaviours end.

`SingleCopy` and `GivesUpForCause` are stated for calmer environments, where they
hold; `OneCopy` is the same statement without that restriction, and fails. The
restriction (`Undisturbed`) is that the monitors have nothing to restart, or that
nobody stops the service, or that only one start has succeeded so far: the third
is a condition on the past and not on the environment, and with it `SingleCopy`
says of every environment that a second copy takes a second start. `TransientShown`
excludes updates, which put back the state they have copied (manager.go:450).
`GivesUpForCause` has two causes: the retries are used up, or the restart that was
counted could not be launched, after which `doRestart` returns false and the monitor
ends however many retries are left (manager.go:697-702, 809-811).

`WatchersEnd` says which goroutine or open capture may outlive its place in the record:
only one that a start has overwritten. A service whose process ended by itself is
"stopped" or "failed" with its resource monitor still attached (manager.go:853-861), and
the next `startService` assigns `resourceCancel` and `Capture` without ending what they
held (559, 597). So the poller of the dead process runs until the Guardian ends,
which managed_service.go:26-30 warns of and CHANGELOG.md:41-42 lists as fixed; it was,
for the restart, the stop and the detachment.

`NoneLeftBehind` speaks of the moment a Guardian has cancelled its contexts, and says
that what it launched, adopted or detached is being killed or is on the file. It does not say
that the kills are over when `Run` returns, since nothing waits for them, nor that what is
handed over lives, which `hand_over` refutes. After a failed write it leaves out what was
detached: a process that had been adopted runs on in no list then, while guardian.go:139
logs "killing processes instead".

**Findings.** The counterexamples of the five failing runs:

1. `two_copies`: the process crashes and its monitor waits out the backoff. A stop
   sets the state and runs its pre-stop hook under `ms.mu`; the timer fires, and
   `doRestart` waits for `ms.mu`. The stop finishes, the service is started
   again, and `doRestart`, which looks at neither the state nor the stop channel,
   launches a second process and takes the record over: the first runs on with
   nobody to stop it.
2. `lost_stop`: `startService` waits for dependencies without `ms.mu`; a stop
   finds "starting", sets "stopped" and returns. The start goes on and launches.
3. `hand_over`: `Wrapper.Detach` calls the cancel function of the context its command
   was created with, and os/exec kills the command's process; the context above it
   is cancelled by `Shutdown` moments later. The successor finds nothing to adopt.
   Adoption works only for a Guardian that is gone before its kills are carried
   out, which `env.hasty` allows, so that the rest of the hand-over is checked too.
4. `guardian_recovery`: the Guardian is killed while a service runs. The next one loads
   the state "running", and neither auto-start nor a call starts it.
5. `removed_returns`: `Manager.Remove` deletes the service from the bucket, the map and
   the scheduler. `LoadAll` reads the YAML files, which nothing deletes.

The passing runs exclude by name what would break them: the environments in which
`StatusTrue` (a start or an exit during an update or a removal), `SecretsUsable`
(overlapping updates), `ContextsOwned` (a second handshake, an unexpected status) and
`StopReturns` (a stop before `Run` was scheduled) fail are part of the same runs,
and the condition in the property says so. `AilingIsRestarted` holds
whatever the retry limit: neither `restartAfterBreach` nor a failing check looks at
`MaxRetries`. The health runner outlives a restart that fails, and `startService`
replaces it without stopping it (manager.go:577).

## Fairness

`ServiceLifecycle`: strong fairness for the steps of callers and monitors - Go
schedules every goroutine that can run, and its mutex hands itself to a waiter
that has starved for a millisecond - and, since `select` picks at random among
the ready cases, for the stop and the exit case of a monitor's select. Weak
fairness for the end of a killed process. No call, no exit by itself, no breach
and no health failure is ever assumed to happen.

`GuardianRestart` has safety properties only.

`Watchers`: weak fairness for goroutines that can go on, tickers and delays.
Which of its channels the monitor reads is not fair: it is enough that it reads one.

`ApiServer`: weak fairness for the clean-up, the passing of time, the steps of a
request's handler, and for the closing of idle connections once the server
stops. No client has to do anything.

`Settings`, `Registry` and `Persistence` have safety properties only.

`LogStreamer`: weak fairness for the hub, for the hand-over to it and for the two
goroutines of a client: the senders of a channel are served in order, and the channels of
a `select` at random. A write that blocks fails after ten seconds
(streamer.go:101). Nobody has to connect, disconnect or log.

## Proofs

`ServiceLifecycleProofs`, from `EnvironmentAssumption` (constants of the right
types) and for any number of callers, launches and environments:

- `TypeCorrect`: `Spec => []TypeOK`.
- `WatchersCorrect`, `RunningCorrect`, `ShutdownCorrect`, `TransientCorrect`: the
  invariants `WatchersEnd`, `RunningIsBacked`, `ShutdownLeavesNothing` and
  `TransientShown`. `StopCorrect`: a stop that finishes leaves no process attached
  (`StopEndsProcess`, stated beside its proof).

`WatchersEnd` rests on `AttachmentsMatch` (the references of the record belong to one
launch) and on `WatchersLeft`, which names for every poller and capture that is not the
record's the start that overwrote it. `AttachmentsMatch` and `RunningIsBacked` are not
inductive: a handler that holds
`ms.mu` over several actions leaves the record half updated. `RecordInv` adds what
the lock protects: whoever is in such a section holds the lock and only he does
(`LockHeldByHolder`), a caller that has forgotten the watchers shows so in the
record (`StopForgot`), the state is "stopping" or "starting" meanwhile
(`StopShown`), and every caller that is shutting the Guardian down is known by its
operation (`CallsNamed`). TLC checked `RecordInv` as an invariant before it was
proved. `ShutdownLeavesNothing` is inductive with `TypeOK`: the context is
cancelled together with the kill, and no launch succeeds afterwards.
`StopEndsProcess` follows from `StopFinish` alone; `TransientShown` is inductive with
`RecordInv`.

- `RestartsCorrect` and `RetriesCorrect`: `RestartsAreCounted` and `RetryBudget`. Both
  need the attempts under way: `AttemptsCounted` counts the monitors that have counted
  their attempt and not launched yet together with the processes launched by monitors,
  and `WithinBudget` adds to the count the monitors that have been allowed an attempt
  and not counted it. The number of elements of a set changes by one at most where one
  monitor moves, which is all that the finite-set theorems are needed for.
- `SingleCopyCorrect`: `SingleCopy`, from three invariants, one for each of its
  conditions. `QuietInv`, where only calls launch: a service that is not running nor
  being stopped has no wrapper, and what is live is the wrapper's. `AloneInv`, where
  nobody stops the service: it is started only when it is not running, and a monitor
  that answers an end finds no copy. `SoleInv`, while there has been one monitor: before
  it nothing runs, and what runs is what it or the start that made it attached; when it
  answers the end of its process, that was the only one. After `Manager.Shutdown` the
  first gives way to `ShutdownLeavesNothing`.
- `LifecyclePromised`: as long as the service is undisturbed, every step of its calls,
  monitors and processes is one of `Supervision` for this one service, or a stutter. The
  specification that `GuardianRestart` implements with coarse starts and stops is
  implemented by the fine ones too.
- `CallsAdvanceCorrect`: the steps of a call are ranked, no other goroutine moves it and
  its own steps go down, so that it takes eight at most. `CallsReturn` adds to this that
  it does not wait for ever.
- `StoppedGoesOnCorrect`: the same for a monitor that was told to stop, except that its
  select may go on taking samples; it comes through a restart once more at most.
- `EndIsAnsweredCorrect`, from `AloneInv` and `AnswerInv`: where nobody stops the service,
  a monitor is at work as long as it is shown as running, and what it waits for is alive
  or has left its result. The result is taken only by whoever answers it.
- `StopsHonouredCorrect`: what holds of `StartHonoursStop`, which `lost_stop` refutes.
  Where a start has no dependencies to wait for and no update puts an old record back, it
  launches only what is still "starting" (`StopsAreHonoured`): `startService` keeps
  `ms.mu` from its look at the state to the launch, and whoever changes the state
  meanwhile would need it (`StartingHeld`, inductive with `RecordInv`).
- `GivesUpCorrect`: the action property `GivesUpForCause`, from `AloneInv`, which says what
  a monitor found when it decided to give up, and from the count of attempts, by which one
  that fails to launch was counted and not made.

`GuardianRestartProofs`, from `GuardianAssumption`, for any services, bounds and
environments: `TypeCorrect`, and `NobodyLeftBehind` for `NoneLeftBehind`. Its inductive
invariant has three parts (`ChargesInv`): what was launched under a context that is
cancelled is being killed; what was adopted is shown as running or is being stopped, and
is still on the list of whoever ends the Guardian; and what was detached is in the file
once that is written. `TetheredInv` is used for calm boots only.

`BootCorrect` and `SupervisionImplemented` prove `BootRecoversAll` and
`ImplementsSupervision`. `OwnedInv` says that a process number, wherever it is written
down, is that of a process launched for that service. `CalmInv` says, in calm
environments, where each process is to be found (`Known`: in the file, in the map of
orphans or in the record, depending on the phase, so that a service has one at most),
that none is lost, and what of it is still to be treated in each phase of a boot
(`BootingInv`) and of an end (`EndingInv`). A launch then happens only where there is no
process (`NobodyThere`). For the refinement each action is one lemma's case: an
adoption takes up, a launch launches, a stop or an exit ends, a detachment, an exit of
the Guardian or a kill releases, and the rest stutters.

- `PromiseIsEnough` and `OneProcessCorrect`: `Supervision` implies that a service has
  one process at most (`OneCopy`), and the Guardian in calm environments keeps it.
- `NeverMixedUpCorrect`, in every environment, from `OwnedInv`: no process is in the
  records, the file or the map of orphans for two services.
- `StoreCorrect`, in every environment: the saved state is "running" exactly when that of
  the record is (`StoreTellsRunning`, inductive with `TypeOK`), except while a stop that has
  begun holds the lock and while a monitor has given the service up and not saved that. So,
  those windows apart, what the next Guardian
  loads is what was shown, and the fault behind `guardian_recovery` is in what is made of
  it, not in what is saved.
- `AdoptedContinueCorrect`: what holds of `ChildrenContinue`, which `hand_over` refutes.
  No context of a Guardian reaches the processes it adopted (`Adopt` gives their command
  none), so that one that is handed over again is alive when the Guardian is gone, unless
  it ends by itself (`AdoptedContinue`). `AdoptedInv` follows it from the record to the
  map of orphans; that a call to stop another service does not end it is `OwnedInv`.

`LogStreamerProofs`, from `StreamerAssumption`, for any finite set of connections:
`TypeCorrect`, `NeverPanics`, `NoStaleClients`, `SlotsCountedOnce`,
`OvershootBounded`. `ClientInv` strengthens the first group with: a connection
whose handler has not handed it over has no goroutines and is unknown to the hub;
what the hub has received of a client says where its goroutines are (`InHand`);
and no client of the hub is closed. `OvershootBounded` needs the lead of the check
on the count: the slots taken plus the requests that have passed the check stay
below the limit plus the number of handlers (`Advance`).

`NobodyForgottenCorrect` and `DrainingCorrect` are what `DisconnectFreesSlot` rests on
besides fairness: once registered, a client is in the hub or its channel is closed, and
when its reader or its writer has gone the channel is closed or the hub has the removal
in hand; a closed channel stays closed and out of the hub, nothing is
added to it, and each step of its writer uses up one of `Capacity` + 3.

`WatchersProofs`, from `WatchersAssumption`: `TypeCorrect` and `BreachesCorrect`. A CPU
breach is real because the window never holds a sample older than the duration plus
one, its samples are in order of age, and all of them were hot for as long as the
oldest has its age; a breach is of the present process because a new resource
monitor, with a new channel, is made with each.

`Attended` is a second inductive invariant: there is a monitor goroutine for a running
service and for no other, only a stop cancels a runner, and loops belong to a runner that
was started. From it, `RunningWatchedCorrect`: a running service has a monitor that hears
its present resource monitor and a runner that is not cancelled; `StopsAreToldCorrect`: a
stop waits for loops that were told to end, their set only shrinks, and it is over when
it is empty; and with the types, `FailuresCountCorrect`: a check that always fails counts
up to its limit, through restarts too. `AilingIsRestarted` and `StopReturns` add the
fairness of loops and tickers.

`ApiServerProofs`, from `ServerAssumption`, for any connections, contexts and
rates. `RateBounded` needs to know which window a bucket was opened in and that what
was admitted in it is what the bucket lost (`LimiterInv`); a bucket that `cleanup`
forgets is older than what still counts. The rest follows from `HandshakeInv`: whose
each context is while a handshake is between two of its steps (`Own`, `Alive`,
`Tidy`), and how old a session may be at each of them. Theorems: `TypeCorrect`,
`ContextsAreOwned`, `ContextsFreedOnce`, `HandlesAreFresh`, `SessionsAdmin`,
`ClientsAreKept`, and, in every environment, `ContextsApartCorrect`: two connections share
no context. `Reach` adds the life of the store: a session is in an open store, where the
clean-up finds it, or a request that outlived the store has it in hand
(`SessionsInReachCorrect`, which `AbandonedHandshakesEnd` needs); and in calm environments
a stopped server has neither sessions nor contexts left (`StopFreesAllCorrect`).

`SettingsProofs`, from `SettingsAssumption`, for any secrets, orders and worlds:
`TypeCorrect`, `SecretsAreUsable`, `FileIsRight`. `SecretsInv` and `FileInv` say what
holds between an update's steps and after a write that was cut off (`CutOffs`): what it has put aside is what is on record, what it
is writing is the memory without the secrets it cleared, and a token that was reset is
wherever the file may be read from. `NoPlaintextCorrect` covers the worlds in which
`FileMatches` says nothing, those where DPAPI or the disk fails or the Guardian is
killed: whatever a Guardian or one of its updates marshals and writes has the secrets that
updates clear empty or encrypted (`PlainInv`). Updates that overlap are excluded, and
`reset-token`, which does write them in the clear.

`RegistryProofs`, from `RegistryAssumption` and `InstallationAssumption`, for any
services, definitions and graphs, and a `Kilo` from 3 on: `RegistryTypes`,
`DefinitionsCorrect`, `StatusCorrect`, `OrderCorrect`, `SizesAreKept`,
`SettlingIsFinal`, `SortEnds`.

- A definition that was written and read is written and read as it is
  (`DefinitionSettles`), and one that YAML can express was so before
  (`ExpressibleSettles`). Both rest on the sizes: `FormatFits` says what
  `formatByteSize` writes, a rounding up to the next unit included, and
  `FormatParsed` that it is read as the size that was written. Of any size at all,
  `SizesAreKept` bounds what is lost of it, from `RoundedNear`, and `SettlingIsFinal` says
  of any definition that it loses something once at most, and what it never loses.
- A directory that was filled in is neither lost in YAML nor mistaken for one that was
  given (`FilledSettles`, `FilledAgrees`), so that starts keep `Agree`: what is held is
  what the file says, or what it says once the directory is filled in.
- `Matching` strengthens `DefinitionsMatch` to the middle of an operation: whose
  file is being written is astray, and once it is written it is that of the new
  definition. `Truthful` adds the state an update has copied.
- `Counted` is the invariant of the sort: a degree is the number of dependencies not
  sorted yet, those of degree 0 are queued or sorted, each once, and what is sorted
  comes after what it needs. When the queue is empty and somebody is missing, each of
  the missing needs another missing one or a stranger, so no order has a first
  missing service (`NoOrder`). `SortEnds` follows from the same invariant: a sort
  without a verdict has a service queued that is not sorted yet.

`PersistenceProofs`: the composition implements each of its parts
(`ImplementsSettings`, `ImplementsRegistry`), so that their theorems hold of it
(`TypesCorrect`, `KeptTogether`). The invariant is that a Guardian which has begun to
load its services has its settings.

Only model-checked: the liveness properties (`StoppedMonitorEnds`, `CallsReturn`,
`CrashIsAnswered`, `DisconnectFreesSlot`, `AbandonedHandshakesEnd`, `AilingIsRestarted`,
`StopReturns`), which rest on fairness and ENABLED, and the counterexamples. Of each the
part that is safety is proved, as said above: what is waited for can still come, and no
step but those named leads away from it. Every invariant and action property of a
passing run is a theorem. The strengthened invariants, and the properties that stand
beside their proof and not in a run, were checked by TLC on the instances of the runs
before they were proved. No module has a RECURSIVE operator.

## Not modelled

- **Host monitor, notifier, backoff length, latest samples, `LastError`, uptime**:
  values for display, or times, on which no decision depends.
- **Cluster** (`internal/cluster`): heartbeats and a table of their times. A module
  of its own would be the next one.
- **Histories of the store** (events, health, metrics): the keys are times written
  as text, and their order is that of the text, digit by digit.
- **`isDependencyMet`**: reads another service's state; `ServiceLifecycle` lets the
  wait end either way at any time, which includes what it returns.
- **Configuration watcher**: no other code uses it.
- **Stop of the scheduler**: it waits for running jobs, each of which is a call as in
  `ServiceLifecycle`.
- **Windows service, event log, web interface, test application, installer, probes
  and senders**: I/O.

## Plan

Done: the lifecycle, the Guardian from boot to boot, the hub, the watchers, the API
server, the settings, the registry and their composition, with every invariant and
action property proved, two components shown to implement `Supervision`, the safety
halves of all liveness properties, and for a start and for a hand-over the conditions
under which what the repository says of them does hold.
Left to model: the cluster and the histories of the store.

--------------------------- MODULE GuardianRestart ---------------------------
(***************************************************************************)
(* The Guardian from one start to the next: what it reads back when it     *)
(* boots, the services it starts by itself, the two ways it ends (stopping *)
(* its services, or detaching them for a successor to adopt), and crashes. *)
(* What a service does in between is ServiceLifecycle's subject: a start   *)
(* and a restart by a monitor are single steps here; a stop, which holds   *)
(* the service's lock all along, and a monitor that gives up have two.     *)
(***************************************************************************)
EXTENDS Naturals, FiniteSets

CONSTANTS Services, NoService,
          AutoStarted,   \* services with an automatic startup type
          Delayed,       \* those of them that start after a delay
          MaxProcs,      \* bound: processes ever launched
          MaxBoots,      \* bound: starts of the Guardian
          Environments   \* the circumstances to consider

Procs     == 1..MaxProcs
ProcOrNil == 0..MaxProcs

Phases == {"off", "read", "adopt", "up", "detach", "stopAll", "cancel", "closing"}

Environment ==
    [callsIn    : SUBSET Phases,  \* when services are started and stopped by calls
     restarts   : BOOLEAN,        \* the API's restart is used
     writeFails : BOOLEAN,        \* writing the restart file may fail
     crashesIn  : SUBSET Phases,  \* when the Guardian may be killed
     exits      : BOOLEAN,        \* processes may end by themselves
     settled    : BOOLEAN,        \* no stop before every automatic start is over,
                                  \* no end before every monitor has saved
     hasty      : BOOLEAN]        \* the Guardian may be gone before os/exec kills

ASSUME GuardianAssumption ==
    /\ NoService \notin Services
    /\ Delayed \subseteq AutoStarted /\ AutoStarted \subseteq Services
    /\ MaxProcs \in Nat /\ MaxBoots \in Nat
    /\ Environments \subseteq Environment

VARIABLES
    env,
    phase,        \* where Guardian.Run is
    restartMode,  \* the next end is a hand-over
    boots,        \* starts so far
    rec,          \* the ManagedService records, as far as they matter here
    toStart,      \* AutoStart goroutines that have not called startService
    todo,         \* services the loop of this phase has still to treat
    orphans,      \* the map DetachAll builds and AdoptOrphans is given
    awaited,      \* services StopAll is stopping
    unsaved,      \* services a monitor has given up and not saved yet
    saved,        \* the states in the store
    file,         \* restart_state.json
    launched, owner,
    alive,        \* processes that run
    tied,         \* the context each process of this Guardian runs under
    doomed        \* live processes whose context is cancelled

vars == <<env, phase, restartMode, boots, rec, toStart, todo, orphans, awaited,
          unsaved, saved, file, launched, owner, alive, tied, doomed>>

States   == {"none", "stopped", "running", "failed"}   \* what may be saved
Contexts == {"none", "manager", "run"}

\* monitor: the context the service's monitor goroutine runs under.
Record == [state : States \cup {"stopping"}, wrapper : ProcOrNil,
           monitor : Contexts]
File   == [kind : {"absent", "torn", "whole"}, orphans : [Services -> ProcOrNil]]

TypeOK ==
    /\ env \in Environments
    /\ phase \in Phases
    /\ restartMode \in BOOLEAN
    /\ boots \in 0..MaxBoots
    /\ rec \in [Services -> Record]
    /\ toStart \in SUBSET AutoStarted
    /\ todo \in SUBSET Services
    /\ orphans \in [Services -> ProcOrNil]
    /\ awaited \in SUBSET Services /\ unsaved \in SUBSET Services
    /\ saved \in [Services -> States]
    /\ file \in File
    /\ launched \in ProcOrNil
    /\ owner \in [Procs -> Services \cup {NoService}]
    /\ alive \in SUBSET Procs
    /\ tied \in [Procs -> Contexts]
    /\ doomed \in SUBSET alive

NoOrphans == [s \in Services |-> 0]
NoFile    == [kind |-> "absent", orphans |-> NoOrphans]
TornFile  == [kind |-> "torn", orphans |-> NoOrphans]

Init ==
    /\ env \in Environments
    /\ phase = "off" /\ restartMode = FALSE /\ boots = 0
    /\ rec = [s \in Services |-> [state |-> "none", wrapper |-> 0,
                                  monitor |-> "none"]]
    /\ toStart = {} /\ todo = {} /\ orphans = NoOrphans
    /\ awaited = {} /\ unsaved = {}
    /\ saved = [s \in Services |-> "none"]
    /\ file = NoFile
    /\ launched = 0
    /\ owner = [p \in Procs |-> NoService]
    /\ alive = {} /\ doomed = {}
    /\ tied = [p \in Procs |-> "none"]

-----------------------------------------------------------------------------
(* Booting.                                                                *)

\* The map in the file, empty when there is none or it cannot be parsed.
ReadOrphans == file.orphans
Listed(map) == {s \in Services : map[s] # 0}

Running == {s \in Services : rec[s].state = "running"}

\* The lock of a service, which a stop holds from its first step to its last.
\* Whoever lists the services waits for the lock of each.
Free(s) == rec[s].state # "stopping"
AllFree == \A s \in Services : Free(s)

\* New and LoadAll: the records take over the states of the store, with nothing
\* attached to them.  From here on the scheduler may call.
Boot ==
    /\ phase = "off" /\ boots < MaxBoots
    /\ boots' = boots + 1
    /\ phase' = "read"
    /\ restartMode' = FALSE
    /\ rec' = [s \in Services |-> [state |-> saved[s], wrapper |-> 0,
                                   monitor |-> "none"]]
    /\ UNCHANGED <<env, toStart, todo, orphans, awaited, unsaved, saved, file,
                   launched, owner, alive, tied, doomed>>

\* Either orphans are adopted or services are started, not both.
ReadRestartState ==
    /\ phase = "read"
    /\ orphans' = ReadOrphans
    /\ todo' = Listed(ReadOrphans)
    /\ IF Listed(ReadOrphans) # {}
       THEN phase' = "adopt" /\ UNCHANGED toStart
       ELSE phase' = "up" /\ toStart' = AutoStarted
    /\ UNCHANGED <<env, restartMode, boots, rec, awaited, unsaved, saved, file,
                   launched, owner, alive, tied, doomed>>

\* Fault: the record is not told.
AdoptSilently(s) ==
    /\ phase = "adopt" /\ s \in todo /\ Free(s)
    /\ todo' = todo \ {s}
    /\ rec' = [rec EXCEPT ![s].wrapper = orphans[s], ![s].state = "stopped"]
    /\ saved' = [saved EXCEPT ![s] = "running"]
    /\ UNCHANGED <<env, phase, restartMode, boots, toStart, orphans, awaited,
                   unsaved, file, launched, owner, alive, tied, doomed>>

\* Wrapper.Adopt succeeds if the process is there.  Its monitor runs under the
\* context of Run, not the manager's.
Adopt(s) ==
    /\ phase = "adopt" /\ s \in todo /\ Free(s)
    /\ todo' = todo \ {s}
    /\ IF orphans[s] \in alive
       THEN /\ rec' = [rec EXCEPT ![s] = [state |-> "running",
                                          wrapper |-> orphans[s],
                                          monitor |-> "run"]]
            /\ saved' = [saved EXCEPT ![s] = "running"]
       ELSE /\ rec' = [rec EXCEPT ![s].state = "stopped"]
            /\ saved' = [saved EXCEPT ![s] = "stopped"]
    /\ UNCHANGED <<env, phase, restartMode, boots, toStart, orphans, awaited,
                   unsaved, file, launched, owner, alive, tied, doomed>>

ClearRestartState ==
    /\ phase = "adopt" /\ todo = {}
    /\ file' = NoFile
    /\ phase' = "up"
    /\ UNCHANGED <<env, restartMode, boots, rec, toStart, todo, orphans, awaited,
                   unsaved, saved, launched, owner, alive, tied, doomed>>

-----------------------------------------------------------------------------
(* Starting and stopping services.                                         *)

\* A process launched under a context that is done fails.
ContextLive(ctx) ==
    CASE ctx = "manager" -> phase \notin {"off", "closing"}
      [] ctx = "run"     -> phase \in {"adopt", "up"}
      [] ctx = "none"    -> FALSE

LaunchUnder(s, ctx) ==
    /\ ContextLive(ctx) /\ launched < MaxProcs
    /\ launched' = launched + 1
    /\ owner' = [owner EXCEPT ![launched'] = s]
    /\ alive' = alive \cup {launched'}
    /\ tied' = [tied EXCEPT ![launched'] = ctx]
    /\ rec' = [rec EXCEPT ![s] = [state |-> "running", wrapper |-> launched',
                                  monitor |-> ctx]]
    /\ saved' = [saved EXCEPT ![s] = "running"]
    /\ UNCHANGED doomed

LaunchFails(s) ==
    /\ ~ContextLive("manager") \/ launched = MaxProcs
    /\ rec' = [rec EXCEPT ![s].state = "failed"]
    /\ UNCHANGED <<saved, launched, owner, alive, tied, doomed>>

\* Fault: what the record says is not asked.
StartAnyway(s) ==
    /\ Free(s)
    /\ LaunchUnder(s, "manager") \/ LaunchFails(s)

\* A failed start is not saved.
startService(s) ==
    /\ Free(s)
    /\ IF rec[s].state = "running"
       THEN UNCHANGED <<rec, saved, launched, owner, alive, tied, doomed>>
       ELSE LaunchUnder(s, "manager") \/ LaunchFails(s)

\* The first step of stopService: the lock is taken, and kept.
stopService(s) ==
    /\ Free(s)
    /\ rec' = IF rec[s].state = "running"
                 THEN [rec EXCEPT ![s].state = "stopping"] ELSE rec
    /\ UNCHANGED <<saved, launched, owner, alive, tied, doomed>>

\* The last one.  Terminating a job leaves nothing of the process.
StopEnds(s) ==
    /\ phase # "off" /\ rec[s].state = "stopping"
    /\ alive' = alive \ {rec[s].wrapper}
    /\ doomed' = doomed \ {rec[s].wrapper}
    /\ rec' = [rec EXCEPT ![s] = [state |-> "stopped", wrapper |-> 0,
                                  monitor |-> "none"]]
    /\ saved' = [saved EXCEPT ![s] = "stopped"]
    /\ awaited' = awaited \ {s}
    /\ UNCHANGED <<env, phase, restartMode, boots, toStart, todo, orphans,
                   unsaved, file, launched, owner, tied>>

AutoStart(s) ==
    /\ phase # "off" /\ s \in toStart
    /\ toStart' = toStart \ {s}
    /\ startService(s)
    /\ UNCHANGED <<env, phase, restartMode, boots, todo, orphans, awaited,
                   unsaved, file>>

\* Calls of the API, once it is up, and of the scheduler, from LoadAll on.
CallStart(s) ==
    /\ phase \in env.callsIn \ {"off"}
    /\ startService(s)
    /\ UNCHANGED <<env, phase, restartMode, boots, toStart, todo, orphans,
                   awaited, unsaved, file>>

CallStop(s) ==
    /\ phase \in env.callsIn \ {"off"}
    /\ stopService(s)
    /\ UNCHANGED <<env, phase, restartMode, boots, toStart, todo, orphans,
                   awaited, unsaved, file>>

\* The monitor of a service whose process has ended, as long as the context it
\* runs under is not done, restarts the service under that context ...
MonitorRestarts(s) ==
    /\ rec[s].state = "running"
    /\ rec[s].wrapper \notin alive \cup {0}
    /\ LaunchUnder(s, rec[s].monitor)
    /\ UNCHANGED <<env, phase, restartMode, boots, toStart, todo, orphans,
                   awaited, unsaved, file>>

\* ... or leaves it stopped or failed, which it may do even then, and saves that
\* when it has the lock again: by then the service may have been started anew.
MonitorGivesUp(s) ==
    /\ phase # "off" /\ rec[s].monitor # "none"
    /\ rec[s].state = "running"
    /\ rec[s].wrapper \notin alive \cup {0}
    /\ \E st \in {"stopped", "failed"} : rec' = [rec EXCEPT ![s].state = st]
    /\ unsaved' = unsaved \cup {s}
    /\ UNCHANGED <<env, phase, restartMode, boots, toStart, todo, orphans,
                   awaited, saved, file, launched, owner, alive, tied, doomed>>

MonitorSaves(s) ==
    /\ phase # "off" /\ s \in unsaved /\ Free(s)
    /\ unsaved' = unsaved \ {s}
    /\ saved' = [saved EXCEPT ![s] = rec[s].state]
    /\ UNCHANGED <<env, phase, restartMode, boots, rec, toStart, todo, orphans,
                   awaited, file, launched, owner, alive, tied, doomed>>

-----------------------------------------------------------------------------
(* The end of a Guardian.                                                  *)

\* Cancelling a context dooms the processes that run under it.
TiedTo(ctx) == {p \in alive : tied[p] = ctx}

\* RequestRestart, from the API.
RequestRestart ==
    /\ phase = "up" /\ env.restarts
    /\ restartMode' = TRUE
    /\ UNCHANGED <<env, phase, boots, rec, toStart, todo, orphans, awaited,
                   unsaved, saved, file, launched, owner, alive, tied, doomed>>

\* The service manager stops the Guardian: the context of Run is cancelled, which
\* ends the delayed starts that are still asleep, and the services are listed.
StopGuardian ==
    /\ phase = "up" /\ AllFree
    /\ env.settled => toStart = {}
    /\ phase' = IF restartMode THEN "detach" ELSE "stopAll"
    /\ orphans' = NoOrphans
    /\ todo' = Running
    /\ \E asleep \in SUBSET Delayed : toStart' = toStart \ asleep
    /\ doomed' = doomed \cup TiedTo("run")
    /\ UNCHANGED <<env, restartMode, boots, rec, awaited, unsaved, saved, file,
                   launched, owner, alive, tied>>

\* Fault: the process is taken for running.
DetachUnseen(s) ==
    /\ phase = "detach" /\ s \in todo /\ Free(s) /\ rec[s].wrapper # 0
    /\ todo' = todo \ {s}
    /\ orphans' = [orphans EXCEPT ![s] = rec[s].wrapper]
    /\ doomed' = doomed \cup {rec[s].wrapper}
    /\ rec' = [rec EXCEPT ![s].wrapper = 0, ![s].monitor = "none"]
    /\ UNCHANGED <<env, phase, restartMode, boots, toStart, awaited, unsaved,
                   saved, file, launched, owner, alive, tied>>

\* DetachAll for one service.  An adopted process has no context to cancel.
Detach(s) ==
    /\ phase = "detach" /\ s \in todo /\ Free(s)
    /\ todo' = todo \ {s}
    /\ LET w == rec[s].wrapper IN
         IF w = 0
         THEN UNCHANGED <<orphans, rec, doomed>>
         ELSE /\ orphans' = [orphans EXCEPT ![s] = w]
              /\ doomed' = IF w \in alive /\ tied[w] # "none"
                             THEN doomed \cup {w} ELSE doomed
              /\ rec' = [rec EXCEPT ![s].wrapper = 0, ![s].monitor = "none"]
    /\ UNCHANGED <<env, phase, restartMode, boots, toStart, awaited, unsaved,
                   saved, file, launched, owner, alive, tied>>

WriteRestartState ==
    /\ phase = "detach" /\ todo = {}
    /\ file' = [kind |-> "whole", orphans |-> orphans]
    /\ phase' = "cancel"
    /\ UNCHANGED <<env, restartMode, boots, rec, toStart, todo, orphans, awaited,
                   unsaved, saved, launched, owner, alive, tied, doomed>>

\* The services are stopped instead.  The file is truncated before it is written.
WriteFails ==
    /\ phase = "detach" /\ todo = {} /\ env.writeFails /\ AllFree
    /\ file' \in {file, TornFile}
    /\ phase' = "stopAll"
    /\ todo' = Running
    /\ UNCHANGED <<env, restartMode, boots, rec, toStart, orphans, awaited,
                   unsaved, saved, launched, owner, alive, tied, doomed>>

\* One goroutine for each service; StopAll waits for those that stop one.
StopAll(s) ==
    /\ phase = "stopAll" /\ s \in todo
    /\ todo' = todo \ {s}
    /\ stopService(s)
    /\ awaited' = IF s \in Running THEN awaited \cup {s} ELSE awaited
    /\ UNCHANGED <<env, phase, restartMode, boots, toStart, orphans, unsaved,
                   file>>

AllStopped == phase = "stopAll" /\ todo = {} /\ awaited = {}

\* Fault: the context is left alone.
ShutdownKeepsContext ==
    /\ phase = "cancel" \/ AllStopped
    /\ phase' = "closing"
    /\ UNCHANGED <<env, restartMode, boots, rec, toStart, todo, orphans, awaited,
                   unsaved, saved, file, launched, owner, alive, tied, doomed>>

\* Manager.Shutdown cancels the manager's context.
Shutdown ==
    /\ phase = "cancel" \/ AllStopped
    /\ phase' = "closing"
    /\ doomed' = doomed \cup TiedTo("manager")
    /\ UNCHANGED <<env, restartMode, boots, rec, toStart, todo, orphans, awaited,
                   unsaved, saved, file, launched, owner, alive, tied>>

\* What is left of the goroutines, the contexts and the kills that were pending.
Gone == /\ env.settled => unsaved = {}
        /\ phase' = "off"
        /\ toStart' = {} /\ todo' = {} /\ awaited' = {} /\ unsaved' = {}
        /\ doomed' = {}
        /\ tied' = [p \in Procs |-> "none"]

\* Run returns after it has closed the API and the store.
Exit ==
    /\ phase = "closing"
    /\ env.hasty \/ doomed = {}
    /\ Gone
    /\ UNCHANGED <<env, restartMode, boots, rec, orphans, saved, file, launched,
                   owner, alive>>

Crash ==
    /\ phase \in env.crashesIn \ {"off"}
    /\ Gone
    /\ file' \in {file} \cup (IF phase = "detach" /\ todo = {} THEN {TornFile}
                                                                ELSE {})
    /\ UNCHANGED <<env, restartMode, boots, rec, orphans, saved, launched, owner,
                   alive>>

-----------------------------------------------------------------------------
(* Processes.                                                              *)

ProcEnds(p) ==
    /\ alive' = alive \ {p} /\ doomed' = doomed \ {p}
    /\ UNCHANGED <<env, phase, restartMode, boots, rec, toStart, todo, orphans,
                   awaited, unsaved, saved, file, launched, owner, tied>>

ProcExit(p) == p \in alive /\ env.exits /\ ProcEnds(p)

\* os/exec kills a process when its context is done.
Kill(p) == p \in doomed /\ phase # "off" /\ ProcEnds(p)

-----------------------------------------------------------------------------
(* The specification.                                                      *)

BootStep    == Boot \/ ReadRestartState \/ ClearRestartState
EndStep     == \/ RequestRestart \/ StopGuardian \/ WriteRestartState
               \/ WriteFails \/ Shutdown \/ Exit \/ Crash
ServiceStep(s) == \/ Adopt(s) \/ AutoStart(s) \/ CallStart(s) \/ CallStop(s)
                  \/ StopEnds(s) \/ MonitorRestarts(s) \/ MonitorGivesUp(s)
                  \/ MonitorSaves(s) \/ Detach(s) \/ StopAll(s)

Next == \/ BootStep \/ EndStep
        \/ \E s \in Services : ServiceStep(s)
        \/ \E p \in Procs : ProcExit(p) \/ Kill(p)

Spec == Init /\ [][Next]_vars

-----------------------------------------------------------------------------
(* Properties.                                                             *)

\* The processes a Guardian has to account for when it ends: those it launched,
\* those attached to its records, and those it detached for its successor.  Of the
\* last it cannot, when the file cannot be written, stop those it had adopted: they
\* are detached from their records, and no context of its own reaches them.
Launched == {p \in alive : tied[p] # "none"}
Attached == {rec[s].wrapper : s \in Services} \cap alive
Detached == {orphans[s] : s \in Services} \cap alive
Charges  == Launched \cup Attached \cup (IF env.writeFails THEN {} ELSE Detached)

HandedOver == {file.orphans[s] : s \in Services}

\* A Guardian that ends, short of being killed, leaves no process that runs on
\* without anybody knowing of it: what it launched, adopted or detached is being
\* killed, or is on the file for the next one - also a process whose start, stop or
\* restart was under way.  Run does not wait for the kills (Run, DetachAll, StopAll,
\* Shutdown).
NoneLeftBehind == phase = "closing" => Charges \subseteq doomed \cup HandedOver

\* Nobody calls while the Guardian boots or ends, every automatic start is over
\* before it ends, and what a monitor gives up is saved before it is gone.  It may be
\* killed while it has a restart file: on its way out, or before and while it adopts,
\* unless a process it has adopted ends meanwhile and is replaced.  Where its kills
\* may not be seen through, the file can be written: the services of a Guardian that
\* failed to are already detached, and stopping them does not reach their processes.
Calm == /\ env.callsIn \subseteq {"up"}
        /\ env.settled
        /\ env.crashesIn \subseteq {"cancel", "closing", "read", "adopt"}
        /\ "adopt" \in env.crashesIn => ~env.exits
        /\ env.hasty \/ env.crashesIn # {} => ~env.writeFails

Copies == [s \in Services |-> {p \in alive : owner[p] = s}]
Held   == {s \in Services : phase # "off" /\ rec[s].wrapper \in Copies[s]}

Promise == INSTANCE Supervision WITH copies <- Copies, held <- Held

\* From one Guardian to the next, a service has one process at a time, and none
\* is launched while one is waiting to be adopted, even if Guardians are killed
\* on the way (DetachAll, writeRestartState, readRestartState, AdoptOrphans and
\* every startService).
ImplementsSupervision ==
    Promise!Init /\ [][Calm => Promise!Next]_<<Copies, Held>>

\* When a Guardian is up, no process of an earlier one runs unsupervised, and
\* the services shown as running are those with a process attached - alive, or
\* about to be missed by its monitor.
BootRecoversAll ==
    (Calm /\ phase = "up") =>
      \A s \in Services : /\ Copies[s] # {} => s \in Held
                          /\ rec[s].state = "running" => rec[s].wrapper # 0

-----------------------------------------------------------------------------
(* What the repository says of the program and the code does not keep.     *)

\* A restart of the Guardian leaves its children alone ("Children will continue
\* running and be re-adopted", handlers_system.go): once it is gone, those it
\* handed over run, if they do not end by themselves.
ChildrenContinue ==
    (phase = "off" /\ restartMode) =>
      \A s \in Services : orphans[s] \in alive \cup {0}

\* After the Guardian was killed and started again, "managed service state is
\* recovered" (TESTPLAN.md): what is shown as running has a process attached.
StateIsRecovered ==
    phase = "up" =>
      \A s \in Services : rec[s].state = "running" => rec[s].wrapper # 0
=============================================================================

------------------------ MODULE GuardianRestartProofs ------------------------
(***************************************************************************)
(* Theorems about GuardianRestart, for any services, bounds and            *)
(* environments.                                                           *)
(***************************************************************************)
EXTENDS GuardianRestart, TLAPS

(***************************************************************************)
(* Type correctness.                                                       *)
(***************************************************************************)

\* The parts of the state that a service's steps write have their types again
\* after a start and after a stop.
ServiceTypes ==
    /\ rec \in [Services -> Record]
    /\ saved \in [Services -> States]
    /\ launched \in ProcOrNil
    /\ owner \in [Procs -> Services \cup {NoService}]
    /\ alive \in SUBSET Procs
    /\ tied \in [Procs -> Contexts]
    /\ doomed \in SUBSET alive

\* A launch keeps the types (LaunchUnder, from startService and doRestart).
LEMMA LaunchTyped ==
    ASSUME TypeOK, NEW s \in Services, NEW ctx \in Contexts, LaunchUnder(s, ctx)
    PROVE  ServiceTypes'
<1>1. launched' = launched + 1 /\ launched' \in Procs
  BY GuardianAssumption DEF LaunchUnder, TypeOK, Procs, ProcOrNil
<1>2. launched' \in ProcOrNil
  BY <1>1, GuardianAssumption DEF Procs, ProcOrNil
<1>3. rec' \in [Services -> Record]
  BY <1>2 DEF LaunchUnder, TypeOK, Record, States
<1> QED
  BY <1>1, <1>2, <1>3 DEF LaunchUnder, TypeOK, ServiceTypes, States

\* A failed start keeps the types.
LEMMA LaunchFailsTyped ==
    ASSUME TypeOK, NEW s \in Services, LaunchFails(s)
    PROVE  ServiceTypes'
<1>1. rec' \in [Services -> Record]
  BY DEF LaunchFails, TypeOK, Record, States
<1> QED BY <1>1 DEF LaunchFails, TypeOK, ServiceTypes

\* A start keeps the types, whether it launches, fails or is refused.
LEMMA StartTyped ==
    ASSUME TypeOK, NEW s \in Services, startService(s)
    PROVE  ServiceTypes'
<1>1. CASE rec[s].state = "running"
  BY <1>1 DEF startService, TypeOK, ServiceTypes
<1>2. CASE LaunchUnder(s, "manager")
  BY <1>2, LaunchTyped DEF Contexts
<1>3. CASE LaunchFails(s)
  BY <1>3, LaunchFailsTyped
<1> QED
  BY <1>1, <1>2, <1>3 DEF startService

\* So do the two steps of a stop.
LEMMA StopTyped ==
    ASSUME TypeOK, NEW s \in Services, stopService(s)
    PROVE  ServiceTypes'
<1>1. rec' \in [Services -> Record]
  BY DEF stopService, TypeOK, Record
<1> QED BY <1>1 DEF stopService, TypeOK, ServiceTypes

LEMMA StopEndsTyped ==
    ASSUME TypeOK, NEW s \in Services, StopEnds(s)
    PROVE  TypeOK'
<1>1. [state |-> "stopped", wrapper |-> 0, monitor |-> "none"] \in Record
  BY GuardianAssumption DEF Record, States, Contexts, ProcOrNil
<1>2. rec' \in [Services -> Record]
  BY <1>1 DEF StopEnds, TypeOK
<1>3. saved' \in [Services -> States]
  BY DEF StopEnds, TypeOK, States
<1> QED BY <1>2, <1>3 DEF StopEnds, TypeOK

\* The initial state is well typed.
LEMMA InitTyped == Init => TypeOK
<1> SUFFICES ASSUME Init PROVE TypeOK
  OBVIOUS
<1>1. 0 \in ProcOrNil
  BY GuardianAssumption DEF ProcOrNil
<1>2. rec \in [Services -> Record]
  BY <1>1 DEF Init, Record, States, Contexts
<1>3. file \in File
  BY <1>1 DEF Init, NoFile, NoOrphans, File
<1>4. orphans \in [Services -> ProcOrNil]
  BY <1>1 DEF Init, NoOrphans
<1>5. boots \in 0..MaxBoots
  BY GuardianAssumption DEF Init
<1>6. /\ saved \in [Services -> States]
      /\ owner \in [Procs -> Services \cup {NoService}]
      /\ tied \in [Procs -> Contexts]
  BY DEF Init, States, Contexts
<1>7. launched \in ProcOrNil
  BY <1>1 DEF Init
<1>8. phase \in Phases /\ restartMode \in BOOLEAN
  BY DEF Init, Phases
<1> QED
  BY <1>2, <1>3, <1>4, <1>5, <1>6, <1>7, <1>8 DEF Init, TypeOK

\* Every step keeps the types.
LEMMA StepTyped == TypeOK /\ [Next]_vars => TypeOK'
<1> SUFFICES ASSUME TypeOK, [Next]_vars PROVE TypeOK'
  OBVIOUS
<1>0. 0 \in ProcOrNil /\ NoOrphans \in [Services -> ProcOrNil]
  BY GuardianAssumption DEF ProcOrNil, NoOrphans
<1>f. NoFile \in File /\ TornFile \in File
  BY <1>0 DEF NoFile, TornFile, File
<1>1. CASE BootStep
  <2>1. CASE Boot
    <3>1. rec' \in [Services -> Record]
      BY <2>1, <1>0 DEF Boot, TypeOK, Record, Contexts
    <3>2. boots' \in 0..MaxBoots
      BY <2>1, GuardianAssumption DEF Boot, TypeOK
    <3> QED
      BY <2>1, <3>1, <3>2 DEF Boot, TypeOK, Phases
  <2>2. CASE ReadRestartState
    <3>1. ReadOrphans \in [Services -> ProcOrNil]
      BY DEF TypeOK, File, ReadOrphans
    <3> QED
      BY <2>2, <3>1 DEF ReadRestartState, TypeOK, Phases, Listed
  <2>3. CASE ClearRestartState
    BY <2>3, <1>f DEF ClearRestartState, TypeOK, Phases
  <2> QED
    BY <1>1, <2>1, <2>2, <2>3 DEF BootStep
<1>2. CASE EndStep
  <2>1. CASE RequestRestart
    BY <2>1 DEF RequestRestart, TypeOK
  <2>2. CASE StopGuardian
    <3>1. doomed' \in SUBSET alive' /\ todo' \in SUBSET Services
      BY <2>2 DEF StopGuardian, TypeOK, Running, TiedTo
    <3>2. toStart' \in SUBSET AutoStarted
      BY <2>2 DEF StopGuardian, TypeOK
    <3> QED
      BY <2>2, <1>0, <3>1, <3>2 DEF StopGuardian, TypeOK, Phases
  <2>3. CASE WriteRestartState
    <3>1. [kind |-> "whole", orphans |-> orphans] \in File
      BY DEF TypeOK, File
    <3> QED
      BY <2>3, <3>1 DEF WriteRestartState, TypeOK, Phases
  <2>4. CASE WriteFails
    BY <2>4, <1>f DEF WriteFails, TypeOK, Phases, Running
  <2>5. CASE Shutdown
    BY <2>5 DEF Shutdown, TypeOK, Phases, TiedTo
  <2>6. CASE Exit
    BY <2>6 DEF Exit, Gone, TypeOK, Phases, Contexts
  <2>7. CASE Crash
    <3>1. file' \in File
      BY <2>7, <1>f DEF Crash, TypeOK
    <3> QED
      BY <2>7, <3>1 DEF Crash, Gone, TypeOK, Phases, Contexts
  <2> QED
    BY <1>2, <2>1, <2>2, <2>3, <2>4, <2>5, <2>6, <2>7 DEF EndStep
<1>3. CASE \E s \in Services : ServiceStep(s)
  <2> PICK s \in Services : ServiceStep(s)
    BY <1>3
  <2>1. CASE Adopt(s)
    <3>1. orphans[s] \in ProcOrNil /\ rec[s] \in Record
      BY DEF TypeOK
    <3>2. rec' \in [Services -> Record]
      BY <2>1, <3>1 DEF Adopt, TypeOK, Record, States, Contexts
    <3> QED
      BY <2>1, <3>2 DEF Adopt, TypeOK, States
  <2>2. CASE AutoStart(s)
    <3>1. ServiceTypes'
      BY <2>2, StartTyped DEF AutoStart
    <3> QED
      BY <2>2, <3>1 DEF AutoStart, TypeOK, ServiceTypes
  <2>3. CASE CallStart(s)
    <3>1. ServiceTypes'
      BY <2>3, StartTyped DEF CallStart
    <3> QED
      BY <2>3, <3>1 DEF CallStart, TypeOK, ServiceTypes
  <2>4. CASE CallStop(s)
    <3>1. ServiceTypes'
      BY <2>4, StopTyped DEF CallStop
    <3> QED
      BY <2>4, <3>1 DEF CallStop, TypeOK, ServiceTypes
  <2>5. CASE MonitorRestarts(s)
    <3>1. rec[s].monitor \in Contexts
      BY DEF TypeOK, Record
    <3>2. ServiceTypes'
      BY <2>5, <3>1, LaunchTyped DEF MonitorRestarts
    <3> QED
      BY <2>5, <3>2 DEF MonitorRestarts, TypeOK, ServiceTypes
  <2>6. CASE MonitorGivesUp(s)
    <3>1. rec' \in [Services -> Record]
      BY <2>6 DEF MonitorGivesUp, TypeOK, Record, States
    <3> QED
      BY <2>6, <3>1 DEF MonitorGivesUp, TypeOK
  <2>9. CASE MonitorSaves(s)
    <3>1. rec[s].state \in States
      BY <2>9 DEF MonitorSaves, Free, TypeOK, Record
    <3> QED
      BY <2>9, <3>1 DEF MonitorSaves, TypeOK
  <2>10. CASE StopEnds(s)
    BY <2>10, StopEndsTyped
  <2>7. CASE Detach(s)
    <3>1. rec[s].wrapper \in ProcOrNil
      BY DEF TypeOK, Record
    <3>2. rec' \in [Services -> Record]
      <4>1. \/ rec' = rec
            \/ rec' = [rec EXCEPT ![s].wrapper = 0, ![s].monitor = "none"]
        BY <2>7 DEF Detach
      <4> QED BY <1>0, <4>1 DEF TypeOK, Record, Contexts
    <3>3. doomed' \in SUBSET alive /\ orphans' \in [Services -> ProcOrNil]
      BY <2>7, <3>1 DEF Detach, TypeOK
    <3> QED
      BY <2>7, <3>2, <3>3 DEF Detach, TypeOK
  <2>8. CASE StopAll(s)
    <3>1. ServiceTypes'
      BY <2>8, StopTyped DEF StopAll
    <3> QED
      BY <2>8, <3>1 DEF StopAll, TypeOK, ServiceTypes
  <2> QED
    BY <2>1, <2>2, <2>3, <2>4, <2>5, <2>6, <2>7, <2>8, <2>9, <2>10 DEF ServiceStep
<1>4. CASE \E p \in Procs : ProcExit(p) \/ Kill(p)
  BY <1>4 DEF ProcExit, Kill, ProcEnds, TypeOK
<1>5. CASE UNCHANGED vars
  BY <1>5 DEF vars, TypeOK
<1> QED
  BY <1>1, <1>2, <1>3, <1>4, <1>5 DEF Next

\* The restart model keeps its types: every handler leaves the record, the store
\* and the file in one of the shapes the next one expects.
THEOREM TypeCorrect == Spec => []TypeOK
BY InitTyped, StepTyped, PTL DEF Spec

(***************************************************************************)
(* Nothing is left behind.                                                 *)
(***************************************************************************)

\* Guardians that end by themselves and whose kills come through before they are gone:
\* Run does not see to that, so that only the proof about calm boots, in which these
\* are a case apart, builds on it.
Careful == ~env.hasty /\ env.crashesIn = {}

\* Between Guardians nothing runs, every process runs under a context, and those
\* whose context is done are being killed.
TetheredInv ==
    Careful =>
      /\ phase = "off" => alive = {}
      /\ \A p \in alive : tied[p] \in {"manager", "run"}
      /\ \A p \in alive : tied[p] = "run" /\ phase \notin {"adopt", "up"}
                            => p \in doomed
      /\ phase = "closing" => alive \subseteq doomed

\* A launch keeps its process under a context that is live.
LEMMA LaunchTethered ==
    ASSUME TypeOK, TetheredInv, NEW s \in Services, NEW ctx \in Contexts,
           LaunchUnder(s, ctx), UNCHANGED <<env, phase>>
    PROVE  TetheredInv'
<1>1. launched' \in Procs
  BY GuardianAssumption DEF LaunchUnder, TypeOK, Procs, ProcOrNil
<1>2. /\ ctx \in {"manager", "run"}
      /\ phase \notin {"off", "closing"}
      /\ ctx = "run" => phase \in {"adopt", "up"}
  BY DEF LaunchUnder, ContextLive, Contexts
<1>3. /\ alive' = alive \cup {launched'} /\ doomed' = doomed
      /\ tied'[launched'] = ctx
      /\ \A p \in Procs \ {launched'} : tied'[p] = tied[p]
  BY <1>1 DEF LaunchUnder, TypeOK
<1>4. alive \subseteq Procs
  BY DEF TypeOK
<1> QED
  BY <1>1, <1>2, <1>3, <1>4 DEF TetheredInv, Careful

\* A start adds at most such a process.
LEMMA StartTethered ==
    ASSUME TypeOK, TetheredInv, NEW s \in Services, startService(s),
           UNCHANGED <<env, phase>>
    PROVE  TetheredInv'
<1>1. CASE LaunchUnder(s, "manager")
  BY <1>1, LaunchTethered DEF Contexts
<1>2. CASE rec[s].state = "running" \/ LaunchFails(s)
  <2>1. UNCHANGED <<alive, tied, doomed>> \/ LaunchUnder(s, "manager")
    BY <1>2 DEF startService, LaunchFails
  <2> QED
    BY <2>1, <1>1 DEF TetheredInv, Careful
<1> QED
  BY <1>1, <1>2 DEF startService

\* Every step keeps the processes tethered.
LEMMA StepTethered == TypeOK /\ TetheredInv /\ [Next]_vars => TetheredInv'
<1> SUFFICES ASSUME TypeOK, TetheredInv, [Next]_vars PROVE TetheredInv'
  OBVIOUS
<1>1. CASE BootStep
  BY <1>1 DEF BootStep, Boot, ReadRestartState, ClearRestartState, TetheredInv,
              Careful
<1>2. CASE EndStep
  <2>1. CASE RequestRestart
    BY <2>1 DEF RequestRestart, TetheredInv, Careful
  <2>2. CASE StopGuardian
    BY <2>2 DEF StopGuardian, TiedTo, TetheredInv, Careful
  <2>3. CASE WriteRestartState \/ WriteFails
    BY <2>3 DEF WriteRestartState, WriteFails, TetheredInv, Careful
  <2>4. CASE Shutdown
    BY <2>4 DEF Shutdown, AllStopped, TiedTo, TetheredInv, Careful
  <2>5. CASE Exit
    BY <2>5 DEF Exit, Gone, TetheredInv, Careful
  <2>6. CASE Crash
    BY <2>6 DEF Crash, TetheredInv, Careful
  <2> QED
    BY <1>2, <2>1, <2>2, <2>3, <2>4, <2>5, <2>6 DEF EndStep
<1>3. CASE \E s \in Services : ServiceStep(s)
  <2> PICK s \in Services : ServiceStep(s)
    BY <1>3
  <2>1. CASE Adopt(s) \/ MonitorGivesUp(s) \/ MonitorSaves(s)
    BY <2>1 DEF Adopt, MonitorGivesUp, MonitorSaves, TetheredInv, Careful
  <2>2. CASE AutoStart(s) \/ CallStart(s)
    BY <2>2, StartTethered DEF AutoStart, CallStart
  <2>3. CASE CallStop(s) \/ StopAll(s) \/ StopEnds(s)
    BY <2>3 DEF CallStop, StopAll, stopService, StopEnds, TetheredInv, Careful
  <2>4. CASE MonitorRestarts(s)
    <3>1. rec[s].monitor \in Contexts
      BY DEF TypeOK, Record
    <3> QED
      BY <2>4, <3>1, LaunchTethered DEF MonitorRestarts
  <2>5. CASE Detach(s)
    BY <2>5 DEF Detach, TetheredInv, Careful
  <2> QED
    BY <2>1, <2>2, <2>3, <2>4, <2>5 DEF ServiceStep
<1>4. CASE \E p \in Procs : ProcExit(p) \/ Kill(p)
  BY <1>4 DEF ProcExit, Kill, ProcEnds, TetheredInv, Careful
<1>5. CASE UNCHANGED vars
  BY <1>5 DEF vars, TetheredInv, Careful
<1> QED
  BY <1>1, <1>2, <1>3, <1>4, <1>5 DEF Next

\* In every environment: what this Guardian launched under a context that is done is
\* being killed, ...
LaunchedInv ==
    /\ phase = "off" => \A p \in Procs : tied[p] = "none"
    /\ \A p \in alive : tied[p] = "run" /\ phase \notin {"adopt", "up"} => p \in doomed
    /\ phase = "closing" => \A p \in alive : tied[p] # "none" => p \in doomed

\* ... what it adopted is shown as running, and while it ends has still to be detached
\* or stopped ...
Adopted(s) == rec[s].wrapper \in alive /\ tied[rec[s].wrapper] = "none"

AttachedInv ==
    phase # "off" =>
      \A s \in Services : Adopted(s) =>
        /\ rec[s].state \in {"running", "stopping"}
        /\ phase \notin {"read", "cancel", "closing"}
        /\ phase = "adopt" => s \notin todo
        /\ phase = "detach" => s \in todo
        /\ phase = "stopAll" => s \in todo \cup awaited

\* ... and what it detached is on the file once that is written.
DetachedInv ==
    ~env.writeFails =>
      /\ phase = "cancel" => file.orphans = orphans
      /\ phase = "stopAll" => orphans = NoOrphans
      /\ phase = "closing" => orphans \in {file.orphans, NoOrphans}

ChargesInv == LaunchedInv /\ AttachedInv /\ DetachedInv

\* What a service's steps may change: a process more, under a context that is live and
\* attached to its record, or one less.
LEMMA LaunchCharged ==
    ASSUME TypeOK, ChargesInv, NEW s \in Services, NEW ctx \in Contexts,
           LaunchUnder(s, ctx),
           UNCHANGED <<env, phase, todo, orphans, awaited, file>>
    PROVE  ChargesInv'
<1>1. launched' \in Procs
  BY GuardianAssumption DEF LaunchUnder, TypeOK, Procs, ProcOrNil
<1>2. /\ ctx \in {"manager", "run"}
      /\ phase \notin {"off", "closing"}
      /\ ctx = "run" => phase \in {"adopt", "up"}
  BY DEF LaunchUnder, ContextLive, Contexts
<1>3. /\ alive' = alive \cup {launched'} /\ doomed' = doomed
      /\ tied'[launched'] = ctx
      /\ \A p \in Procs \ {launched'} : tied'[p] = tied[p]
      /\ rec'[s].wrapper = launched'
      /\ \A t \in Services \ {s} : rec'[t] = rec[t]
  BY <1>1 DEF LaunchUnder, TypeOK
<1>4. alive \subseteq Procs
  BY DEF TypeOK
<1>5. LaunchedInv'
  BY <1>1, <1>2, <1>3, <1>4 DEF ChargesInv, LaunchedInv
<1>6. \A t \in Services : Adopted(t)' => Adopted(t) /\ t # s
  BY <1>1, <1>2, <1>3, <1>4 DEF Adopted
<1>7. AttachedInv'
  BY <1>3, <1>6 DEF ChargesInv, AttachedInv
<1>8. DetachedInv'
  BY DEF ChargesInv, DetachedInv
<1> QED BY <1>5, <1>7, <1>8 DEF ChargesInv

\* A start of a service that is not running finds nothing adopted.
LEMMA StartCharged ==
    ASSUME TypeOK, ChargesInv, NEW s \in Services, startService(s), phase # "off",
           UNCHANGED <<env, phase, todo, orphans, awaited, file>>
    PROVE  ChargesInv'
<1>1. CASE rec[s].state = "running"
  BY <1>1 DEF startService, ChargesInv, LaunchedInv, AttachedInv, Adopted, DetachedInv
<1>2. CASE LaunchUnder(s, "manager")
  BY <1>2, LaunchCharged DEF Contexts
<1>3. CASE rec[s].state # "running" /\ LaunchFails(s)
  <2>1. /\ \A t \in Services : rec'[t].wrapper = rec[t].wrapper
        /\ \A t \in Services \ {s} : rec'[t] = rec[t]
        /\ UNCHANGED <<alive, tied, doomed>>
    BY <1>3 DEF LaunchFails, TypeOK, Record
  <2>2. ~Adopted(s)
    BY <1>3 DEF startService, Free, ChargesInv, AttachedInv
  <2>3. AttachedInv'
    BY <2>1, <2>2 DEF ChargesInv, AttachedInv, Adopted
  <2> QED BY <2>1, <2>3 DEF ChargesInv, LaunchedInv, DetachedInv
<1> QED BY <1>1, <1>2, <1>3 DEF startService

\* The first step of a stop leaves it to the last, which ends the process.
LEMMA StopCharged ==
    ASSUME TypeOK, ChargesInv, NEW s \in Services, stopService(s),
           UNCHANGED <<env, phase, orphans, file>>,
           \/ UNCHANGED <<todo, awaited>>
           \/ /\ phase = "stopAll" /\ todo' = todo \ {s}
              /\ awaited' = IF s \in Running THEN awaited \cup {s} ELSE awaited
    PROVE  ChargesInv'
<1>1. /\ \A t \in Services : rec'[t].wrapper = rec[t].wrapper
      /\ \A t \in Services \ {s} : rec'[t] = rec[t]
      /\ rec[s].state = "running" => rec'[s].state = "stopping"
      /\ UNCHANGED <<alive, tied, doomed>>
  BY DEF stopService, TypeOK, Record
<1>2. \A t \in Services : Adopted(t)' <=> Adopted(t)
  BY <1>1 DEF Adopted
<1>3. phase # "off" /\ Adopted(s) => s \in Running
  BY DEF stopService, Free, ChargesInv, AttachedInv, Running
<1>4. AttachedInv'
  BY <1>1, <1>2, <1>3 DEF ChargesInv, AttachedInv, Running
<1> QED BY <1>1, <1>4 DEF ChargesInv, LaunchedInv, DetachedInv

\* Every step keeps account of the processes.
LEMMA ChargesNext ==
    ASSUME TypeOK, ChargesInv, [Next]_vars
    PROVE  ChargesInv'
<1>0. /\ rec \in [Services -> Record] /\ tied \in [Procs -> Contexts]
      /\ alive \subseteq Procs /\ 0 \notin alive
  BY DEF TypeOK, Procs
<1>1. CASE BootStep
  <2>1. CASE Boot
    BY <1>0, <2>1 DEF Boot, ChargesInv, LaunchedInv, AttachedInv, Adopted, DetachedInv
  <2>2. CASE ReadRestartState
    BY <2>2
    DEF ReadRestartState, ChargesInv, LaunchedInv, AttachedInv, Adopted, DetachedInv
  <2>3. CASE ClearRestartState
    BY <2>3
    DEF ClearRestartState, ChargesInv, LaunchedInv, AttachedInv, Adopted, DetachedInv
  <2> QED BY <1>1, <2>1, <2>2, <2>3 DEF BootStep
<1>2. CASE EndStep
  <2>1. CASE RequestRestart
    BY <2>1
    DEF RequestRestart, ChargesInv, LaunchedInv, AttachedInv, Adopted, DetachedInv
  <2>2. CASE StopGuardian
    <3>1. LaunchedInv'
      BY <2>2 DEF StopGuardian, TiedTo, ChargesInv, LaunchedInv
    <3>2. \A s \in Services : Adopted(s) => s \in Running
      BY <2>2 DEF StopGuardian, AllFree, Free, ChargesInv, AttachedInv, Running
    <3>3. AttachedInv'
      BY <2>2, <3>2 DEF StopGuardian, ChargesInv, AttachedInv, Adopted
    <3> QED
      BY <2>2, <3>1, <3>3 DEF StopGuardian, ChargesInv, DetachedInv
  <2>3. CASE WriteRestartState
    BY <2>3
    DEF WriteRestartState, ChargesInv, LaunchedInv, AttachedInv, Adopted, DetachedInv
  <2>4. CASE WriteFails
    BY <2>4 DEF WriteFails, ChargesInv, LaunchedInv, AttachedInv, Adopted, DetachedInv
  <2>5. CASE Shutdown
    <3>1. LaunchedInv'
      <4>1. /\ doomed' = doomed \cup TiedTo("manager")
            /\ phase \notin {"off", "adopt", "up"} /\ phase' = "closing"
            /\ UNCHANGED <<alive, tied>>
        BY <2>5 DEF Shutdown, AllStopped
      <4>2. \A p \in alive : tied[p] \in {"none", "manager", "run"}
        BY <1>0 DEF Contexts
      <4> QED BY <4>1, <4>2 DEF TiedTo, ChargesInv, LaunchedInv
    <3>2. AttachedInv'
      BY <2>5 DEF Shutdown, AllStopped, ChargesInv, AttachedInv, Adopted
    <3> QED
      BY <2>5, <3>1, <3>2 DEF Shutdown, AllStopped, ChargesInv, DetachedInv
  <2>6. CASE Exit \/ Crash
    BY <1>0, <2>6
    DEF Exit, Crash, Gone, ChargesInv, LaunchedInv, AttachedInv, DetachedInv
  <2> QED
    BY <1>2, <2>1, <2>2, <2>3, <2>4, <2>5, <2>6 DEF EndStep
<1>3. ASSUME NEW s \in Services, ServiceStep(s)
      PROVE  ChargesInv'
  <2>1. CASE Adopt(s)
    <3>1. /\ phase = "adopt" /\ UNCHANGED <<env, phase, alive, tied, doomed>>
          /\ s \in todo /\ todo' = todo \ {s}
          /\ \A t \in Services \ {s} : rec'[t] = rec[t]
      BY <1>0, <2>1 DEF Adopt
    <3>2. CASE orphans[s] \in alive
      <4>1. rec'[s].state = "running"
        BY <1>0, <2>1, <3>2 DEF Adopt
      <4> QED
        BY <3>1, <4>1 DEF ChargesInv, LaunchedInv, AttachedInv, Adopted, DetachedInv
    <3>3. CASE orphans[s] \notin alive
      <4>1. rec'[s].wrapper = rec[s].wrapper
        BY <1>0, <2>1, <3>3 DEF Adopt, Record
      <4>2. ~Adopted(s)
        BY <3>1 DEF ChargesInv, AttachedInv
      <4> QED
        BY <3>1, <4>1, <4>2
        DEF ChargesInv, LaunchedInv, AttachedInv, Adopted, DetachedInv
    <3> QED BY <3>2, <3>3
  <2>2. CASE AutoStart(s)
    BY <2>2, StartCharged DEF AutoStart
  <2>3. CASE CallStart(s)
    BY <2>3, StartCharged DEF CallStart
  <2>4. CASE CallStop(s) \/ StopAll(s)
    BY <2>4, StopCharged DEF CallStop, StopAll
  <2>5. CASE StopEnds(s)
    <3>1. /\ rec'[s].wrapper = 0 /\ awaited' = awaited \ {s}
          /\ \A t \in Services \ {s} : rec'[t] = rec[t]
          /\ alive' = alive \ {rec[s].wrapper} /\ doomed' = doomed \ {rec[s].wrapper}
          /\ UNCHANGED <<env, phase, todo, orphans, file, tied>>
      BY <1>0, <2>5 DEF StopEnds
    <3> QED
      BY <1>0, <3>1 DEF ChargesInv, LaunchedInv, AttachedInv, Adopted, DetachedInv
  <2>6. CASE MonitorRestarts(s)
    <3>1. rec[s].monitor \in Contexts
      BY <1>0 DEF Record
    <3> QED BY <2>6, <3>1, LaunchCharged DEF MonitorRestarts
  <2>7. CASE MonitorGivesUp(s)
    <3>1. /\ \A t \in Services : rec'[t].wrapper = rec[t].wrapper
          /\ \A t \in Services \ {s} : rec'[t] = rec[t]
          /\ UNCHANGED <<env, phase, todo, awaited, orphans, file, alive, tied, doomed>>
          /\ ~Adopted(s)
      BY <1>0, <2>7 DEF MonitorGivesUp, Record, Adopted
    <3> QED BY <3>1 DEF ChargesInv, LaunchedInv, AttachedInv, Adopted, DetachedInv
  <2>8. CASE MonitorSaves(s)
    BY <2>8
    DEF MonitorSaves, ChargesInv, LaunchedInv, AttachedInv, Adopted, DetachedInv
  <2>9. CASE Detach(s)
    <3>1. /\ phase = "detach" /\ todo' = todo \ {s}
          /\ rec'[s].wrapper = 0
          /\ \A t \in Services \ {s} : rec'[t] = rec[t]
          /\ doomed \subseteq doomed' /\ UNCHANGED <<env, phase, awaited, alive, tied>>
      BY <1>0, <2>9 DEF Detach, Record
    <3> QED
      BY <1>0, <3>1 DEF ChargesInv, LaunchedInv, AttachedInv, Adopted, DetachedInv
  <2> QED
    BY <1>3, <2>1, <2>2, <2>3, <2>4, <2>5, <2>6, <2>7, <2>8, <2>9 DEF ServiceStep
<1>4. ASSUME NEW p \in Procs, ProcExit(p) \/ Kill(p)
      PROVE  ChargesInv'
  <2>1. /\ alive' = alive \ {p} /\ doomed' = doomed \ {p}
        /\ UNCHANGED <<env, phase, rec, todo, orphans, awaited, file, tied>>
    BY <1>4 DEF ProcExit, Kill, ProcEnds
  <2> QED
    BY <2>1 DEF ChargesInv, LaunchedInv, AttachedInv, Adopted, DetachedInv
<1>5. CASE UNCHANGED vars
  BY <1>5 DEF vars, ChargesInv, LaunchedInv, AttachedInv, Adopted, DetachedInv
<1> QED BY <1>1, <1>2, <1>3, <1>4, <1>5 DEF Next

\* What a Guardian launched, adopted or detached is, when it ends, being killed or on
\* the file for the next one, whatever calls, starts, stops and restarts are under way
\* and however soon it is gone - but for what it had adopted and detached before the
\* file could not be written (Run, DetachAll, StopAll, Shutdown).
THEOREM NobodyLeftBehind == Spec => []NoneLeftBehind
<1>1. Init => ChargesInv
  BY DEF Init, ChargesInv, LaunchedInv, AttachedInv, DetachedInv
<1>2. TypeOK /\ ChargesInv /\ [Next]_vars => ChargesInv'
  BY ChargesNext
<1>3. TypeOK /\ ChargesInv => NoneLeftBehind
  <2> SUFFICES ASSUME TypeOK, ChargesInv, phase = "closing", NEW p \in Charges
               PROVE  p \in doomed \cup HandedOver
    BY DEF NoneLeftBehind
  <2>0. alive \subseteq Procs /\ 0 \notin alive
    BY DEF TypeOK, Procs
  <2>1. CASE p \in Launched
    BY <2>1 DEF Launched, ChargesInv, LaunchedInv
  <2>2. CASE p \in Attached
    BY <2>2 DEF Attached, Adopted, ChargesInv, LaunchedInv, AttachedInv
  <2>3. CASE ~env.writeFails /\ p \in Detached
    <3>1. orphans \in {file.orphans, NoOrphans}
      BY <2>3 DEF ChargesInv, DetachedInv
    <3> QED BY <2>0, <2>3, <3>1 DEF Detached, HandedOver, NoOrphans
  <2> QED BY <2>1, <2>2, <2>3 DEF Charges
<1> QED BY <1>1, <1>2, <1>3, TypeCorrect, PTL DEF Spec

(***************************************************************************)
(* One supervisor, one process.                                            *)
(***************************************************************************)

\* A process number in a record, in the map of orphans or in the file is that of
\* a process launched for the service.
Owned(p, s) == p # 0 => p <= launched /\ owner[p] = s

OwnedInv ==
    /\ \A s \in Services : /\ Owned(rec[s].wrapper, s)
                           /\ Owned(orphans[s], s)
                           /\ Owned(file.orphans[s], s)
    /\ \A p \in alive : p <= launched /\ owner[p] \in Services

\* Where the process of a service is to be found: in the file while nobody has
\* read it, and then in the record, before its adoption and after it was detached
\* in the map of orphans.
Known(s) == IF phase \in {"off", "read"} THEN file.orphans[s]
            ELSE IF rec[s].wrapper # 0 THEN rec[s].wrapper ELSE orphans[s]

\* A service that is being stopped has still to be counted.
IsRunning(s) == rec[s].state \in {"running", "stopping"}

\* No process is lost, and what is live or saved as running is shown as running, or
\* was given up just now.  Calls that stop a service do so while the Guardian is up.
NoneLost ==
    /\ \A p \in alive : p = Known(owner[p])
    /\ phase # "up" => toStart = {}
    /\ phase \in {"off", "read", "adopt", "up"} => doomed = {}
    /\ phase # "off" => \A s \in Services :
                          /\ saved[s] = "running" => IsRunning(s) \/ s \in unsaved
                          /\ rec[s].wrapper \in alive => IsRunning(s)
    /\ phase \notin {"off", "up"} =>
         \A s \in Services : ~Free(s) => phase = "stopAll" /\ s \in awaited

\* Between two Guardians and while one boots: what was running is on the file.
BootingInv ==
    /\ phase = "off" => \A s \in Services :
                          saved[s] = "running" => file.orphans[s] # 0
    /\ phase = "read" => \A s \in Services :
                           /\ rec[s].wrapper = 0
                           /\ IsRunning(s) => file.orphans[s] # 0
    /\ phase = "adopt" =>
         /\ file.orphans = orphans
         /\ \A s \in Services :
              /\ s \in todo => rec[s].wrapper = 0 /\ orphans[s] # 0
              /\ IsRunning(s) => orphans[s] # 0 /\ (s \in todo \/ rec[s].wrapper # 0)
         /\ \A p \in alive : owner[p] \in todo \/ rec[owner[p]].wrapper # 0
         /\ "adopt" \in env.crashesIn =>
              \A s \in Services : rec[s].wrapper # 0 =>
                                    rec[s].wrapper = orphans[s] /\ orphans[s] \in alive

\* While it is up, everything alive is attached, and while it ends, everything
\* alive is on its way to the file, stopped, or doomed.
EndingInv ==
    /\ phase = "up" => /\ \A s \in Services : IsRunning(s) => rec[s].wrapper # 0
                       /\ \A p \in alive : rec[owner[p]].wrapper # 0
    /\ phase = "detach" =>
         \A s \in Services :
           IsRunning(s) => IF s \in todo THEN rec[s].wrapper # 0
                           ELSE rec[s].wrapper = 0 /\ orphans[s] # 0
    /\ phase = "cancel" =>
         /\ file.orphans = orphans
         /\ \A s \in Services :
              IsRunning(s) => rec[s].wrapper = 0 /\ orphans[s] # 0
    /\ phase = "stopAll" =>
         /\ \A s \in Services : IsRunning(s) => s \in todo \cup awaited
         /\ ~Careful => \A p \in alive : rec[owner[p]].wrapper # 0
    /\ phase = "closing" =>
         /\ \A s \in Services : IsRunning(s) => file.orphans[s] # 0
         /\ ~Careful => \A p \in alive : p = file.orphans[owner[p]]

CalmInv == Calm => NoneLost /\ BootingInv /\ EndingInv

\* A launch numbers its process beyond all that are owned; the others keep their
\* owners.
LEMMA LaunchOwned ==
    ASSUME TypeOK, OwnedInv, NEW s \in Services, NEW ctx \in Contexts,
           LaunchUnder(s, ctx), UNCHANGED <<orphans, file>>
    PROVE  /\ OwnedInv'
           /\ launched' \in Procs /\ launched' # 0 /\ launched' \notin alive
           /\ owner'[launched'] = s
           /\ \A p \in Procs : p <= launched => owner'[p] = owner[p]
<1>1. /\ launched \in Nat /\ launched' = launched + 1 /\ launched' \in Procs
      /\ alive \subseteq Procs
  BY GuardianAssumption DEF LaunchUnder, TypeOK, Procs, ProcOrNil
<1>2. \A t \in Services : /\ rec[t].wrapper \in ProcOrNil
                          /\ orphans[t] \in ProcOrNil
                          /\ file.orphans[t] \in ProcOrNil
  BY DEF TypeOK, Record, File
<1>3. /\ owner' = [owner EXCEPT ![launched'] = s]
      /\ alive' = alive \cup {launched'}
      /\ rec'[s].wrapper = launched'
      /\ \A t \in Services \ {s} : rec'[t] = rec[t]
  BY DEF LaunchUnder, TypeOK
<1>4. \A p \in ProcOrNil : p # 0 /\ p <= launched => /\ p \in Procs /\ p # launched'
                                                     /\ owner'[p] = owner[p]
  BY <1>1, <1>3, GuardianAssumption DEF Procs, ProcOrNil, TypeOK
<1>5. owner'[launched'] = s
  BY <1>1, <1>3 DEF TypeOK
<1>6. \A p \in ProcOrNil, t \in Services : Owned(p, t) => Owned(p, t)'
  BY <1>1, <1>4, GuardianAssumption DEF Owned, ProcOrNil
<1>7. \A t \in Services : /\ Owned(rec[t].wrapper, t)'
                          /\ Owned(orphans[t], t)'
                          /\ Owned(file.orphans[t], t)'
  <2>1. \A t \in Services : Owned(orphans[t], t)' /\ Owned(file.orphans[t], t)'
    BY <1>2, <1>6 DEF OwnedInv
  <2>2. \A t \in Services \ {s} : Owned(rec[t].wrapper, t)'
    BY <1>2, <1>3, <1>6 DEF OwnedInv
  <2>3. Owned(rec[s].wrapper, s)'
    BY <1>1, <1>3, <1>5 DEF Owned
  <2> QED BY <2>1, <2>2, <2>3
<1>8. \A p \in alive' : p <= launched' /\ owner'[p] \in Services
  BY <1>1, <1>3, <1>4, <1>5, GuardianAssumption DEF OwnedInv, Procs, ProcOrNil
<1>9. launched' \notin alive /\ \A p \in Procs : p <= launched => owner'[p] = owner[p]
  BY <1>1, <1>4, GuardianAssumption DEF OwnedInv, Procs, ProcOrNil
<1> QED BY <1>1, <1>5, <1>7, <1>8, <1>9 DEF OwnedInv

\* No step confuses whose process is whose.
LEMMA OwnedNext ==
    ASSUME TypeOK, OwnedInv, [Next]_vars
    PROVE  OwnedInv'
<1>0. /\ rec \in [Services -> Record] /\ orphans \in [Services -> ProcOrNil]
  BY DEF TypeOK
<1>a. ASSUME UNCHANGED <<launched, owner>>, alive' \subseteq alive,
             \A s \in Services :
               /\ rec'[s].wrapper \in {0, rec[s].wrapper, orphans[s]}
               /\ orphans'[s] \in {0, orphans[s], rec[s].wrapper, file.orphans[s]}
               /\ file'.orphans[s] \in {0, file.orphans[s], orphans[s]}
      PROVE  OwnedInv'
  BY <1>a DEF OwnedInv, Owned
<1>s. ASSUME NEW s \in Services, startService(s), UNCHANGED <<orphans, file>>
      PROVE  OwnedInv'
  <2>1. CASE LaunchUnder(s, "manager")
    BY <2>1, <1>s, LaunchOwned DEF Contexts
  <2>2. CASE rec[s].state = "running" \/ LaunchFails(s)
    BY <1>0, <1>s, <2>1, <2>2, <1>a DEF startService, LaunchFails, Record
  <2> QED BY <1>s, <2>1, <2>2 DEF startService
<1>t. ASSUME NEW s \in Services, stopService(s), UNCHANGED <<orphans, file>>
      PROVE  OwnedInv'
  <2>1. \A t \in Services : rec'[t].wrapper = rec[t].wrapper
    BY <1>0, <1>t DEF stopService, Record
  <2> QED BY <1>t, <2>1, <1>a DEF stopService
<1>1. CASE BootStep
  BY <1>0, <1>1, <1>a DEF BootStep, Boot, ReadRestartState, ReadOrphans, ClearRestartState,
                    NoFile, NoOrphans
<1>2. CASE EndStep
  <2>1. CASE RequestRestart \/ StopGuardian \/ Shutdown \/ Exit
    BY <2>1, <1>a DEF RequestRestart, StopGuardian, Shutdown, Exit, NoOrphans
  <2>2. CASE WriteRestartState
    BY <2>2, <1>a DEF WriteRestartState
  <2>3. CASE WriteFails \/ Crash
    BY <2>3, <1>a DEF WriteFails, Crash, TornFile, NoOrphans
  <2> QED BY <1>2, <2>1, <2>2, <2>3 DEF EndStep
<1>3. ASSUME NEW s \in Services, ServiceStep(s)
      PROVE  OwnedInv'
  <2>1. CASE Adopt(s) \/ MonitorGivesUp(s) \/ MonitorSaves(s) \/ StopEnds(s)
    BY <1>0, <2>1, <1>a DEF Adopt, MonitorGivesUp, MonitorSaves, StopEnds, Record
  <2>2. CASE AutoStart(s) \/ CallStart(s)
    BY <2>2, <1>s DEF AutoStart, CallStart
  <2>3. CASE CallStop(s) \/ StopAll(s)
    BY <2>3, <1>t DEF CallStop, StopAll
  <2>4. CASE MonitorRestarts(s)
    <3>1. rec[s].monitor \in Contexts
      BY DEF TypeOK, Record
    <3> QED BY <2>4, <3>1, LaunchOwned DEF MonitorRestarts
  <2>5. CASE Detach(s)
    BY <1>0, <2>5, <1>a DEF Detach, Record
  <2> QED BY <1>3, <2>1, <2>2, <2>3, <2>4, <2>5 DEF ServiceStep
<1>4. CASE \E p \in Procs : ProcExit(p) \/ Kill(p)
  BY <1>4, <1>a DEF ProcExit, Kill, ProcEnds
<1>5. CASE UNCHANGED vars
  BY <1>5 DEF vars, OwnedInv, Owned
<1> QED BY <1>1, <1>2, <1>3, <1>4, <1>5 DEF Next

\* A launch for a service whose only process is known to be gone loses none.
LEMMA LaunchKept ==
    ASSUME TypeOK, OwnedInv, Calm, CalmInv, NEW s \in Services,
           NEW ctx \in Contexts, LaunchUnder(s, ctx),
           UNCHANGED <<env, phase, restartMode, boots, todo, orphans, awaited,
                       unsaved, file>>,
           phase \in {"adopt", "up", "detach", "stopAll"},
           toStart' \subseteq toStart,
           \A p \in alive : owner[p] # s,
           phase # "up" => IsRunning(s) /\ rec[s].wrapper # 0,
           phase = "adopt" => "adopt" \notin env.crashesIn
    PROVE  CalmInv'
<1>1. /\ OwnedInv' /\ launched' \in Procs /\ launched' # 0 /\ launched' \notin alive
      /\ owner'[launched'] = s
      /\ \A p \in alive : owner'[p] = owner[p] /\ owner[p] \in Services
  BY LaunchOwned DEF OwnedInv, TypeOK
<1>2. /\ alive' = alive \cup {launched'} /\ doomed' = doomed
      /\ rec'[s].wrapper = launched' /\ rec'[s].state = "running"
      /\ saved'[s] = "running"
      /\ \A t \in Services \ {s} : rec'[t] = rec[t] /\ saved'[t] = saved[t]
  BY DEF LaunchUnder, TypeOK
<1>3. NoneLost /\ BootingInv /\ EndingInv
  BY DEF CalmInv
<1>4. \A t \in Services \ {s} : rec[t].wrapper # launched'
  <2>1. launched \in Nat /\ launched' = launched + 1
    BY GuardianAssumption DEF LaunchUnder, TypeOK, ProcOrNil
  <2> QED BY <1>1, <2>1 DEF OwnedInv, Owned
<1>5. NoneLost'
  <2>1. \A p \in alive' : p = Known(owner[p])'
    BY <1>1, <1>2, <1>3 DEF NoneLost, Known
  <2>2. \A t \in Services :
          /\ saved'[t] = "running" => IsRunning(t)' \/ t \in unsaved'
          /\ rec'[t].wrapper \in alive' => IsRunning(t)'
    BY <1>2, <1>3, <1>4 DEF NoneLost, IsRunning
  <2>3. /\ phase # "up" => toStart' = {}
        /\ phase \in {"off", "read", "adopt", "up"} => doomed' = {}
    BY <1>2, <1>3 DEF NoneLost
  <2>4. \A t \in Services : ~Free(t)' => ~Free(t)
    BY <1>2 DEF Free
  <2> QED BY <1>3, <2>1, <2>2, <2>3, <2>4 DEF NoneLost
<1>6. BootingInv'
  BY <1>1, <1>2, <1>3 DEF BootingInv, IsRunning
<1>7. EndingInv'
  BY <1>1, <1>2, <1>3 DEF EndingInv, IsRunning, Careful
<1> QED BY <1>5, <1>6, <1>7 DEF CalmInv

\* Where a start or a monitor launches, the service has no process.
LEMMA NobodyThere ==
    ASSUME TypeOK, Calm, CalmInv, NEW s \in Services,
           \/ phase = "up" /\ ~IsRunning(s)
           \/ /\ phase \notin {"off", "read"}
              /\ rec[s].wrapper \notin alive \cup {0}
    PROVE  \A p \in alive : owner[p] # s
<1> SUFFICES ASSUME NEW p \in alive, owner[p] = s PROVE FALSE
  OBVIOUS
<1> QED BY DEF CalmInv, NoneLost, EndingInv, Known

\* A start while the Guardian is up loses no process.
LEMMA StartKept ==
    ASSUME TypeOK, OwnedInv, Calm, CalmInv, NEW s \in Services, startService(s),
           UNCHANGED <<env, phase, restartMode, boots, todo, orphans, awaited,
                       unsaved, file>>,
           phase = "up", toStart' \subseteq toStart
    PROVE  CalmInv'
<1>1. CASE IsRunning(s)
  BY <1>1
  DEF startService, Free, IsRunning, CalmInv, NoneLost, BootingInv, EndingInv,
      Known
<1>2. CASE ~IsRunning(s) /\ LaunchUnder(s, "manager")
  BY <1>2, NobodyThere, LaunchKept DEF Contexts
<1>3. CASE ~IsRunning(s) /\ LaunchFails(s)
  <2>1. /\ rec'[s].wrapper = rec[s].wrapper /\ rec'[s].state = "failed"
        /\ \A t \in Services \ {s} : rec'[t] = rec[t]
    BY <1>3 DEF LaunchFails, TypeOK, Record
  <2>2. \A p \in alive : owner[p] \in Services
    BY DEF OwnedInv
  <2> QED
    BY <1>3, <2>1, <2>2
    DEF LaunchFails, IsRunning, CalmInv, NoneLost, BootingInv, EndingInv, Known
<1> QED BY <1>1, <1>2, <1>3 DEF startService, IsRunning

\* The first step of a stop changes what a record says, and nothing else.
LEMMA StopKept ==
    ASSUME TypeOK, OwnedInv, Calm, CalmInv, NEW s \in Services, stopService(s),
           UNCHANGED <<env, phase, restartMode, boots, toStart, orphans, unsaved,
                       file>>,
           \/ phase = "up" /\ todo' = todo
           \/ /\ phase = "stopAll" /\ todo' = todo \ {s}
              /\ awaited' = IF s \in Running THEN awaited \cup {s} ELSE awaited
    PROVE  CalmInv'
<1>0. NoneLost /\ BootingInv /\ EndingInv /\ \A p \in alive : owner[p] \in Services
  BY DEF CalmInv, OwnedInv
<1>1. /\ \A t \in Services : rec'[t].wrapper = rec[t].wrapper
      /\ \A t \in Services \ {s} : rec'[t] = rec[t]
      /\ rec'[s].state = IF rec[s].state = "running" THEN "stopping" ELSE rec[s].state
      /\ Free(s) /\ UNCHANGED <<saved, owner, alive, doomed>>
  BY DEF stopService, TypeOK, Record
<1>2. \A t \in Services : IsRunning(t)' <=> IsRunning(t)
  BY <1>1 DEF IsRunning
<1>3. \A p \in alive : p = Known(owner[p])'
  BY <1>0, <1>1 DEF NoneLost, Known
<1>4. ASSUME phase = "stopAll", NEW t \in Services
      PROVE  /\ ~Free(t)' => t \in awaited'
             /\ IsRunning(t) => t \in todo' \cup awaited'
  BY <1>0, <1>1, <1>4 DEF NoneLost, EndingInv, Free, IsRunning, Running
<1>5. NoneLost'
  BY <1>0, <1>1, <1>2, <1>3, <1>4 DEF NoneLost
<1>6. BootingInv'
  BY DEF BootingInv
<1>7. EndingInv'
  BY <1>0, <1>1, <1>2, <1>4 DEF EndingInv, Careful
<1> QED BY <1>5, <1>6, <1>7 DEF CalmInv

\* The last one ends the process of its service, and nobody else's.
LEMMA StopEndsKept ==
    ASSUME TypeOK, OwnedInv, Calm, CalmInv, NEW s \in Services, StopEnds(s)
    PROVE  CalmInv'
<1>0. NoneLost /\ BootingInv /\ EndingInv /\ \A p \in alive : owner[p] \in Services
  BY DEF CalmInv, OwnedInv
<1>1. /\ rec'[s].wrapper = 0 /\ rec'[s].state = "stopped"
      /\ saved'[s] = "stopped" /\ awaited' = awaited \ {s}
      /\ \A t \in Services \ {s} : rec'[t] = rec[t] /\ saved'[t] = saved[t]
      /\ alive' = alive \ {rec[s].wrapper} /\ doomed' = doomed \ {rec[s].wrapper}
      /\ UNCHANGED <<env, phase, owner, toStart, todo, orphans, unsaved, file>>
  BY DEF StopEnds, TypeOK
<1>2. phase \in {"up", "stopAll"} /\ ~Free(s)
  BY <1>0 DEF StopEnds, NoneLost, Free
<1>3. \A p \in alive' : p = Known(owner[p])'
  BY <1>0, <1>1, <1>2 DEF NoneLost, Known
<1>4. 0 \notin alive'
  BY <1>1 DEF TypeOK, Procs
<1>5. NoneLost'
  <2>1. \A t \in Services : ~Free(t)' => ~Free(t) /\ t # s
    BY <1>1 DEF Free
  <2>2. \A t \in Services :
          /\ saved'[t] = "running" => IsRunning(t)' \/ t \in unsaved'
          /\ rec'[t].wrapper \in alive' => IsRunning(t)'
    BY <1>0, <1>1, <1>2, <1>4 DEF NoneLost, IsRunning
  <2> QED BY <1>0, <1>1, <1>2, <1>3, <2>1, <2>2 DEF NoneLost
<1>6. BootingInv'
  BY <1>1, <1>2 DEF BootingInv
<1>7. EndingInv'
  <2>1. \A p \in alive' : owner[p] = s => rec[s].wrapper = 0
    BY <1>0, <1>1, <1>2 DEF NoneLost, Known
  <2> QED
    BY <1>0, <1>1, <1>2, <2>1 DEF EndingInv, IsRunning, Careful
<1> QED BY <1>5, <1>6, <1>7 DEF CalmInv

\* The steps of a boot and of an end.
LEMMA PhaseKept ==
    ASSUME TypeOK, OwnedInv, TetheredInv, Calm, CalmInv, BootStep \/ EndStep
    PROVE  CalmInv'
<1>0. /\ NoneLost /\ BootingInv /\ EndingInv
      /\ \A p \in alive : owner[p] \in Services
      /\ 0 \notin alive /\ alive \subseteq Procs
  BY DEF CalmInv, OwnedInv, TypeOK, Procs
<1> SUFFICES NoneLost' /\ BootingInv' /\ EndingInv'
  BY DEF CalmInv
<1> USE <1>0 DEF NoneLost, BootingInv, EndingInv, Known, IsRunning, Free, Careful
<1>1. CASE Boot
  <2>1. \A t \in Services : rec'[t].state \in States /\ rec'[t].wrapper = 0
    BY <1>1 DEF Boot, TypeOK
  <2>2. \A t \in Services : rec'[t].state = saved[t] /\ saved[t] # "stopping"
    BY <1>1 DEF Boot, TypeOK, States
  <2> QED BY <1>1, <2>1, <2>2 DEF Boot
<1>2. CASE ReadRestartState
  BY <1>2 DEF ReadRestartState, ReadOrphans, Listed
<1>3. CASE ClearRestartState
  BY <1>3 DEF ClearRestartState
<1>4. CASE RequestRestart
  BY <1>4 DEF RequestRestart
<1>5. CASE StopGuardian
  BY <1>5 DEF StopGuardian, AllFree, Running, Calm
<1>6. CASE WriteRestartState
  BY <1>6 DEF WriteRestartState
<1>7. CASE WriteFails
  BY <1>7 DEF WriteFails, AllFree, Running, Calm
<1>8. CASE Shutdown
  BY <1>8 DEF Shutdown, AllStopped
<1>9. CASE Exit
  <2>1. Careful => alive = {}
    BY <1>9 DEF Exit, TetheredInv
  <2>2. unsaved = {}
    BY <1>9 DEF Exit, Gone, Calm
  <2> QED BY <1>9, <2>1, <2>2 DEF Exit, Gone
<1>10. CASE Crash
  <2>1. phase \in {"cancel", "closing", "read", "adopt"} /\ ~Careful
        /\ phase \in env.crashesIn
    BY <1>10 DEF Crash, Calm
  <2>2. file' = file
    BY <1>10, <2>1 DEF Crash
  <2>3. \A p \in alive : p = file.orphans[owner[p]]
    BY <2>1
  <2>4. unsaved = {}
    BY <1>10 DEF Crash, Gone, Calm
  <2>5. \A t \in Services : saved[t] = "running" => file.orphans[t] # 0
    BY <2>1, <2>4
  <2> QED BY <1>10, <2>1, <2>2, <2>3, <2>4, <2>5 DEF Crash, Gone
<1> QED
  BY <1>1, <1>2, <1>3, <1>4, <1>5, <1>6, <1>7, <1>8, <1>9, <1>10
  DEF BootStep, EndStep

\* Neither do the steps of a service, whoever takes them.
LEMMA ServiceKept ==
    ASSUME TypeOK, OwnedInv, Calm, CalmInv, NEW s \in Services, ServiceStep(s)
    PROVE  CalmInv'
<1>0. /\ NoneLost /\ BootingInv /\ EndingInv
      /\ \A p \in alive : owner[p] \in Services
      /\ 0 \notin alive /\ alive \subseteq Procs
      /\ rec \in [Services -> Record] /\ orphans \in [Services -> ProcOrNil]
  BY DEF CalmInv, OwnedInv, TypeOK, Procs
<1>1. CASE Adopt(s)
  <2>1. /\ phase = "adopt" /\ s \in todo /\ rec[s].wrapper = 0 /\ orphans[s] # 0
    BY <1>0, <1>1 DEF Adopt, BootingInv
  <2>2. \A t \in Services \ {s} : rec'[t] = rec[t] /\ saved'[t] = saved[t]
    BY <1>0, <1>1 DEF Adopt, TypeOK
  <2>3. CASE orphans[s] \in alive
    <3>1. /\ rec'[s].state = "running" /\ rec'[s].wrapper = orphans[s]
      BY <1>0, <1>1, <2>3 DEF Adopt
    <3> QED
      BY <1>0, <1>1, <2>1, <2>2, <2>3, <3>1
      DEF Adopt, CalmInv, NoneLost, BootingInv, EndingInv, Known, IsRunning, Free
  <2>4. CASE orphans[s] \notin alive
    <3>1. /\ rec'[s].state = "stopped" /\ rec'[s].wrapper = 0
          /\ saved'[s] = "stopped"
      BY <1>0, <1>1, <2>1, <2>4 DEF Adopt, Record, TypeOK
    <3> QED
      BY <1>0, <1>1, <2>1, <2>2, <2>4, <3>1
      DEF Adopt, CalmInv, NoneLost, BootingInv, EndingInv, Known, IsRunning, Free
  <2> QED BY <2>3, <2>4
<1>2. CASE AutoStart(s)
  <2>1. phase = "up"
    BY <1>0, <1>2 DEF AutoStart, NoneLost
  <2> QED BY <1>2, <2>1, StartKept DEF AutoStart
<1>3. CASE CallStart(s)
  <2>1. phase = "up"
    BY <1>3 DEF CallStart, Calm
  <2> QED BY <1>3, <2>1, StartKept DEF CallStart
<1>4. CASE CallStop(s)
  <2>1. phase = "up"
    BY <1>4 DEF CallStop, Calm
  <2> QED BY <1>4, <2>1, StopKept DEF CallStop
<1>5. CASE MonitorRestarts(s)
  <2>1. phase \in {"adopt", "up", "detach", "stopAll"}
    <3>1. phase \in Phases /\ ContextLive(rec[s].monitor) /\ rec[s].monitor \in Contexts
      BY <1>0, <1>5 DEF MonitorRestarts, LaunchUnder, TypeOK, Record
    <3>2. phase \notin {"off", "closing"}
      BY <3>1 DEF ContextLive, Contexts
    <3>3. phase \notin {"read", "cancel"}
      BY <1>0, <1>5 DEF MonitorRestarts, BootingInv, EndingInv, IsRunning
    <3> QED BY <3>1, <3>2, <3>3 DEF Phases
  <2>2. \A p \in alive : owner[p] # s
    BY <1>5, <2>1, NobodyThere DEF MonitorRestarts
  <2>3. phase = "adopt" => "adopt" \notin env.crashesIn
    BY <1>0, <1>5 DEF MonitorRestarts, BootingInv
  <2>4. IsRunning(s) /\ rec[s].wrapper # 0 /\ rec[s].monitor \in Contexts
    BY <1>0, <1>5 DEF MonitorRestarts, IsRunning, Record
  <2> QED BY <1>5, <2>1, <2>2, <2>3, <2>4, LaunchKept DEF MonitorRestarts
<1>6. CASE MonitorGivesUp(s)
  <2>1. /\ rec'[s].wrapper = rec[s].wrapper
        /\ rec'[s].state \in {"stopped", "failed"}
        /\ saved' = saved /\ rec[s].wrapper \notin alive /\ unsaved' = unsaved \cup {s}
        /\ \A t \in Services \ {s} : rec'[t] = rec[t]
    BY <1>0, <1>6 DEF MonitorGivesUp, TypeOK, Record
  <2>2. \A t \in Services : rec'[t].wrapper = rec[t].wrapper
    BY <2>1
  <2>3. \A t \in Services : IsRunning(t)' => IsRunning(t)
    BY <2>1 DEF IsRunning
  <2>4. \A t \in Services : IsRunning(t) => IsRunning(t)' \/ t = s
    BY <2>1 DEF IsRunning
  <2>5. \A t \in Services : ~Free(t)' => ~Free(t)
    BY <2>1 DEF Free
  <2>6. NoneLost'
    BY <1>0, <1>6, <2>1, <2>2, <2>4, <2>5 DEF MonitorGivesUp, NoneLost, Known
  <2>7. BootingInv'
    BY <1>0, <1>6, <2>1, <2>2, <2>3 DEF MonitorGivesUp, BootingInv
  <2>8. EndingInv'
    BY <1>0, <1>6, <2>1, <2>2, <2>3 DEF MonitorGivesUp, EndingInv, Careful
  <2> QED BY <2>6, <2>7, <2>8 DEF CalmInv
<1>9. CASE MonitorSaves(s)
  <2>1. /\ saved'[s] = "running" => IsRunning(s)
        /\ unsaved' = unsaved \ {s} /\ phase # "off"
        /\ \A t \in Services \ {s} : saved'[t] = saved[t]
    BY <1>0, <1>9 DEF MonitorSaves, TypeOK, IsRunning
  <2>2. UNCHANGED <<env, phase, rec, toStart, todo, orphans, awaited, file, alive,
                    owner, doomed>>
    BY <1>9 DEF MonitorSaves
  <2>3. NoneLost'
    BY <1>0, <2>1, <2>2 DEF NoneLost, Known, IsRunning, Free
  <2>4. BootingInv' /\ EndingInv'
    BY <1>0, <2>1, <2>2 DEF BootingInv, EndingInv, IsRunning, Careful
  <2> QED BY <2>3, <2>4 DEF CalmInv
<1>10. CASE StopEnds(s)
  BY <1>10, StopEndsKept
<1>7. CASE Detach(s)
  <2>1. CASE rec[s].wrapper = 0
    <3>1. ~IsRunning(s)
      BY <1>0, <1>7, <2>1 DEF Detach, EndingInv
    <3> QED
      BY <1>0, <1>7, <2>1, <3>1
      DEF Detach, CalmInv, NoneLost, BootingInv, EndingInv, Known, IsRunning, Free
  <2>2. CASE rec[s].wrapper # 0
    <3>1. /\ rec'[s].wrapper = 0 /\ rec'[s].state = rec[s].state
          /\ orphans'[s] = rec[s].wrapper
          /\ \A t \in Services \ {s} : rec'[t] = rec[t] /\ orphans'[t] = orphans[t]
      BY <1>0, <1>7, <2>2 DEF Detach, Record
    <3> QED
      BY <1>0, <1>7, <2>2, <3>1
      DEF Detach, CalmInv, NoneLost, BootingInv, EndingInv, Known, IsRunning, Free
  <2> QED BY <2>1, <2>2
<1>8. CASE StopAll(s)
  BY <1>8, StopKept DEF StopAll
<1> QED
  BY <1>1, <1>2, <1>3, <1>4, <1>5, <1>6, <1>7, <1>8, <1>9, <1>10 DEF ServiceStep

\* A process that ends is nowhere missed.
LEMMA EndKept ==
    ASSUME TypeOK, Calm, CalmInv, NEW p \in Procs, ProcExit(p) \/ Kill(p)
    PROVE  CalmInv'
<1>0. NoneLost /\ BootingInv /\ EndingInv
  BY DEF CalmInv
\* A Guardian that may be killed while it adopts sees no process end.
<1>1. ~(phase = "adopt" /\ "adopt" \in env.crashesIn)
  BY <1>0 DEF Calm, ProcExit, Kill, NoneLost
<1>2. /\ alive' = alive \ {p} /\ doomed' = doomed \ {p}
      /\ UNCHANGED <<env, phase, rec, toStart, todo, orphans, awaited, unsaved, saved,
                    file, owner>>
  BY DEF ProcExit, Kill, ProcEnds
<1>3. NoneLost' /\ EndingInv'
  BY <1>0, <1>2 DEF NoneLost, EndingInv, Known, IsRunning, Free, Careful
<1>4. BootingInv'
  BY <1>0, <1>1, <1>2 DEF BootingInv, IsRunning
<1> QED BY <1>3, <1>4 DEF CalmInv

\* Every step keeps track of every process.
LEMMA CalmNext ==
    ASSUME TypeOK, OwnedInv, TetheredInv, CalmInv, [Next]_vars
    PROVE  CalmInv'
<1>0. Calm' => Calm
  <2>1. env' = env
    BY DEF Next, vars, BootStep, Boot, ReadRestartState, ClearRestartState,
           EndStep, RequestRestart, StopGuardian, WriteRestartState, WriteFails,
           Shutdown, Exit, Crash, ServiceStep, Adopt, AutoStart, CallStart,
           CallStop, StopEnds, MonitorRestarts, MonitorGivesUp, MonitorSaves,
           Detach, StopAll, ProcExit, Kill, ProcEnds
  <2> QED BY <2>1 DEF Calm
<1> SUFFICES ASSUME Calm PROVE CalmInv'
  BY <1>0 DEF CalmInv
<1>1. CASE BootStep \/ EndStep
  BY <1>1, PhaseKept
<1>2. CASE \E s \in Services : ServiceStep(s)
  BY <1>2, ServiceKept
<1>3. CASE \E p \in Procs : ProcExit(p) \/ Kill(p)
  BY <1>3, EndKept
<1>4. CASE UNCHANGED vars
  BY <1>4 DEF vars, CalmInv, Calm, NoneLost, BootingInv, EndingInv, Known, IsRunning,
              Free, Careful
<1> QED BY <1>1, <1>2, <1>3, <1>4 DEF Next

\* At first there is nothing to keep track of.
LEMMA InitCalm == Init => OwnedInv /\ CalmInv
<1> SUFFICES ASSUME Init PROVE OwnedInv /\ CalmInv
  OBVIOUS
<1>1. \A s \in Services : /\ rec[s].wrapper = 0 /\ orphans[s] = 0
                          /\ file.orphans[s] = 0 /\ saved[s] = "none"
  BY DEF Init, NoOrphans, NoFile
<1>2. phase = "off" /\ alive = {} /\ doomed = {} /\ toStart = {}
  BY DEF Init
<1>3. OwnedInv
  BY <1>1, <1>2 DEF OwnedInv, Owned
<1>4. NoneLost /\ BootingInv /\ EndingInv
  BY <1>1, <1>2 DEF NoneLost, BootingInv, EndingInv
<1> QED BY <1>3, <1>4 DEF CalmInv

\* What the two theorems below rest on, in every reachable state.
LEMMA CalmAlways == Spec => [](TypeOK /\ OwnedInv /\ TetheredInv /\ CalmInv)
<1>1. Init => TetheredInv
  BY DEF Init, TetheredInv
<1>2. TypeOK /\ OwnedInv /\ [Next]_vars => OwnedInv'
  BY OwnedNext
<1>3. TypeOK /\ OwnedInv /\ TetheredInv /\ CalmInv /\ [Next]_vars => CalmInv'
  BY CalmNext
<1> QED
  BY InitTyped, StepTyped, <1>1, StepTethered, InitCalm, <1>2, <1>3, PTL DEF Spec

\* When a Guardian is up, nothing an earlier one left runs unsupervised, and no
\* service is shown as running without a process (Run, AdoptOrphans).
THEOREM BootCorrect == Spec => []BootRecoversAll
<1>1. TypeOK /\ OwnedInv /\ CalmInv => BootRecoversAll
  <2> SUFFICES ASSUME TypeOK, OwnedInv, CalmInv, Calm, phase = "up",
                      NEW s \in Services
               PROVE  /\ Copies[s] # {} => s \in Held
                      /\ rec[s].state = "running" => rec[s].wrapper # 0
    BY DEF BootRecoversAll
  <2>1. NoneLost /\ EndingInv
    BY DEF CalmInv
  <2>2. IsRunning(s) => rec[s].wrapper # 0
    BY <2>1 DEF EndingInv
  <2>3. ASSUME NEW p \in alive, owner[p] = s
        PROVE  rec[s].wrapper = p
    BY <2>1, <2>3 DEF NoneLost, EndingInv, Known
  <2> QED BY <2>2, <2>3 DEF Copies, Held, IsRunning
<1> QED BY CalmAlways, <1>1, PTL

(***************************************************************************)
(* Every step is one of the promise.                                       *)
(***************************************************************************)

Kept == Calm => Promise!Next

Same == UNCHANGED <<Copies, Held>>

\* A step that leaves the processes and what is attached to the records alone.
LEMMA StutterPromised ==
    ASSUME UNCHANGED <<alive, owner>>, phase # "off", phase' # "off",
           \A s \in Services : rec'[s].wrapper = rec[s].wrapper
    PROVE  Same
<1>1. Copies' = Copies
  BY DEF Copies
<1>2. Held' = Held
  BY <1>1 DEF Held
<1> QED BY <1>1, <1>2 DEF Same

\* A launch where there is no process is one of the promise.
LEMMA LaunchPromised ==
    ASSUME TypeOK, OwnedInv, NEW s \in Services, NEW ctx \in Contexts,
           LaunchUnder(s, ctx), UNCHANGED <<orphans, file>>,
           phase # "off", phase' # "off", \A p \in alive : owner[p] # s
    PROVE  Promise!Next
<1>1. /\ launched' \in Procs /\ launched' \notin alive /\ owner'[launched'] = s
      /\ \A p \in alive : owner'[p] = owner[p]
  BY LaunchOwned DEF OwnedInv, TypeOK
<1>2. /\ alive' = alive \cup {launched'} /\ rec'[s].wrapper = launched'
      /\ \A t \in Services \ {s} : rec'[t] = rec[t]
  BY DEF LaunchUnder, TypeOK
<1>3. Copies[s] = {} /\ Copies'[s] = {launched'}
  BY <1>1, <1>2 DEF Copies
<1>4. \A t \in Services \ {s} : Copies'[t] = Copies[t]
  BY <1>1, <1>2 DEF Copies
<1>5. Copies' = [Copies EXCEPT ![s] = {launched'}]
  BY <1>3, <1>4 DEF Copies
<1>6. Held' = Held \cup {s}
  BY <1>2, <1>3, <1>4 DEF Held
<1> QED BY <1>1, <1>3, <1>5, <1>6 DEF Promise!Next, Promise!Launch

\* So is a start while the Guardian is up.
LEMMA StartPromised ==
    ASSUME TypeOK, OwnedInv, CalmInv, Calm, NEW s \in Services, startService(s),
           UNCHANGED <<orphans, file>>, phase = "up", phase' = "up"
    PROVE  Promise!Next \/ Same
<1>1. CASE IsRunning(s)
  BY <1>1, StutterPromised DEF startService, IsRunning, Free
<1>2. CASE ~IsRunning(s) /\ LaunchUnder(s, "manager")
  BY <1>2, NobodyThere, LaunchPromised DEF Contexts
<1>3. CASE ~IsRunning(s) /\ LaunchFails(s)
  <2>1. \A t \in Services : rec'[t].wrapper = rec[t].wrapper
    BY <1>3 DEF LaunchFails, TypeOK, Record
  <2> QED BY <1>3, <2>1, StutterPromised DEF LaunchFails
<1> QED BY <1>1, <1>2, <1>3 DEF startService, IsRunning

\* The end of the only process of a service is an end.
LEMMA EndPromised ==
    ASSUME TypeOK, NEW s \in Services, NEW p \in alive, owner[p] = s,
           \A q \in alive : owner[q] = s => q = p,
           alive' = alive \ {p}, owner' = owner,
           phase # "off" <=> phase' # "off",
           \A t \in Services \ {s} : rec'[t] = rec[t]
    PROVE  Promise!Next
<1>1. Copies'[s] = {} /\ \A t \in Services \ {s} : Copies'[t] = Copies[t]
  BY DEF Copies
<1>2. Copies' = [Copies EXCEPT ![s] = {}]
  <2>1. /\ Copies = [t \in Services |-> Copies[t]]
        /\ Copies' = [t \in Services |-> Copies'[t]]
    BY DEF Copies
  <2> QED BY <1>1, <2>1
<1>3. Held' = Held \ {s}
  BY <1>1 DEF Held
<1> QED BY <1>2, <1>3 DEF Promise!Next, Promise!End

\* A stop ends the process of the record, if it is there, with its last step.
LEMMA StopPromised ==
    ASSUME TypeOK, OwnedInv, CalmInv, Calm, NEW s \in Services, StopEnds(s)
    PROVE  Promise!Next \/ Same
<1>0. owner' = owner /\ 0 \notin alive /\ phase' = phase /\ phase # "off"
  BY DEF StopEnds, TypeOK, Procs
<1>a. phase \in {"up", "stopAll"}
  BY DEF StopEnds, CalmInv, NoneLost, Free
<1>1. /\ alive' = alive \ {rec[s].wrapper} /\ rec'[s].wrapper = 0
      /\ \A t \in Services \ {s} : rec'[t] = rec[t]
  BY DEF StopEnds, TypeOK
<1>2. CASE rec[s].wrapper \in alive
  <2>1. rec[s].wrapper # 0 /\ owner[rec[s].wrapper] = s
    BY <1>0, <1>2 DEF OwnedInv, Owned
  <2>2. \A q \in alive : owner[q] = s => q = rec[s].wrapper
    BY <1>a, <2>1 DEF CalmInv, NoneLost, Known
  <2> QED BY <1>0, <1>1, <1>2, <2>1, <2>2, EndPromised
<1>3. CASE rec[s].wrapper \notin alive
  <2>1. Copies' = Copies
    BY <1>0, <1>1, <1>3 DEF Copies
  <2>2. Held' = Held
    BY <1>0, <1>1, <1>3, <2>1 DEF Held, Copies
  <2> QED BY <2>1, <2>2 DEF Same
<1> QED BY <1>2, <1>3

\* The steps of a boot and of an end: a Guardian that is gone holds nothing.
LEMMA PhasePromised ==
    ASSUME TypeOK, BootStep \/ EndStep
    PROVE  Promise!Next \/ Same
<1>0. 0 \notin alive
  BY DEF TypeOK, Procs
<1>1. CASE Boot
  <2>1. Copies' = Copies
    BY <1>1 DEF Boot, Copies
  <2>2. Held' = {} /\ Held = {}
    BY <1>0, <1>1, <2>1 DEF Boot, Held, Copies
  <2> QED BY <2>1, <2>2 DEF Same
<1>2. CASE \/ ReadRestartState \/ ClearRestartState \/ RequestRestart
           \/ StopGuardian \/ WriteRestartState \/ WriteFails \/ Shutdown
  <2>1. /\ UNCHANGED <<alive, owner, rec>> /\ phase # "off" /\ phase' # "off"
    BY <1>2
    DEF ReadRestartState, ClearRestartState, RequestRestart, StopGuardian,
        WriteRestartState, WriteFails, Shutdown, AllStopped
  <2> QED BY <2>1, StutterPromised
<1>3. CASE Exit \/ Crash
  <2>1. Copies' = Copies /\ phase' = "off"
    BY <1>3 DEF Exit, Crash, Gone, Copies
  <2>2. Held' = Held \ Held /\ Held \in SUBSET Services
    BY <2>1 DEF Held
  <2> QED BY <2>1, <2>2 DEF Promise!Next, Promise!Release
<1> QED BY <1>1, <1>2, <1>3 DEF BootStep, EndStep

\* A step of a service takes up, starts, ends or releases one process at most.
LEMMA ServicePromised ==
    ASSUME TypeOK, OwnedInv, CalmInv, Calm, NEW s \in Services, ServiceStep(s)
    PROVE  Promise!Next \/ Same
<1>0. /\ NoneLost /\ BootingInv /\ EndingInv
      /\ 0 \notin alive /\ rec \in [Services -> Record]
  BY DEF CalmInv, TypeOK, Procs
<1>1. CASE Adopt(s)
  <2>1. /\ UNCHANGED <<alive, owner, phase>> /\ phase = "adopt"
        /\ \A t \in Services \ {s} : rec'[t] = rec[t]
    BY <1>0, <1>1 DEF Adopt
  <2>2. Copies' = Copies
    BY <2>1 DEF Copies
  <2>3. CASE orphans[s] \in alive
    <3>1. rec'[s].wrapper = orphans[s]
      BY <1>0, <1>1, <2>3 DEF Adopt
    <3>2. orphans[s] \in Copies[s]
      BY <1>0, <2>3 DEF OwnedInv, Owned, Copies
    <3>3. Held' = Held \cup {s}
      BY <2>1, <2>2, <3>1, <3>2 DEF Held
    <3> QED BY <2>2, <3>2, <3>3 DEF Promise!Next, Promise!TakeUp
  <2>4. CASE orphans[s] \notin alive
    <3>1. rec'[s].wrapper = rec[s].wrapper
      BY <1>0, <1>1, <2>4 DEF Adopt, Record
    <3> QED BY <2>1, <3>1, StutterPromised
  <2> QED BY <2>3, <2>4
<1>2. CASE AutoStart(s) \/ CallStart(s)
  <2>1. phase = "up"
    BY <1>0, <1>2 DEF AutoStart, CallStart, NoneLost, Calm
  <2> QED BY <1>2, <2>1, StartPromised DEF AutoStart, CallStart
<1>3. CASE CallStop(s) \/ StopAll(s)
  <2>1. phase \in {"up", "stopAll"}
    BY <1>3 DEF CallStop, StopAll, Calm
  <2>2. \A t \in Services : rec'[t].wrapper = rec[t].wrapper
    BY <1>0, <1>3 DEF CallStop, StopAll, stopService, Record
  <2> QED BY <1>3, <2>1, <2>2, StutterPromised DEF CallStop, StopAll, stopService
<1>7. CASE StopEnds(s)
  BY <1>7, StopPromised
<1>8. CASE MonitorSaves(s)
  BY <1>8, StutterPromised DEF MonitorSaves
<1>4. CASE MonitorRestarts(s)
  <2>1. phase \notin {"off", "read"} /\ rec[s].monitor \in Contexts
    <3>1. rec[s].monitor \in Contexts /\ ContextLive(rec[s].monitor)
      BY <1>0, <1>4 DEF MonitorRestarts, LaunchUnder, Record
    <3>2. phase # "off"
      BY <3>1 DEF ContextLive, Contexts
    <3>3. phase # "read"
      BY <1>0, <1>4 DEF MonitorRestarts, BootingInv
    <3> QED BY <3>1, <3>2, <3>3
  <2>2. \A p \in alive : owner[p] # s
    BY <1>4, <2>1, NobodyThere DEF MonitorRestarts
  <2> QED BY <1>4, <2>1, <2>2, LaunchPromised DEF MonitorRestarts
<1>5. CASE MonitorGivesUp(s)
  <2>1. \A t \in Services : rec'[t].wrapper = rec[t].wrapper
    BY <1>0, <1>5 DEF MonitorGivesUp, Record
  <2> QED BY <1>5, <2>1, StutterPromised DEF MonitorGivesUp
<1>6. CASE Detach(s)
  <2>1. CASE rec[s].wrapper = 0
    BY <1>6, <2>1, StutterPromised DEF Detach
  <2>2. CASE rec[s].wrapper # 0
    <3>1. /\ rec'[s].wrapper = 0 /\ \A t \in Services \ {s} : rec'[t] = rec[t]
          /\ UNCHANGED <<phase, alive, owner>> /\ phase = "detach"
      BY <1>0, <1>6, <2>2 DEF Detach, Record
    <3>2. Copies' = Copies
      BY <3>1 DEF Copies
    <3>3. Held' = Held \ {s}
      BY <1>0, <3>1, <3>2 DEF Held, Copies
    <3> QED BY <3>2, <3>3 DEF Promise!Next, Promise!Release
  <2> QED BY <2>1, <2>2
<1> QED
  BY <1>1, <1>2, <1>3, <1>4, <1>5, <1>6, <1>7, <1>8 DEF ServiceStep

\* Under quiet circumstances every step of the Guardian, its services and their
\* processes is a step of the promise, or none at all.
LEMMA StepPromised ==
    ASSUME TypeOK, OwnedInv, CalmInv, [Next]_vars
    PROVE  [Kept]_<<Copies, Held>>
<1> SUFFICES ASSUME Calm PROVE Promise!Next \/ Same
  BY DEF Kept, Same
<1>1. CASE BootStep \/ EndStep
  BY <1>1, PhasePromised
<1>2. CASE \E s \in Services : ServiceStep(s)
  BY <1>2, ServicePromised
<1>3. ASSUME NEW p \in Procs, ProcExit(p) \/ Kill(p)
      PROVE  Promise!Next
  <2>1. p \in alive /\ owner[p] \in Services
    BY <1>3 DEF ProcExit, Kill, TypeOK, OwnedInv
  <2>2. \A q \in alive : owner[q] = owner[p] => q = p
    BY <2>1 DEF CalmInv, NoneLost
  <2> QED BY <1>3, <2>1, <2>2, EndPromised DEF ProcExit, Kill, ProcEnds
<1>4. CASE UNCHANGED vars
  BY <1>4 DEF vars, Same, Copies, Held
<1> QED BY <1>1, <1>2, <1>3, <1>4 DEF Next

\* The Guardian implements the promise: one process for a service at a time, and
\* a new one only where there is none, through adoptions, hand-overs and kills
\* (AdoptOrphans, DetachAll, startService, writeRestartState).
THEOREM SupervisionImplemented == Spec => ImplementsSupervision
<1>1. Init => Promise!Init
  <2> SUFFICES ASSUME Init PROVE Promise!Init
    OBVIOUS
  <2>1. Copies = [s \in Services |-> {}]
    BY DEF Init, Copies
  <2>2. Held = {}
    BY DEF Init, Held
  <2> QED BY <2>1, <2>2 DEF Promise!Init
<1>2. TypeOK /\ OwnedInv /\ CalmInv /\ [Next]_vars => [Kept]_<<Copies, Held>>
  BY StepPromised
<1>3. ImplementsSupervision <=> Promise!Init /\ [][Kept]_<<Copies, Held>>
  BY DEF ImplementsSupervision, Kept
<1> QED BY CalmAlways, <1>1, <1>2, <1>3, PTL DEF Spec

-----------------------------------------------------------------------------
(* What follows for a service, and what holds in every environment.        *)

\* The abstract specification keeps what it is for: a launch needs an empty place,
\* and letting go or taking up makes no process.
THEOREM PromiseIsEnough == Promise!Spec => []Promise!OneCopy
<1>1. Promise!Init => Promise!OneCopy
  BY DEF Promise!Init, Promise!OneCopy
<1>2. Promise!OneCopy /\ [Promise!Next]_<<Copies, Held>> => Promise!OneCopy'
  <2> SUFFICES ASSUME Promise!OneCopy, [Promise!Next]_<<Copies, Held>>
               PROVE  Promise!OneCopy'
    OBVIOUS
  <2>0. /\ DOMAIN Copies = Services /\ Copies = [s \in Services |-> Copies[s]]
        /\ DOMAIN Copies' = Services
    BY DEF Copies
  <2>1. ASSUME NEW s \in Services, NEW p \in Procs, Promise!Launch(s, p)
        PROVE  Promise!OneCopy'
    BY <2>0, <2>1 DEF Promise!Launch, Promise!OneCopy
  <2>2. ASSUME NEW s \in Services, Promise!End(s)
        PROVE  Promise!OneCopy'
    BY <2>0, <2>2 DEF Promise!End, Promise!OneCopy
  <2>3. CASE Copies' = Copies
    BY <2>3 DEF Promise!OneCopy
  <2> QED
    BY <2>1, <2>2, <2>3 DEF Promise!Next, Promise!TakeUp, Promise!Release
<1> QED BY <1>1, <1>2, PTL DEF Promise!Spec

\* From one Guardian to the next, through adoptions, hand-overs and kills on the way,
\* no service ever has two processes (AdoptOrphans, DetachAll, startService).
OneProcessEach == Calm => Promise!OneCopy

THEOREM OneProcessCorrect == Spec => []OneProcessEach
<1>1. TypeOK /\ OwnedInv /\ CalmInv => OneProcessEach
  <2> SUFFICES ASSUME TypeOK, CalmInv, Calm, NEW s \in Services,
                      NEW p \in Copies[s], NEW q \in Copies[s]
               PROVE  p = q
    BY DEF OneProcessEach, Promise!OneCopy
  <2>1. /\ p \in alive /\ q \in alive /\ owner[p] = s /\ owner[q] = s
    BY DEF Copies
  <2> QED BY <2>1 DEF CalmInv, NoneLost
<1> QED BY CalmAlways, <1>1, PTL

\* No Guardian, however the one before it ended, attaches, hands over or adopts for one
\* service the process of another, and no process is in two records.
NeverMixedUp ==
    \A s, t \in Services :
      \A p \in {rec[s].wrapper, orphans[s], file.orphans[s]} \ {0} :
        p \in {rec[t].wrapper, orphans[t], file.orphans[t]} => s = t

\* The file and the map of orphans keep each process under its service's name, whatever
\* calls, crashes and failed writes come between (DetachAll, AdoptOrphans).
THEOREM NeverMixedUpCorrect == Spec => []NeverMixedUp
<1>1. OwnedInv => NeverMixedUp
  BY DEF OwnedInv, Owned, NeverMixedUp
<1> QED BY CalmAlways, <1>1, PTL

\* The store says that a service runs exactly where its record does, except while a
\* stop has the service's lock or a monitor that has given it up has still to save:
\* in every environment, whatever ends a Guardian and its processes.
StoreTellsRunning ==
    phase # "off" =>
      \A s \in Services :
        Free(s) /\ s \notin unsaved => (saved[s] = "running" <=> rec[s].state = "running")

\* Whoever makes a service running, or no longer running, saves that before it lets go
\* of the lock (startService, stopService, AdoptOrphans), or, if it is the monitor, in
\* a second critical section that may come after another start; a failed start is not
\* saved, and changes neither.  So what the next Guardian shows as running can be
\* wrong only by what was under way when this one ended, and by what its processes did.
THEOREM StoreCorrect == Spec => []StoreTellsRunning
<1>1. Init => StoreTellsRunning
  BY DEF Init, StoreTellsRunning
<1>2. TypeOK /\ StoreTellsRunning /\ [Next]_vars => StoreTellsRunning'
  <2> SUFFICES ASSUME TypeOK, StoreTellsRunning, [Next]_vars
               PROVE  StoreTellsRunning'
    OBVIOUS
  <2>0. /\ rec \in [Services -> Record] /\ saved \in [Services -> States]
    BY DEF TypeOK
  <2> USE <2>0 DEF StoreTellsRunning, Record, Free
  <2>a. ASSUME phase' # "off" => phase # "off", UNCHANGED <<saved, unsaved>>,
               \A s \in Services : rec'[s].state = rec[s].state
        PROVE  StoreTellsRunning'
    BY <2>a
  <2>l. ASSUME NEW s \in Services, NEW c, LaunchUnder(s, c), unsaved' = unsaved,
               phase' = phase
        PROVE  StoreTellsRunning'
    BY <2>l DEF LaunchUnder
  <2>s. ASSUME NEW s \in Services, startService(s), unsaved' = unsaved, phase' = phase
        PROVE  StoreTellsRunning'
    <3>1. CASE rec[s].state = "running"
      BY <2>s, <3>1, <2>a DEF startService
    <3>2. CASE rec[s].state # "running" /\ LaunchUnder(s, "manager")
      BY <2>s, <3>2, <2>l
    <3>3. CASE rec[s].state # "running" /\ LaunchFails(s)
      BY <2>s, <3>3 DEF startService, LaunchFails
    <3> QED BY <2>s, <3>1, <3>2, <3>3 DEF startService
  <2>t. ASSUME NEW s \in Services, stopService(s), unsaved' = unsaved, phase' = phase
        PROVE  StoreTellsRunning'
    BY <2>t DEF stopService
  <2>1. CASE Boot
    BY <2>1 DEF Boot
  <2>2. CASE ReadRestartState \/ ClearRestartState \/ EndStep
    <3>1. CASE Exit \/ Crash
      BY <3>1 DEF Exit, Crash, Gone
    <3>2. CASE ~(Exit \/ Crash)
      <4>1. phase # "off" /\ UNCHANGED <<rec, saved, unsaved>>
        BY <2>2, <3>2
        DEF ReadRestartState, ClearRestartState, EndStep, RequestRestart,
            StopGuardian, WriteRestartState, WriteFails, Shutdown, AllStopped
      <4> QED BY <4>1, <2>a
    <3> QED BY <3>1, <3>2
  <2>3. ASSUME NEW s \in Services, ServiceStep(s)
        PROVE  StoreTellsRunning'
    <3>1. CASE Adopt(s)
      BY <3>1 DEF Adopt
    <3>2. CASE AutoStart(s) \/ CallStart(s)
      BY <3>2, <2>s DEF AutoStart, CallStart
    <3>3. CASE CallStop(s) \/ StopAll(s)
      BY <3>3, <2>t DEF CallStop, StopAll
    <3>4. CASE MonitorRestarts(s)
      BY <3>4, <2>l DEF MonitorRestarts
    <3>5. CASE MonitorGivesUp(s)
      BY <3>5 DEF MonitorGivesUp
    <3>6. CASE MonitorSaves(s)
      BY <3>6 DEF MonitorSaves
    <3>7. CASE StopEnds(s)
      BY <3>7 DEF StopEnds
    <3>8. CASE Detach(s)
      <4>1. /\ UNCHANGED <<phase, saved, unsaved>>
            /\ \A t \in Services : rec'[t].state = rec[t].state
        BY <3>8 DEF Detach
      <4> QED BY <4>1, <2>a
    <3> QED
      BY <2>3, <3>1, <3>2, <3>3, <3>4, <3>5, <3>6, <3>7, <3>8 DEF ServiceStep
  <2>4. CASE \E p \in Procs : ProcExit(p) \/ Kill(p)
    BY <2>4, <2>a DEF ProcExit, Kill, ProcEnds
  <2>5. CASE UNCHANGED vars
    BY <2>5 DEF vars
  <2> QED BY <2>1, <2>2, <2>3, <2>4, <2>5 DEF Next, BootStep
<1> QED BY <1>1, <1>2, TypeCorrect, PTL DEF Spec

(***************************************************************************)
(* What a hand-over leaves alone.                                          *)
(***************************************************************************)

Ending == {"detach", "stopAll", "cancel", "closing"}

\* What this Guardian cancels reaches the processes it launched, and no process that
\* an earlier one did: an adopted process is alive until its service is stopped or it
\* ends by itself, and once it is on its way to the file nothing has it attached.
AdoptedInv ==
    ~env.exits =>
      /\ \A p \in doomed : tied[p] # "none"
      /\ phase # "off" =>
           \A s \in Services :
             rec[s].wrapper # 0 /\ tied[rec[s].wrapper] = "none"
               => rec[s].wrapper \in alive
      /\ phase \in Ending =>
           \A s \in Services :
             orphans[s] # 0 => /\ rec[s].wrapper # orphans[s]
                               /\ tied[orphans[s]] = "none" => orphans[s] \in alive

\* A process that the Guardian adopted, and hands over again, runs on when the
\* Guardian is gone.
AdoptedContinue ==
    [][(~env.exits /\ Exit) =>
         \A s \in Services :
           orphans[s] # 0 /\ tied[orphans[s]] = "none" => orphans[s] \in alive']_vars

\* A launch adds a process of this Guardian, which no map of orphans has.
LEMMA LaunchSpares ==
    ASSUME TypeOK, OwnedInv, AdoptedInv, NEW s \in Services, NEW ctx \in Contexts,
           LaunchUnder(s, ctx), UNCHANGED <<env, phase, orphans>>
    PROVE  AdoptedInv'
<1>0. /\ launched \in Nat /\ launched' = launched + 1 /\ launched' \in Procs
  BY GuardianAssumption DEF LaunchUnder, TypeOK, Procs, ProcOrNil
<1>c. ctx # "none"
  BY DEF LaunchUnder, ContextLive
<1>1. launched \in Nat /\ launched' = launched + 1 /\ launched' \in Procs /\ ctx # "none"
  BY <1>0, <1>c
<1>2. /\ alive' = alive \cup {launched'} /\ doomed' = doomed
      /\ tied'[launched'] = ctx
      /\ \A p \in Procs \ {launched'} : tied'[p] = tied[p]
      /\ rec'[s].wrapper = launched'
      /\ \A t \in Services \ {s} : rec'[t] = rec[t]
  BY <1>1 DEF LaunchUnder, TypeOK
<1>3. \A p \in doomed : p \in Procs
  BY DEF TypeOK
<1>4. \A p \in ProcOrNil : p # 0 => p \in Procs
  BY GuardianAssumption DEF Procs, ProcOrNil
<1>5. \A t \in Services : /\ rec[t].wrapper \in ProcOrNil /\ orphans[t] \in ProcOrNil
                          /\ orphans[t] # 0 => orphans[t] # launched'
                          /\ rec[t].wrapper # launched'
  BY <1>1 DEF TypeOK, Record, OwnedInv, Owned
<1>6. ASSUME ~env.exits, NEW p \in doomed'
      PROVE  tied'[p] # "none"
  BY <1>1, <1>2, <1>3, <1>6 DEF AdoptedInv
<1>7. ASSUME ~env.exits, phase # "off", NEW t \in Services, rec'[t].wrapper # 0,
             tied'[rec'[t].wrapper] = "none"
      PROVE  rec'[t].wrapper \in alive'
  BY <1>1, <1>2, <1>4, <1>5, <1>7 DEF AdoptedInv
<1>8. ASSUME ~env.exits, phase \in Ending, NEW t \in Services, orphans[t] # 0
      PROVE  /\ rec'[t].wrapper # orphans[t]
             /\ tied'[orphans[t]] = "none" => orphans[t] \in alive'
  BY <1>1, <1>2, <1>4, <1>5, <1>8 DEF AdoptedInv
<1> QED BY <1>6, <1>7, <1>8 DEF AdoptedInv

\* A start adds at most such a process.
LEMMA StartSpares ==
    ASSUME TypeOK, OwnedInv, AdoptedInv, NEW s \in Services, startService(s),
           UNCHANGED <<env, phase, orphans>>
    PROVE  AdoptedInv'
<1>1. CASE LaunchUnder(s, "manager")
  BY <1>1, LaunchSpares DEF Contexts
<1>2. CASE UNCHANGED <<alive, tied, doomed>>
           /\ \A t \in Services : rec'[t].wrapper = rec[t].wrapper
  BY <1>2 DEF AdoptedInv
<1>3. CASE LaunchFails(s)
  <2>1. \A t \in Services : rec'[t].wrapper = rec[t].wrapper
    BY <1>3 DEF LaunchFails, TypeOK, Record
  <2> QED BY <1>2, <1>3, <2>1 DEF LaunchFails
<1> QED BY <1>1, <1>2, <1>3 DEF startService

\* A stop ends the process of its service, and of no other.
LEMMA StopSpares ==
    ASSUME TypeOK, OwnedInv, AdoptedInv, NEW s \in Services, StopEnds(s)
    PROVE  AdoptedInv'
<1>1. /\ alive' = alive \ {rec[s].wrapper} /\ doomed' \subseteq doomed
      /\ rec'[s].wrapper = 0 /\ UNCHANGED <<env, phase, orphans, tied>>
      /\ \A t \in Services \ {s} : rec'[t] = rec[t]
  BY DEF StopEnds, TypeOK
<1>2. \A t \in Services \ {s} : rec[t].wrapper # 0 => rec[t].wrapper # rec[s].wrapper
  BY DEF OwnedInv, Owned
<1>3. \A t \in Services \ {s} : orphans[t] # 0 => orphans[t] # rec[s].wrapper
  BY DEF OwnedInv, Owned
<1>4. ASSUME ~env.exits, phase \in Ending, NEW t \in Services, orphans[t] # 0
      PROVE  /\ rec'[t].wrapper # orphans[t]
             /\ tied[orphans[t]] = "none" => orphans[t] \in alive'
  BY <1>1, <1>3, <1>4 DEF AdoptedInv
<1>5. ASSUME ~env.exits, phase # "off", NEW t \in Services, rec'[t].wrapper # 0,
             tied[rec'[t].wrapper] = "none"
      PROVE  rec'[t].wrapper \in alive'
  BY <1>1, <1>2, <1>5 DEF AdoptedInv
<1> QED BY <1>1, <1>4, <1>5 DEF AdoptedInv

\* Every step spares what was adopted.
LEMMA SparedNext ==
    ASSUME TypeOK, OwnedInv, AdoptedInv, [Next]_vars
    PROVE  AdoptedInv'
<1>0. /\ rec \in [Services -> Record] /\ orphans \in [Services -> ProcOrNil]
      /\ tied \in [Procs -> Contexts] /\ doomed \subseteq alive /\ alive \subseteq Procs
  BY DEF TypeOK
<1>1. CASE BootStep
  BY <1>1 DEF BootStep, Boot, ReadRestartState, ClearRestartState, AdoptedInv, Ending
<1>2. CASE EndStep
  <2>1. CASE RequestRestart \/ WriteRestartState \/ WriteFails
    BY <2>1 DEF RequestRestart, WriteRestartState, WriteFails, AdoptedInv, Ending
  <2>2. CASE StopGuardian
    BY <2>2 DEF StopGuardian, TiedTo, NoOrphans, AdoptedInv, Ending
  <2>3. CASE Shutdown
    BY <2>3 DEF Shutdown, AllStopped, TiedTo, AdoptedInv, Ending
  <2>4. CASE Exit \/ Crash
    BY <2>4 DEF Exit, Crash, Gone, AdoptedInv, Ending
  <2> QED BY <1>2, <2>1, <2>2, <2>3, <2>4 DEF EndStep
<1>3. ASSUME NEW s \in Services, ServiceStep(s)
      PROVE  AdoptedInv'
  <2>1. CASE Adopt(s)
    <3>1. /\ phase = "adopt" /\ phase' = phase /\ UNCHANGED <<env, alive, tied, doomed>>
          /\ \A t \in Services : \/ rec'[t].wrapper = rec[t].wrapper
                                 \/ rec'[t].wrapper \in alive
      BY <1>0, <2>1 DEF Adopt, Record
    <3> QED BY <3>1 DEF AdoptedInv, Ending
  <2>2. CASE AutoStart(s) \/ CallStart(s)
    BY <2>2, StartSpares DEF AutoStart, CallStart
  <2>3. CASE StopEnds(s)
    BY <2>3, StopSpares
  <2>4. CASE MonitorRestarts(s)
    <3>1. rec[s].monitor \in Contexts
      BY <1>0 DEF Record
    <3> QED BY <2>4, <3>1, LaunchSpares DEF MonitorRestarts
  <2>5. CASE CallStop(s) \/ StopAll(s) \/ MonitorGivesUp(s) \/ MonitorSaves(s)
    <3>1. /\ \A t \in Services : rec'[t].wrapper = rec[t].wrapper
          /\ UNCHANGED <<env, phase, orphans, alive, tied, doomed>>
      BY <1>0, <2>5
      DEF CallStop, StopAll, stopService, MonitorGivesUp, MonitorSaves, Record
    <3> QED BY <3>1 DEF AdoptedInv
  <2>6. CASE Detach(s)
    <3>1. CASE rec[s].wrapper = 0
      BY <2>6, <3>1 DEF Detach, AdoptedInv
    <3>2. CASE rec[s].wrapper # 0
      <4>1. /\ orphans'[s] = rec[s].wrapper /\ rec'[s].wrapper = 0
            /\ \A t \in Services \ {s} : orphans'[t] = orphans[t] /\ rec'[t] = rec[t]
            /\ \A p \in doomed' : p \in doomed \/ tied[p] # "none"
            /\ UNCHANGED <<env, phase, alive, tied>> /\ phase = "detach"
        BY <1>0, <2>6, <3>2 DEF Detach, Record
      <4>2. ~env.exits /\ tied[rec[s].wrapper] = "none" => rec[s].wrapper \in alive
        BY <3>2, <4>1 DEF AdoptedInv
      <4> QED BY <3>2, <4>1, <4>2 DEF AdoptedInv
    <3> QED BY <3>1, <3>2
  <2> QED BY <1>3, <2>1, <2>2, <2>3, <2>4, <2>5, <2>6 DEF ServiceStep
<1>4. ASSUME NEW p \in Procs, ProcExit(p) \/ Kill(p)
      PROVE  AdoptedInv'
  <2>1. env' = env /\ (~env.exits => p \in doomed)
    BY <1>4 DEF ProcExit, Kill, ProcEnds
  <2>2. /\ alive' = alive \ {p} /\ doomed' = doomed \ {p}
        /\ UNCHANGED <<phase, rec, orphans, tied>>
    BY <1>4 DEF ProcExit, Kill, ProcEnds
  <2> QED BY <2>1, <2>2 DEF AdoptedInv
<1>5. CASE UNCHANGED vars
  BY <1>5 DEF vars, AdoptedInv
<1> QED BY <1>1, <1>2, <1>3, <1>4, <1>5 DEF Next

\* What the API promises of a restart ("Children will continue running",
\* handlers_system.go) holds of the processes that were adopted: they run under no
\* context of the Guardian that hands them over, so that neither Detach nor Shutdown
\* reaches them, whatever calls, starts and failed writes come in between.
\* ChildrenContinue is refuted by those it launched itself.
THEOREM AdoptedContinueCorrect == Spec => AdoptedContinue
<1> DEFINE Step == (~env.exits /\ Exit) =>
                     \A s \in Services :
                       orphans[s] # 0 /\ tied[orphans[s]] = "none"
                         => orphans[s] \in alive'
<1>1. Init => AdoptedInv
  BY DEF Init, AdoptedInv, Ending
<1>2. TypeOK /\ OwnedInv /\ AdoptedInv /\ [Next]_vars => AdoptedInv'
  BY SparedNext
<1>3. AdoptedInv /\ [Next]_vars => [Step]_vars
  BY DEF AdoptedInv, Exit, Ending
<1> QED BY <1>1, <1>2, <1>3, CalmAlways, PTL DEF Spec, AdoptedContinue
=============================================================================

------------------------ MODULE ServiceLifecycleProofs ------------------------
(***************************************************************************)
(* Proofs about ServiceLifecycle, for any number of callers and launches   *)
(* and any environments.                                                   *)
(***************************************************************************)
EXTENDS ServiceLifecycle, FiniteSetTheorems, TLAPS

-----------------------------------------------------------------------------
(* What the operators shared by the handlers preserve.                     *)

LEMMA EnvType == ASSUME env \in Environments PROVE env \in Environment
<1> QED BY EnvironmentAssumption

\* A launch that can succeed has a process number to use.
LEMMA LaunchInRange ==
    ASSUME env \in Environments, launched \in ProcOrNil, LaunchCanSucceed
    PROVE  launched + 1 \in Procs
<1>1. env.launches \in 0..MaxLaunches
  BY EnvType DEF Environment
<1> QED
  BY <1>1, EnvironmentAssumption DEF ProcOrNil, Procs, LaunchCanSucceed

LEMMA ProcInRange == Procs \subseteq ProcOrNil /\ 0 \in ProcOrNil
<1> QED BY EnvironmentAssumption DEF Procs, ProcOrNil

LEMMA IdleType == Idle \in CallerState
<1> QED
  BY ProcInRange DEF Idle, NoSnap, CallerState, Snapshot, ApiPcs, AllOps, States

LEMMA UnbornType ==
    Unborn \in Monitor /\ [Unborn EXCEPT !.pc = "done"] \in Monitor
<1> QED BY ProcInRange DEF Unborn, Monitor, MonPcs

LEMMA GotoType ==
    ASSUME api \in [Callers -> CallerState], NEW c \in Callers,
           NEW pc \in ApiPcs, Goto(c, pc)
    PROVE  api' \in [Callers -> CallerState]
<1>1. [api[c] EXCEPT !.pc = pc] \in CallerState
  BY DEF CallerState
<1> QED BY <1>1 DEF Goto

LEMMA ReplyType ==
    ASSUME api \in [Callers -> CallerState], NEW c \in Callers, Reply(c)
    PROVE  api' \in [Callers -> CallerState]
<1> QED BY IdleType DEF Reply

LEMMA MonGotoType ==
    ASSUME mon \in [Procs -> Monitor], NEW m \in Procs, NEW pc \in MonPcs,
           MonGoto(m, pc)
    PROVE  mon' \in [Procs -> Monitor]
<1>1. [mon[m] EXCEPT !.pc = pc, !.w = 0] \in Monitor
  BY ProcInRange DEF Monitor
<1> QED BY <1>1, UnbornType DEF MonGoto

LEMMA KillAllType ==
    ASSUME proc \in [Procs -> ProcState], NEW ps, KillAll(ps)
    PROVE  proc' \in [Procs -> ProcState]
<1> QED BY DEF KillAll, ProcState

LEMMA SignalType ==
    ASSUME proc \in [Procs -> ProcState], NEW w, Signal(w)
    PROVE  proc' \in [Procs -> ProcState]
<1> QED BY DEF Signal, ProcState

LEMMA StopAndCloseType ==
    ASSUME proc \in [Procs -> ProcState],
           exitCh \in [Procs -> {"empty"} \cup Exited],
           NEW w, StopAndClose(w)
    PROVE  /\ proc' \in [Procs -> ProcState]
           /\ exitCh' \in [Procs -> {"empty"} \cup Exited]
<1> QED BY KillAllType DEF StopAndClose

\* The record after a change of state, of an attempt, of what is attached.
LEMMA ServiceUpdates ==
    ASSUME svc \in Service, NEW st \in States, NEW p \in ProcOrNil
    PROVE  /\ [svc EXCEPT !.state = st] \in Service
           /\ [svc EXCEPT !.state = st, !.pid = p] \in Service
           /\ [svc EXCEPT !.state = st, !.capture = 0, !.resMon = 0] \in Service
           /\ [svc EXCEPT !.wrapper = 0, !.capture = 0, !.state = st,
                          !.pid = 0] \in Service
           /\ CountAttempt(svc) \in Service
           /\ StopWatchers(svc) \in Service
           /\ [StopWatchers(svc) EXCEPT !.wrapper = 0, !.capture = 0]
                \in Service
           /\ Attached(svc, p) \in Service
           /\ \A h \in ProcOrNil :
                [Attached(svc, p) EXCEPT !.stopCh = p, !.health = h] \in Service
<1> USE ProcInRange DEF Service
<1>1. [svc EXCEPT !.state = st] \in Service OBVIOUS
<1>2. [svc EXCEPT !.state = st, !.pid = p] \in Service OBVIOUS
<1>3. [svc EXCEPT !.state = st, !.capture = 0, !.resMon = 0] \in Service OBVIOUS
<1>4. [svc EXCEPT !.wrapper = 0, !.capture = 0, !.state = st,
                  !.pid = 0] \in Service
  OBVIOUS
<1>5. CountAttempt(svc) \in Service BY DEF CountAttempt
<1>6. StopWatchers(svc) \in Service BY DEF StopWatchers
<1>7. [StopWatchers(svc) EXCEPT !.wrapper = 0, !.capture = 0] \in Service
  BY DEF StopWatchers
<1>8. Attached(svc, p) \in Service BY DEF Attached, States
<1>9. \A h \in ProcOrNil :
        [Attached(svc, p) EXCEPT !.stopCh = p, !.health = h] \in Service
  BY DEF Attached, States
<1> QED BY <1>1, <1>2, <1>3, <1>4, <1>5, <1>6, <1>7, <1>8, <1>9

LEMMA SaveType ==
    ASSUME NEW s \in Service, saveRuntimeState(s)
    PROVE  saved' \in RunState
<1> QED BY DEF saveRuntimeState, RunState, Service

-----------------------------------------------------------------------------
(* Type correctness.                                                       *)

LEMMA TypeInit == Init => TypeOK
<1> SUFFICES ASSUME Init PROVE TypeOK OBVIOUS
<1>1. svc \in Service
  BY ProcInRange DEF Init, Service, States
<1>2. saved \in RunState
  BY ProcInRange DEF Init, RunState
<1>3. /\ proc \in [Procs -> ProcState]
      /\ exitCh \in [Procs -> {"empty"} \cup Exited]
  BY DEF Init, ProcState
<1>4. mon \in [Procs -> Monitor] /\ api \in [Callers -> CallerState]
  BY UnbornType, IdleType DEF Init
<1> QED
  BY <1>1, <1>2, <1>3, <1>4, ProcInRange DEF Init, TypeOK

\* The calls: looking the service up, starting it.
LEMMA TypeStart ==
    ASSUME TypeOK, NEW c \in Callers, UNCHANGED env,
           \/ \E op \in AllOps : Call(c, op)
           \/ StartEnter(c) \/ DepWaitFails(c) \/ DepsMet(c)
           \/ LaunchFails(c) \/ Launch(c)
    PROVE  TypeOK'
<1> USE DEF TypeOK
<1>1. CASE \E op \in AllOps : Call(c, op)
  <2>1. PICK op \in AllOps : Call(c, op)
    BY <1>1
  <2>2. PICK pc \in ApiPcs : api' = [api EXCEPT ![c].op = op, ![c].pc = pc]
    BY <2>1 DEF Call, FirstStep, ApiPcs, AllOps
  <2>3. [api[c] EXCEPT !.op = op, !.pc = pc] \in CallerState
    BY DEF CallerState
  <2>4. api' \in [Callers -> CallerState]
    BY <2>2, <2>3
  <2> QED BY <2>1, <2>4 DEF Call
<1>2. CASE StartEnter(c)
  <2>1. svc' \in Service
    BY <1>2, ServiceUpdates DEF StartEnter, States
  <2>2. api' \in [Callers -> CallerState]
    BY <1>2, ReplyType, GotoType DEF StartEnter, ApiPcs
  <2> QED BY <1>2, <2>1, <2>2 DEF StartEnter
<1>3. CASE DepWaitFails(c)
  <2>1. svc' \in Service
    BY <1>3, ServiceUpdates DEF DepWaitFails, States
  <2>2. saved' \in RunState
    BY <1>3, <2>1, SaveType DEF DepWaitFails
  <2>3. api' \in [Callers -> CallerState]
    BY <1>3, ReplyType DEF DepWaitFails
  <2> QED BY <1>3, <2>1, <2>2, <2>3 DEF DepWaitFails
<1>4. CASE DepsMet(c)
  <2>1. api' \in [Callers -> CallerState]
    BY <1>4, ReplyType, GotoType DEF DepsMet, ApiPcs
  <2> QED BY <1>4, <2>1 DEF DepsMet
<1>5. CASE LaunchFails(c)
  <2>1. svc' \in Service
    BY <1>5, ServiceUpdates DEF LaunchFails, States
  <2>2. api' \in [Callers -> CallerState]
    BY <1>5, ReplyType DEF LaunchFails
  <2> QED BY <1>5, <2>1, <2>2 DEF LaunchFails
<1>6. CASE Launch(c)
  <2> DEFINE p == launched + 1
  <2>1. p \in Procs /\ p \in ProcOrNil
    BY <1>6, LaunchInRange, ProcInRange DEF Launch
  <2>2. svc' \in Service
    <3>1. svc.health \in ProcOrNil
      BY DEF Service
    <3>2. PICK h \in ProcOrNil :
            svc' = [Attached(svc, p) EXCEPT !.stopCh = p, !.health = h]
      <4>1. Attached(svc, p).health = svc.health
        BY DEF Attached, Service
      <4> QED BY <1>6, <2>1, <3>1, <4>1 DEF Launch
    <3> QED BY <2>1, <3>2, ServiceUpdates DEF States
  <2>3. saved' \in RunState
    BY <1>6, <2>2, SaveType DEF Launch
  <2>4. mon' \in [Procs -> Monitor]
    <3>1. [mon[p] EXCEPT !.pc = "born"] \in Monitor
      BY <2>1 DEF Monitor, MonPcs
    <3> QED BY <1>6, <2>1, <3>1 DEF Launch
  <2>5. proc' \in [Procs -> ProcState] /\ launched' \in ProcOrNil
    BY <1>6, <2>1 DEF Launch, Spawn, ProcState
  <2>6. capturing' \in SUBSET Procs /\ polling' \in SUBSET Procs
    BY <1>6, <2>1 DEF Launch
  <2>7. api' \in [Callers -> CallerState]
    BY <1>6, ReplyType DEF Launch
  <2> QED BY <1>6, <2>2, <2>3, <2>4, <2>5, <2>6, <2>7 DEF Launch
<1> QED BY <1>1, <1>2, <1>3, <1>4, <1>5, <1>6

\* The calls: stopping the service and shutting the Guardian down.
LEMMA TypeStop ==
    ASSUME TypeOK, NEW c \in Callers, UNCHANGED env,
           \/ StopEnter(c) \/ StopSignal(c) \/ StopFinish(c) \/ StartAgain(c)
           \/ StopAllCheck(c) \/ DetachCheck(c) \/ Detach(c) \/ Shutdown(c)
    PROVE  TypeOK'
<1> USE DEF TypeOK
<1>0. AfterStop(c) => api' \in [Callers -> CallerState]
  BY ReplyType, GotoType DEF AfterStop, ApiPcs
<1>1. CASE StopEnter(c)
  <2>1. svc' \in Service
    BY <1>1, ServiceUpdates DEF StopEnter, States
  <2>2. api' \in [Callers -> CallerState]
    BY <1>1, <1>0, GotoType DEF StopEnter, ApiPcs
  <2> QED BY <1>1, <2>1, <2>2 DEF StopEnter
<1>2. CASE StopSignal(c)
  <2>1. svc' \in Service
    BY <1>2, ServiceUpdates, ProcInRange DEF StopSignal, States
  <2>2. closed' \in SUBSET ProcOrNil /\ polling' \in SUBSET Procs
    BY <1>2 DEF StopSignal, Service
  <2>3. proc' \in [Procs -> ProcState]
    BY <1>2, SignalType DEF StopSignal
  <2>4. api' \in [Callers -> CallerState]
    BY <1>2, GotoType DEF StopSignal, ApiPcs
  <2> QED BY <1>2, <2>1, <2>2, <2>3, <2>4 DEF StopSignal
<1>3. CASE StopFinish(c)
  <2>1. svc' \in Service
    BY <1>3, ServiceUpdates, ProcInRange DEF StopFinish, States
  <2>2. saved' \in RunState
    BY <1>3, <2>1, SaveType DEF StopFinish
  <2>3. /\ proc' \in [Procs -> ProcState]
        /\ exitCh' \in [Procs -> {"empty"} \cup Exited]
    BY <1>3, StopAndCloseType DEF StopFinish
  <2>4. api' \in [Callers -> CallerState] /\ capturing' \in SUBSET Procs
    BY <1>3, <1>0 DEF StopFinish
  <2> QED BY <1>3, <2>1, <2>2, <2>3, <2>4 DEF StopFinish
<1>4. CASE StartAgain(c)
  BY <1>4, GotoType, ReplyType DEF StartAgain, ApiPcs
<1>5. CASE StopAllCheck(c)
  BY <1>5, GotoType DEF StopAllCheck, ApiPcs
<1>6. CASE DetachCheck(c)
  BY <1>6, GotoType DEF DetachCheck, ApiPcs
<1>7. CASE Detach(c)
  <2>1. svc' \in Service
    BY <1>7, ServiceUpdates, ProcInRange DEF Detach, States
  <2>2. /\ closed' \in SUBSET ProcOrNil /\ polling' \in SUBSET Procs
        /\ capturing' \in SUBSET Procs
    BY <1>7 DEF Detach, Service
  <2>3. proc' \in [Procs -> ProcState]
    BY <1>7, KillAllType DEF Detach
  <2>4. api' \in [Callers -> CallerState]
    BY <1>7, GotoType DEF Detach, ApiPcs
  <2> QED BY <1>7, <2>1, <2>2, <2>3, <2>4 DEF Detach
<1>8. CASE Shutdown(c)
  BY <1>8, KillAllType, GotoType DEF Shutdown, ApiPcs
<1> QED BY <1>1, <1>2, <1>3, <1>4, <1>5, <1>6, <1>7, <1>8

\* The calls that do not take ms.mu, and the processes.
LEMMA TypeOther ==
    ASSUME TypeOK, UNCHANGED env,
           \/ \E c \in Callers : UpdateRead(c) \/ UpdateSwap(c) \/ Remove(c)
           \/ \E p \in Procs, how \in Exited : ProcExit(p, how)
    PROVE  TypeOK'
<1> USE DEF TypeOK
<1>1. ASSUME NEW c \in Callers, UpdateRead(c)
      PROVE  TypeOK'
  <2>1. [pc |-> "update", op |-> "update",
         snap |-> [state |-> svc.state, pid |-> svc.pid, count |-> svc.count]]
          \in CallerState
    BY DEF CallerState, Snapshot, Service, ApiPcs, AllOps
  <2>2. api' \in [Callers -> CallerState]
    BY <1>1, <2>1 DEF UpdateRead
  <2> QED BY <1>1, <2>2 DEF UpdateRead
<1>2. ASSUME NEW c \in Callers, UpdateSwap(c)
      PROVE  TypeOK'
  <2>1. api[c].snap \in Snapshot
    BY DEF CallerState
  <2>2. svc' \in Service
    BY <1>2, <2>1 DEF UpdateSwap, Snapshot, Service
  <2>3. api' \in [Callers -> CallerState]
    BY <1>2, ReplyType DEF UpdateSwap
  <2> QED BY <1>2, <2>2, <2>3 DEF UpdateSwap
<1>3. ASSUME NEW c \in Callers, Remove(c)
      PROVE  TypeOK'
  BY <1>3 DEF Remove
<1>4. ASSUME NEW p \in Procs, NEW how \in Exited, ProcExit(p, how)
      PROVE  TypeOK'
  BY <1>4 DEF ProcExit, ProcState
<1> QED BY <1>1, <1>2, <1>3, <1>4

\* The monitor up to its select, and the select.
LEMMA TypeSelect ==
    ASSUME TypeOK, NEW m \in Procs, UNCHANGED env,
           \/ MonTakeStopChannel(m) \/ MonTakeChannels(m) \/ MonRound(m)
           \/ MonReChannels(m) \/ MonSelect(m)
    PROVE  TypeOK'
<1> USE DEF TypeOK, MonUnchanged
<1>0. mon[m] \in Monitor /\ BreachCh \in ProcOrNil /\ svc.health \in ProcOrNil
  BY ProcInRange DEF BreachCh, Service
<1>1. CASE MonTakeStopChannel(m)
  <2>1. mon' \in [Procs -> Monitor]
    BY <1>0, <1>1 DEF MonTakeStopChannel, Monitor, MonPcs, Service
  <2> QED BY <1>1, <2>1 DEF MonTakeStopChannel
<1>2. CASE MonTakeChannels(m)
  <2>1. mon' \in [Procs -> Monitor]
    BY <1>0, <1>2 DEF MonTakeChannels, Monitor, MonPcs
  <2> QED BY <1>2, <2>1 DEF MonTakeChannels
<1>3. CASE MonRound(m)
  <2>1. svc.wrapper \in ProcOrNil
    BY DEF Service
  <2>2. [mon[m] EXCEPT !.w = svc.wrapper, !.pc = "select"] \in Monitor
    BY <1>0, <2>1 DEF Monitor, MonPcs
  <2>3. mon' \in [Procs -> Monitor]
    BY <1>3, <2>2, MonGotoType DEF MonRound, MonPcs
  <2> QED BY <1>3, <2>3 DEF MonRound
<1>4. CASE MonReChannels(m)
  <2>1. mon' \in [Procs -> Monitor]
    BY <1>0, <1>4 DEF MonReChannels, Monitor, MonPcs
  <2> QED BY <1>4, <2>1 DEF MonReChannels
<1>5. CASE MonExit(m)
  <2>1. exitCh' \in [Procs -> {"empty"} \cup Exited]
    BY <1>5 DEF MonExit
  <2>2. mon' \in [Procs -> Monitor]
    BY <1>5, MonGotoType DEF MonExit, AfterExit, MonPcs
  <2> QED BY <1>5, <2>1, <2>2 DEF MonExit
<1>6. CASE MonBreach(m)
  BY <1>6, MonGotoType DEF MonBreach, MonPcs
<1>7. CASE MonHealthFail(m)
  <2>1. mon' \in [Procs -> Monitor]
    BY <1>0, <1>7 DEF MonHealthFail, Monitor, MonPcs
  <2> QED BY <1>7, <2>1 DEF MonHealthFail
<1>8. CASE MonTick(m)
  BY <1>8, MonGotoType DEF MonTick, MonPcs
<1>9. CASE MonStop(m)
  BY <1>9, MonGotoType DEF MonStop, MonPcs
<1> QED BY <1>1, <1>2, <1>3, <1>4, <1>5, <1>6, <1>7, <1>8, <1>9 DEF MonSelect

\* The monitor's answers to what it selected.
LEMMA TypeAnswer ==
    ASSUME TypeOK, NEW m \in Procs, UNCHANGED env,
           \/ MonPolicy(m) \/ MonGiveUp(m) \/ MonCleanStop(m) \/ MonSave(m)
           \/ MonCount(m) \/ MonBreachWrapper(m) \/ MonBreachStop(m)
           \/ MonSleepOrStop(m) \/ MonRestart(m) \/ MonRestartFails(m)
    PROVE  TypeOK'
<1> USE DEF TypeOK, MonUnchanged
<1>0. \A pc \in MonPcs : MonGoto(m, pc) => mon' \in [Procs -> Monitor]
  BY MonGotoType
<1>1. CASE MonPolicy(m)
  BY <1>0, <1>1 DEF MonPolicy, MonPcs
<1>2. CASE MonGiveUp(m)
  <2>1. svc' \in Service
    BY <1>2, ServiceUpdates DEF MonGiveUp, States
  <2> QED BY <1>0, <1>2, <2>1 DEF MonGiveUp, MonPcs
<1>3. CASE MonCleanStop(m)
  <2>1. svc' \in Service
    BY <1>3, ServiceUpdates, ProcInRange DEF MonCleanStop, States
  <2> QED BY <1>0, <1>3, <2>1 DEF MonCleanStop, MonPcs
<1>4. CASE MonSave(m)
  <2>1. saved' \in RunState
    BY <1>4, SaveType DEF MonSave
  <2> QED BY <1>0, <1>4, <2>1 DEF MonSave, MonPcs
<1>5. CASE MonCount(m)
  <2>1. svc' \in Service
    BY <1>5, ServiceUpdates, ProcInRange DEF MonCount, States
  <2> QED BY <1>0, <1>5, <2>1 DEF MonCount, MonPcs
<1>6. CASE MonBreachWrapper(m)
  <2>1. mon' \in [Procs -> Monitor]
    <3>1. svc.wrapper \in ProcOrNil
      BY DEF Service
    <3>2. \A pc \in MonPcs :
            [mon[m] EXCEPT !.w = svc.wrapper, !.pc = pc] \in Monitor
      BY <3>1 DEF Monitor
    <3> QED BY <1>6, <3>2 DEF MonBreachWrapper, MonPcs
  <2>2. proc' \in [Procs -> ProcState]
    BY <1>6, SignalType DEF MonBreachWrapper
  <2> QED BY <1>6, <2>1, <2>2 DEF MonBreachWrapper
<1>7. CASE MonBreachStop(m)
  <2>1. /\ proc' \in [Procs -> ProcState]
        /\ exitCh' \in [Procs -> {"empty"} \cup Exited]
    BY <1>7, StopAndCloseType DEF MonBreachStop
  <2> QED BY <1>0, <1>7, <2>1 DEF MonBreachStop, MonPcs
<1>8. CASE MonSleepOrStop(m)
  BY <1>0, <1>8 DEF MonSleepOrStop, AfterSleep, MonPcs
<1>9. CASE MonRestart(m)
  <2> DEFINE p == launched + 1
  <2>1. p \in Procs /\ p \in ProcOrNil
    BY <1>9, LaunchInRange, ProcInRange DEF MonRestart
  <2>2. svc' \in Service
    BY <1>9, <2>1, ServiceUpdates DEF MonRestart, States
  <2>3. saved' \in RunState
    BY <1>9, <2>2, SaveType DEF MonRestart
  <2>4. proc' \in [Procs -> ProcState] /\ launched' \in ProcOrNil
    BY <1>9, <2>1 DEF MonRestart, Spawn, ProcState
  <2>5. capturing' \in SUBSET Procs /\ polling' \in SUBSET Procs
    BY <1>9, <2>1 DEF MonRestart, Replaced
  <2> QED BY <1>0, <1>9, <2>2, <2>3, <2>4, <2>5 DEF MonRestart, MonPcs
<1>10. CASE MonRestartFails(m)
  <2>1. svc' \in Service
    BY <1>10, ServiceUpdates, ProcInRange DEF MonRestartFails, States
  <2>2. saved' \in RunState
    BY <1>10, <2>1, SaveType DEF MonRestartFails
  <2>3. capturing' \in SUBSET Procs /\ polling' \in SUBSET Procs
    BY <1>10 DEF MonRestartFails
  <2> QED BY <1>0, <1>10, <2>1, <2>2, <2>3 DEF MonRestartFails, MonPcs
<1> QED BY <1>1, <1>2, <1>3, <1>4, <1>5, <1>6, <1>7, <1>8, <1>9, <1>10

LEMMA TypeNext == TypeOK /\ [Next]_vars => TypeOK'
<1> SUFFICES ASSUME TypeOK, [Next]_vars PROVE TypeOK'
  OBVIOUS
<1>1. CASE UNCHANGED vars
  BY <1>1 DEF vars, TypeOK
<1>2. ASSUME NEW c \in Callers, NewCall(c) \/ CallStep(c)
      PROVE  TypeOK'
  BY <1>2, TypeStart, TypeStop, TypeOther DEF NewCall, CallStep
<1>3. ASSUME NEW p \in Procs, ProcStep(p) \/ MonStep(p) \/ MonSelect(p)
      PROVE  TypeOK'
  <2>1. CASE ProcStep(p)
    BY <2>1, TypeOther DEF ProcStep
  <2>2. CASE MonStep(p)
    BY <2>2, TypeSelect, TypeAnswer DEF MonStep
  <2>3. CASE MonSelect(p)
    BY <2>3, TypeSelect DEF MonSelect
  <2> QED BY <1>3, <2>1, <2>2, <2>3
<1> QED BY <1>1, <1>2, <1>3 DEF Next

\* Every variable of the lifecycle keeps its type: in particular no process
\* number, stop channel or watcher beyond those that were launched is ever
\* referred to, however the calls, monitors and processes interleave.
THEOREM TypeCorrect == Spec => []TypeOK
<1> QED BY TypeInit, TypeNext, PTL DEF Spec

-----------------------------------------------------------------------------
(* The strengthening: who holds ms.mu, and what a call knows of the record. *)

Holding == {"launch", "stopSignal", "stopFinish"}

\* ms.mu is held across steps by a launch and by a stop, and by nobody else.
LockHeldByHolder == \A c \in Callers : api[c].pc \in Holding <=> lock = c

\* A stop that has signalled has forgotten the watchers, and finds them so.
StopForgot ==
    \A c \in Callers :
      api[c].pc = "stopFinish" => svc.resMon = 0 /\ svc.health = 0

\* A stop that holds ms.mu finds the state it has set, unless Update wrote it.
StopShown ==
    \A c \in Callers :
      (api[c].pc \in {"stopSignal", "stopFinish"} /\ "update" \notin env.ops)
        => svc.state # "running"

\* The call that detaches is known as such until the end, and Update only runs
\* where it is among the calls made.
CallsNamed ==
    \A c \in Callers :
      /\ api[c].pc \in {"detachCheck", "detach"} => api[c].op = "detach"
      /\ api[c].op = "detach" =>
           api[c].pc \in {"detachCheck", "detach", "cancel", "over"}
      /\ api[c].pc = "update" => "update" \in env.ops

\* What the record holds belongs together: the wrapper is that of the last
\* process launched, the resource monitor and the log capture watch that same
\* process, and none of them survives the wrapper.
AttachmentsMatch ==
    /\ svc.wrapper \in {0, launched}
    /\ svc.resMon \in {0, svc.wrapper}
    /\ svc.capture \in {0, svc.wrapper}
    /\ svc.wrapper = 0 => svc.health = 0

RecordInv == /\ TypeOK
             /\ LockHeldByHolder
             /\ StopForgot
             /\ StopShown
             /\ CallsNamed
             /\ AttachmentsMatch
             /\ RunningIsBacked

\* What moving on, or returning, changes of a call.
LEMMA GotoFacts ==
    ASSUME api \in [Callers -> CallerState], NEW c \in Callers, NEW pc,
           Goto(c, pc)
    PROVE  /\ api'[c].pc = pc /\ api'[c].op = api[c].op
           /\ \A d \in Callers \ {c} : api'[d] = api[d]
<1> QED BY DEF Goto, CallerState

LEMMA ReplyFacts ==
    ASSUME api \in [Callers -> CallerState], NEW c \in Callers, Reply(c)
    PROVE  /\ api'[c].pc = "idle" /\ api'[c].op = "none"
           /\ \A d \in Callers \ {c} : api'[d] = api[d]
<1> QED BY DEF Reply, Idle

\* The fields of the record after a launch, after a stop's signal, and after an
\* attempt was counted.
LEMMA RecordFields ==
    ASSUME svc \in Service, NEW p
    PROVE  /\ Attached(svc, p).state = "running"
           /\ Attached(svc, p).pid = p /\ Attached(svc, p).wrapper = p
           /\ Attached(svc, p).capture = p /\ Attached(svc, p).resMon = p
           /\ Attached(svc, p).health = svc.health
           /\ StopWatchers(svc) = [svc EXCEPT !.health = 0, !.resMon = 0]
           /\ CountAttempt(svc) = [svc EXCEPT !.count = @ + 1]
<1> QED BY DEF Service, Attached, StopWatchers, CountAttempt

LEMMA RecordInit == Init => RecordInv
<1> SUFFICES ASSUME Init PROVE RecordInv OBVIOUS
<1>1. \A c \in Callers : api[c].pc = "idle" /\ api[c].op = "none"
  BY DEF Init, Idle
<1>2. LockHeldByHolder /\ StopForgot /\ StopShown /\ CallsNamed
  BY <1>1, EnvironmentAssumption
  DEF Init, LockHeldByHolder, StopForgot, StopShown, CallsNamed, Holding
<1>3. AttachmentsMatch /\ RunningIsBacked
  BY DEF Init, AttachmentsMatch, RunningIsBacked
<1> QED BY <1>2, <1>3, TypeInit DEF RecordInv

\* The calls that look the service up and start it keep its record together.
LEMMA RecordStart ==
    ASSUME RecordInv, TypeOK', NEW c \in Callers, UNCHANGED env,
           \/ \E op \in AllOps : Call(c, op)
           \/ StartEnter(c) \/ DepWaitFails(c) \/ DepsMet(c)
           \/ LaunchFails(c) \/ Launch(c)
    PROVE  RecordInv'
<1> USE DEF RecordInv, LockHeldByHolder, Holding, CallsNamed, StopForgot,
            StopShown, AttachmentsMatch, RunningIsBacked
<1>0. /\ api \in [Callers -> CallerState] /\ NoCaller \notin Callers
      /\ svc \in Service /\ svc' \in Service
  BY EnvironmentAssumption DEF TypeOK
<1>1. CASE \E op \in AllOps : Call(c, op)
  <2>1. PICK op \in AllOps : Call(c, op)
    BY <1>1
  <2>2. /\ api[c].pc = "idle" /\ \A d \in Callers \ {c} : api'[d] = api[d]
        /\ UNCHANGED <<svc, lock, saved, launched>>
        /\ api'[c].op = op /\ api'[c].pc = FirstStep(op)
    BY <2>1, <1>0 DEF Call, CallerState
  <2>3. /\ api'[c].pc \in {"start", "stop", "cancel", "stopAllCheck", "detachCheck"}
        /\ api'[c].pc = "detachCheck" => op = "detach"
        /\ op = "detach" => api'[c].pc \in {"detachCheck", "cancel"}
    BY <2>1, <2>2 DEF Call, FirstStep, AllOps
  <2>4. api[c].op # "detach"
    BY <2>2
  <2> QED BY <2>2, <2>3, <2>4, <1>0
<1>2. CASE StartEnter(c)
  BY <1>2, <1>0, GotoFacts, ReplyFacts DEF StartEnter, Free, Service
<1>3. CASE DepWaitFails(c)
  BY <1>3, <1>0, ReplyFacts DEF DepWaitFails, Free, Service
<1>4. CASE DepsMet(c)
  BY <1>4, <1>0, GotoFacts, ReplyFacts DEF DepsMet, Free
<1>5. CASE LaunchFails(c)
  BY <1>5, <1>0, ReplyFacts DEF LaunchFails, Service
<1>6. CASE Launch(c)
  <2>1. /\ svc'.state = "running" /\ svc'.pid = launched + 1
        /\ svc'.wrapper = launched + 1 /\ svc'.capture = launched + 1
        /\ svc'.resMon = launched + 1
        /\ launched' = launched + 1 /\ launched + 1 # 0
        /\ saved' = [state |-> svc'.state, pid |-> svc'.pid]
    BY <1>6, <1>0, RecordFields, LaunchInRange
    DEF Launch, Attached, Service, Spawn, saveRuntimeState, Procs, TypeOK
  <2> QED
    BY <1>6, <2>1, <1>0, ReplyFacts DEF Launch
<1> QED BY <1>1, <1>2, <1>3, <1>4, <1>5, <1>6

\* So do those that stop it and shut the Guardian down ...
LEMMA RecordStop ==
    ASSUME RecordInv, TypeOK', NEW c \in Callers, UNCHANGED env,
           \/ StopEnter(c) \/ StopSignal(c) \/ StopFinish(c) \/ StartAgain(c)
           \/ StopAllCheck(c) \/ DetachCheck(c) \/ Detach(c) \/ Shutdown(c)
    PROVE  RecordInv'
<1> USE DEF RecordInv, LockHeldByHolder, Holding, CallsNamed, StopForgot,
            StopShown, AttachmentsMatch, RunningIsBacked
<1>0. /\ api \in [Callers -> CallerState] /\ NoCaller \notin Callers
      /\ svc \in Service /\ svc' \in Service
  BY EnvironmentAssumption DEF TypeOK
<1>1. CASE StopEnter(c)
  BY <1>1, <1>0, GotoFacts, ReplyFacts DEF StopEnter, Free, AfterStop, Service
<1>2. CASE StopSignal(c)
  <2>1. /\ svc'.wrapper = svc.wrapper /\ svc'.resMon = 0 /\ svc'.health = 0
        /\ svc'.capture = svc.capture
        /\ svc'.state = svc.state /\ svc'.pid = svc.pid
    BY <1>2, <1>0 DEF StopSignal, StopWatchers, Service
  <2> QED
    BY <1>2, <2>1, <1>0, GotoFacts DEF StopSignal
<1>3. CASE StopFinish(c)
  BY <1>3, <1>0, GotoFacts, ReplyFacts DEF StopFinish, AfterStop, Service
<1>4. CASE StartAgain(c)
  BY <1>4, <1>0, GotoFacts, ReplyFacts DEF StartAgain
<1>5. CASE StopAllCheck(c)
  BY <1>5, <1>0, GotoFacts DEF StopAllCheck
<1>6. CASE DetachCheck(c)
  BY <1>6, <1>0, GotoFacts DEF DetachCheck
<1>7. CASE Detach(c)
  <2>1. /\ svc'.state = svc.state /\ svc'.pid = svc.pid
        /\ \/ svc' = svc
           \/ /\ svc'.wrapper = 0 /\ svc'.resMon = 0
              /\ svc'.health = 0 /\ svc'.capture = 0
    <3>1. CASE svc.wrapper = 0
      BY <1>7, <3>1 DEF Detach
    <3>2. CASE svc.wrapper # 0
      BY <1>7, <1>0, <3>2 DEF Detach, StopWatchers, Service
    <3> QED BY <3>1, <3>2
  <2> QED
    BY <1>7, <2>1, <1>0, GotoFacts DEF Detach, Free
<1>8. CASE Shutdown(c)
  BY <1>8, <1>0, GotoFacts DEF Shutdown
<1> QED BY <1>1, <1>2, <1>3, <1>4, <1>5, <1>6, <1>7, <1>8

\* ... those that leave ms.mu alone ...
LEMMA RecordUpdate ==
    ASSUME RecordInv, TypeOK', NEW c \in Callers, UNCHANGED env,
           \/ UpdateRead(c) \/ UpdateSwap(c) \/ Remove(c)
    PROVE  RecordInv'
<1> USE DEF RecordInv, LockHeldByHolder, Holding, CallsNamed, StopForgot,
            StopShown, AttachmentsMatch, RunningIsBacked
<1>0. /\ api \in [Callers -> CallerState] /\ NoCaller \notin Callers
      /\ svc \in Service /\ svc' \in Service
  BY EnvironmentAssumption DEF TypeOK
<1>1. CASE UpdateRead(c)
  <2>1. /\ UNCHANGED <<svc, lock, saved, launched>>
        /\ api[c].pc = "idle" /\ api'[c].pc = "update" /\ api'[c].op = "update"
        /\ \A d \in Callers \ {c} : api'[d] = api[d]
        /\ "update" \in env.ops
    BY <1>1, <1>0 DEF UpdateRead, CallerState
  <2> QED BY <2>1, <1>0
<1>2. CASE UpdateSwap(c)
  <2>1. /\ svc'.wrapper = svc.wrapper /\ svc'.resMon = svc.resMon
        /\ svc'.capture = svc.capture /\ svc'.health = svc.health
        /\ UNCHANGED <<lock, saved, launched>> /\ "update" \in env.ops
    BY <1>2, <1>0 DEF UpdateSwap, Service
  <2> QED BY <1>2, <2>1, <1>0, ReplyFacts DEF UpdateSwap
<1>3. CASE Remove(c)
  BY <1>3, <1>0 DEF Remove
<1> QED BY <1>1, <1>2, <1>3

\* ... and the monitors.
LEMMA RecordMonitor ==
    ASSUME RecordInv, TypeOK', NEW m \in Procs, UNCHANGED env,
           \/ MonGiveUp(m) \/ MonCleanStop(m) \/ MonSave(m) \/ MonCount(m)
           \/ MonRestart(m) \/ MonRestartFails(m)
    PROVE  RecordInv'
<1> USE DEF RecordInv, LockHeldByHolder, Holding, CallsNamed, StopForgot,
            StopShown, AttachmentsMatch, RunningIsBacked
<1>0. /\ api \in [Callers -> CallerState] /\ NoCaller \notin Callers
      /\ svc \in Service /\ svc' \in Service
  BY EnvironmentAssumption DEF TypeOK
<1>1. CASE MonGiveUp(m)
  BY <1>1, <1>0 DEF MonGiveUp, Free, Service
<1>2. CASE MonCleanStop(m)
  BY <1>2, <1>0 DEF MonCleanStop, Free, Service
<1>3. CASE MonSave(m)
  BY <1>3, <1>0 DEF MonSave, Free, saveRuntimeState
<1>4. CASE MonCount(m)
  BY <1>4, <1>0, RecordFields DEF MonCount, Free, Service
<1>5. CASE MonRestart(m)
  <2>1. /\ svc'.state = "running" /\ svc'.pid = launched + 1
        /\ svc'.wrapper = launched + 1 /\ svc'.capture = launched + 1
        /\ svc'.resMon = launched + 1
        /\ launched' = launched + 1 /\ launched + 1 # 0
        /\ saved' = [state |-> svc'.state, pid |-> svc'.pid]
    BY <1>5, <1>0, RecordFields, LaunchInRange
    DEF MonRestart, Spawn, saveRuntimeState, Procs, TypeOK
  <2> QED
    BY <1>5, <2>1, <1>0 DEF MonRestart, Free
<1>6. CASE MonRestartFails(m)
  BY <1>6, <1>0 DEF MonRestartFails, Free, Service, saveRuntimeState
<1> QED BY <1>1, <1>2, <1>3, <1>4, <1>5, <1>6

\* The other steps leave the record, ms.mu and the calls as they are.
LEMMA RecordFrame ==
    ASSUME RecordInv, TypeOK',
           UNCHANGED <<env, svc, lock, saved, launched, api>>
    PROVE  RecordInv'
<1> QED
  BY DEF RecordInv, LockHeldByHolder, Holding, CallsNamed, StopForgot,
         StopShown, AttachmentsMatch, RunningIsBacked

LEMMA RecordNext == RecordInv /\ [Next]_vars => RecordInv'
<1> SUFFICES ASSUME RecordInv, [Next]_vars PROVE RecordInv'
  OBVIOUS
<1>0. TypeOK'
  BY TypeNext DEF RecordInv
<1>1. CASE UNCHANGED vars
  BY <1>0, <1>1, RecordFrame DEF vars
<1>2. ASSUME NEW c \in Callers, NewCall(c) \/ CallStep(c)
      PROVE  RecordInv'
  BY <1>0, <1>2, RecordStart, RecordStop, RecordUpdate DEF NewCall, CallStep
<1>3. ASSUME NEW p \in Procs, ProcStep(p)
      PROVE  RecordInv'
  BY <1>0, <1>3, RecordFrame DEF ProcStep, ProcExit
<1>4. ASSUME NEW m \in Procs, MonSelect(m)
      PROVE  RecordInv'
  BY <1>0, <1>4, RecordFrame
  DEF MonSelect, MonExit, MonBreach, MonHealthFail, MonTick, MonStop,
      MonUnchanged
<1>5. ASSUME NEW m \in Procs, MonStep(m)
      PROVE  RecordInv'
  <2>1. CASE \/ MonTakeStopChannel(m) \/ MonTakeChannels(m) \/ MonRound(m)
             \/ MonPolicy(m) \/ MonSleepOrStop(m) \/ MonReChannels(m)
    BY <1>0, <1>5, <2>1, RecordFrame
    DEF MonStep, MonTakeStopChannel, MonTakeChannels, MonRound, MonPolicy,
        MonSleepOrStop, MonReChannels, MonUnchanged
  <2>2. CASE MonBreachWrapper(m) \/ MonBreachStop(m)
    BY <1>0, <1>5, <2>2, RecordFrame DEF MonStep, MonBreachWrapper, MonBreachStop
  <2>3. CASE \/ MonGiveUp(m) \/ MonCleanStop(m) \/ MonSave(m) \/ MonCount(m)
             \/ MonRestart(m) \/ MonRestartFails(m)
    BY <1>0, <1>5, <2>3, RecordMonitor DEF MonStep
  <2> QED BY <1>5, <2>1, <2>2, <2>3 DEF MonStep
<1> QED BY <1>1, <1>2, <1>3, <1>4, <1>5 DEF Next

LEMMA RecordAlways == Spec => []RecordInv
<1> QED BY RecordInit, RecordNext, PTL DEF Spec

\* A service shown as running has the process that is shown and saved behind
\* it, unless the Guardian has detached it or the service was updated.
THEOREM RunningCorrect == Spec => []RunningIsBacked
<1>1. RecordInv => RunningIsBacked
  BY DEF RecordInv
<1> QED BY <1>1, RecordAlways, PTL

-----------------------------------------------------------------------------
(* Processes: what a stop and a shutdown leave.                            *)

\* A killed process is not live, and nothing else becomes live by a kill, a
\* signal or an exit.
LEMMA NoneRevived ==
    ASSUME TypeOK, ShutdownLeavesNothing, ctxDone,
           proc' \in [Procs -> ProcState], NEW ps, NEW w,
           KillAll(ps) \/ Signal(w) \/ proc' = proc
    PROVE  \A p \in Procs : proc'[p] \notin Live
<1> QED BY DEF ShutdownLeavesNothing, KillAll, Signal, Live, TypeOK

LEMMA ShutdownNext ==
    ASSUME TypeOK, TypeOK', ShutdownLeavesNothing, [Next]_vars
    PROVE  ShutdownLeavesNothing'
<1>0. proc \in [Procs -> ProcState] /\ proc' \in [Procs -> ProcState]
  BY DEF TypeOK
<1>1. SUFFICES ASSUME ctxDone' PROVE \A p \in Procs : proc'[p] \notin Live
  BY DEF ShutdownLeavesNothing
<1>2. ASSUME NEW c \in Callers, Shutdown(c)
      PROVE  \A p \in Procs : proc'[p] \notin Live
  BY <1>0, <1>2 DEF Shutdown, KillAll, Live
\* Every other step leaves the context as it is, and a launch needs it alive.
<1>3. CASE ctxDone /\ UNCHANGED vars
  BY <1>3, NoneRevived, <1>0 DEF vars
<1>4. ASSUME NEW c \in Callers, NewCall(c)
      PROVE  \A p \in Procs : proc'[p] \notin Live
  BY <1>0, <1>1, <1>4, NoneRevived DEF NewCall, Call, UpdateRead, Remove
<1>5. ASSUME NEW c \in Callers, CallStep(c)
      PROVE  \A p \in Procs : proc'[p] \notin Live
  <2>1. CASE \/ StartEnter(c) \/ DepWaitFails(c) \/ DepsMet(c)
             \/ LaunchFails(c) \/ Launch(c)
    BY <1>0, <1>1, <2>1, NoneRevived
    DEF StartEnter, DepWaitFails, DepsMet, LaunchFails, Launch,
        LaunchCanSucceed
  <2>2. CASE StopEnter(c) \/ StopSignal(c) \/ StopFinish(c)
    BY <1>0, <1>1, <2>2, NoneRevived
    DEF StopEnter, StopSignal, StopFinish, StopAndClose
  <2>3. CASE \/ StartAgain(c) \/ StopAllCheck(c) \/ DetachCheck(c)
             \/ Detach(c) \/ UpdateSwap(c)
    BY <1>0, <1>1, <2>3, NoneRevived
    DEF StartAgain, StopAllCheck, DetachCheck, Detach, UpdateSwap
  <2> QED BY <1>2, <1>5, <2>1, <2>2, <2>3 DEF CallStep
<1>6. ASSUME NEW p \in Procs, ProcStep(p)
      PROVE  \A q \in Procs : proc'[q] \notin Live
  BY <1>0, <1>1, <1>6
  DEF ProcStep, ProcExit, ShutdownLeavesNothing, Live
<1>7. ASSUME NEW m \in Procs, MonSelect(m)
      PROVE  \A p \in Procs : proc'[p] \notin Live
  BY <1>0, <1>1, <1>7, NoneRevived
  DEF MonSelect, MonExit, MonBreach, MonHealthFail, MonTick, MonStop,
      MonUnchanged
<1>8. ASSUME NEW m \in Procs, MonStep(m)
      PROVE  \A p \in Procs : proc'[p] \notin Live
  <2>1. CASE \/ MonTakeStopChannel(m) \/ MonTakeChannels(m) \/ MonRound(m)
             \/ MonPolicy(m) \/ MonSleepOrStop(m) \/ MonReChannels(m)
    BY <1>0, <1>1, <2>1, NoneRevived
    DEF MonTakeStopChannel, MonTakeChannels, MonRound, MonPolicy,
        MonSleepOrStop, MonReChannels, MonUnchanged
  <2>2. CASE MonBreachWrapper(m) \/ MonBreachStop(m)
    BY <1>0, <1>1, <2>2, NoneRevived
    DEF MonBreachWrapper, MonBreachStop, StopAndClose
  <2>3. CASE \/ MonGiveUp(m) \/ MonCleanStop(m) \/ MonSave(m) \/ MonCount(m)
             \/ MonRestart(m) \/ MonRestartFails(m)
    BY <1>0, <1>1, <2>3, NoneRevived
    DEF MonGiveUp, MonCleanStop, MonSave, MonCount, MonRestart,
        MonRestartFails, LaunchCanSucceed
  <2> QED BY <1>8, <2>1, <2>2, <2>3 DEF MonStep
<1> QED
  BY <1>1, <1>3, <1>4, <1>5, <1>6, <1>7, <1>8 DEF Next, vars

\* Once Manager.Shutdown has cancelled the context no process is running and
\* none is launched again, whatever calls and backoffs were under way.
THEOREM ShutdownCorrect == Spec => []ShutdownLeavesNothing
<1>1. Init => ShutdownLeavesNothing
  BY DEF Init, ShutdownLeavesNothing
<1>2. /\ TypeOK /\ TypeOK' /\ ShutdownLeavesNothing /\ [Next]_vars
      => ShutdownLeavesNothing'
  BY ShutdownNext
<1> QED BY <1>1, <1>2, TypeCorrect, PTL DEF Spec

\* stopService never reports "stopped" while the process it had is running,
\* whether that process obeyed the signal, ignored it or was already gone.
StopEndsProcess ==
    [][\A c \in Callers :
         (StopFinish(c) /\ svc.wrapper # 0) => proc'[svc.wrapper] \notin Live]_vars

\* stopService reports a service stopped only when the process it had is not
\* running any more (Wrapper.Stop kills what outlives the timeout).
THEOREM StopCorrect == Spec => StopEndsProcess
<1> DEFINE Ends == \A c \in Callers :
                     (StopFinish(c) /\ svc.wrapper # 0)
                       => proc'[svc.wrapper] \notin Live
<1>1. TypeOK => [Ends]_vars
  <2> SUFFICES ASSUME TypeOK, NEW c \in Callers, StopFinish(c),
                      svc.wrapper # 0
               PROVE  proc'[svc.wrapper] \notin Live
    OBVIOUS
  <2>1. svc.wrapper \in Procs
    BY EnvironmentAssumption DEF TypeOK, Service, Procs, ProcOrNil
  <2> QED BY <2>1 DEF StopFinish, StopAndClose, KillAll, Live, TypeOK
<1> QED BY <1>1, TypeCorrect, PTL DEF StopEndsProcess
-----------------------------------------------------------------------------
(* Restarts: how many there are, counted and allowed.                      *)

\* A process that was not launched has no monitor, and every monitor keeps one
\* place for ever.
NoneAhead == \A p \in Procs : p > launched => mon[p].pc = "none"

\* A monitor that has counted its attempt and has not launched yet.
Committed == {"breachWrapper", "breachStop", "backoff", "restart"}

\* What a step of monitor m does to the places of all monitors.
Moves(m, pc) == \A q \in Procs : mon'[q].pc = IF q = m THEN pc ELSE mon[q].pc

\* Going somewhere moves one monitor.
LEMMA MonGotoMoves ==
    ASSUME mon \in [Procs -> Monitor], NEW m \in Procs, NEW pc, MonGoto(m, pc)
    PROVE  Moves(m, pc)
<1> QED BY DEF MonGoto, Moves, Monitor, Unborn

\* Where a monitor may go that neither counts an attempt nor launches: it is
\* committed only if it was, and may count a crash only if the policy says so.
LEMMA MonitorMoves ==
    ASSUME TypeOK, NEW m \in Procs, MonStep(m) \/ MonSelect(m),
           ~MonCount(m), ~MonRestart(m)
    PROVE  /\ launched' = launched /\ svc'.count = svc.count
           /\ mon[m].pc # "none"
           /\ \E pc \in MonPcs \ {"none"} :
                /\ Moves(m, pc)
                /\ pc \in Committed => mon[m].pc \in Committed
                /\ pc = "count" => shouldRestart(svc.count) \/ env.mode = "always"
                /\ pc = "breachCount" => mon[m].breach # 0 \/ mon[m].health # 0
<1> DEFINE Moved(pc) == /\ Moves(m, pc)
                        /\ pc \in Committed => mon[m].pc \in Committed
                        /\ pc = "count" => \/ shouldRestart(svc.count)
                                           \/ env.mode = "always"
                        /\ pc = "breachCount" => \/ mon[m].breach # 0
                                                 \/ mon[m].health # 0
           Goal == /\ launched' = launched /\ svc'.count = svc.count
                   /\ mon[m].pc # "none"
                   /\ \E pc \in MonPcs \ {"none"} : Moved(pc)
<1>0. /\ mon \in [Procs -> Monitor] /\ mon[m] \in Monitor /\ svc \in Service
      /\ \A pc : MonGoto(m, pc) => Moves(m, pc)
  BY MonGotoMoves DEF TypeOK
<1> USE <1>0 DEF MonUnchanged, Committed, MonPcs
<1>1. CASE MonTakeStopChannel(m)
  <2>1. Moved("channels")
    BY <1>1 DEF MonTakeStopChannel, Moves, Monitor
  <2> QED BY <1>1, <2>1 DEF MonTakeStopChannel
<1>2. CASE MonTakeChannels(m) \/ MonReChannels(m)
  <2>1. Moved("round")
    BY <1>2 DEF MonTakeChannels, MonReChannels, Moves, Monitor
  <2> QED BY <1>2, <2>1 DEF MonTakeChannels, MonReChannels
<1>3. CASE MonRound(m)
  <2>1. Moved("done") \/ Moved("select")
    BY <1>3 DEF MonRound, Moves, Monitor
  <2> QED BY <1>3, <2>1 DEF MonRound
<1>4. CASE MonExit(m)
  <2>1. PICK pc \in {"done", "policy", "count", "cleanStop"} :
          MonGoto(m, pc) /\ (pc = "count" => env.mode = "always")
    BY <1>4 DEF MonExit, AfterExit
  <2>2. Moved(pc)
    BY <2>1
  <2> QED BY <1>4, <2>2 DEF MonExit
<1>5. CASE MonBreach(m)
  <2>1. Moved("breachCount")
    BY <1>5 DEF MonBreach
  <2> QED BY <1>5, <2>1 DEF MonBreach
<1>6. CASE MonHealthFail(m)
  <2>1. Moved("breachCount")
    BY <1>6 DEF MonHealthFail, Moves, Monitor
  <2> QED BY <1>6, <2>1 DEF MonHealthFail
<1>7. CASE MonTick(m) \/ MonStop(m)
  <2>1. Moved("round") \/ Moved("done")
    BY <1>7 DEF MonTick, MonStop
  <2> QED BY <1>7, <2>1 DEF MonTick, MonStop
<1>8. CASE MonPolicy(m)
  <2>1. Moved("count") \/ Moved("giveUp")
    BY <1>8 DEF MonPolicy
  <2> QED BY <1>8, <2>1 DEF MonPolicy
<1>9. CASE MonGiveUp(m) \/ MonCleanStop(m)
  <2>1. Moved("save") /\ svc'.count = svc.count
    BY <1>9 DEF MonGiveUp, MonCleanStop, Service
  <2> QED BY <1>9, <2>1 DEF MonGiveUp, MonCleanStop
<1>10. CASE MonSave(m) \/ MonRestartFails(m)
  <2>1. Moved("done") /\ svc'.count = svc.count
    BY <1>10 DEF MonSave, MonRestartFails, Service
  <2> QED BY <1>10, <2>1 DEF MonSave, MonRestartFails
<1>11. CASE MonBreachWrapper(m)
  <2>1. Moved("backoff") \/ Moved("breachStop")
    BY <1>11 DEF MonBreachWrapper, Moves, Monitor
  <2> QED BY <1>11, <2>1 DEF MonBreachWrapper
<1>12. CASE MonBreachStop(m)
  <2>1. Moved("backoff")
    BY <1>12 DEF MonBreachStop
  <2> QED BY <1>12, <2>1 DEF MonBreachStop
<1>13. CASE MonSleepOrStop(m)
  <2>1. Moved("done") \/ Moved("restart")
    BY <1>13 DEF MonSleepOrStop, AfterSleep
  <2> QED BY <1>13, <2>1 DEF MonSleepOrStop
<1> QED
  BY <1>1, <1>2, <1>3, <1>4, <1>5, <1>6, <1>7, <1>8, <1>9, <1>10, <1>11, <1>12,
     <1>13 DEF MonStep, MonSelect

\* Of the calls only a launch, which leaves a new monitor, touches the monitors,
\* and only an update the count.
LEMMA CallMoves ==
    ASSUME TypeOK, NEW c \in Callers, NewCall(c) \/ CallStep(c),
           ~Launch(c), ~UpdateSwap(c)
    PROVE  launched' = launched /\ svc'.count = svc.count /\ mon' = mon
<1>0. svc \in Service
  BY DEF TypeOK
<1> USE <1>0 DEF Service
<1>1. CASE NewCall(c)
  BY <1>1 DEF NewCall, Call, UpdateRead, Remove
<1>2. CASE \/ StartEnter(c) \/ DepWaitFails(c) \/ DepsMet(c) \/ LaunchFails(c)
  BY <1>2 DEF StartEnter, DepWaitFails, DepsMet, LaunchFails
<1>3. CASE \/ StopEnter(c) \/ StopSignal(c) \/ StopFinish(c) \/ StartAgain(c)
  BY <1>3 DEF StopEnter, StopSignal, StopFinish, StartAgain, StopWatchers
<1>4. CASE \/ StopAllCheck(c) \/ DetachCheck(c) \/ Detach(c) \/ Shutdown(c)
  BY <1>4 DEF StopAllCheck, DetachCheck, Detach, Shutdown, StopWatchers
<1> QED BY <1>1, <1>2, <1>3, <1>4 DEF CallStep

\* The new monitor of a launch.
LEMMA LaunchMoves ==
    ASSUME TypeOK, NEW c \in Callers, Launch(c)
    PROVE  /\ launched + 1 \in Procs /\ launched' = launched + 1
           /\ svc'.count = svc.count
           /\ Moves(launched + 1, "born")
<1>1. /\ launched + 1 \in Procs /\ mon \in [Procs -> Monitor] /\ svc \in Service
  BY LaunchInRange DEF Launch, TypeOK
<1> QED
  BY <1>1 DEF Launch, Spawn, Attached, Service, Moves, Monitor

\* The launch by a monitor.
LEMMA RestartMoves ==
    ASSUME TypeOK, NEW m \in Procs, MonRestart(m)
    PROVE  /\ launched + 1 \in Procs /\ launched' = launched + 1
           /\ svc'.count = svc.count
           /\ mon[m].pc = "restart" /\ Moves(m, "reChannels")
<1>1. /\ launched + 1 \in Procs /\ mon \in [Procs -> Monitor] /\ svc \in Service
  BY LaunchInRange DEF MonRestart, TypeOK
<1> QED
  BY <1>1, MonGotoMoves DEF MonRestart, Spawn, Attached, Service

\* An attempt.
LEMMA CountMoves ==
    ASSUME TypeOK, NEW m \in Procs, MonCount(m)
    PROVE  /\ launched' = launched /\ svc'.count = svc.count + 1
           /\ \/ mon[m].pc = "count" /\ Moves(m, "backoff")
              \/ mon[m].pc = "breachCount" /\ Moves(m, "breachWrapper")
<1>1. mon \in [Procs -> Monitor] /\ svc \in Service
  BY DEF TypeOK
<1> QED BY <1>1, MonGotoMoves DEF MonCount, CountAttempt, Service

\* No step starts a monitor for a process that was not launched.
LEMMA NoneAheadNext ==
    ASSUME TypeOK, NoneAhead, [Next]_vars
    PROVE  NoneAhead'
<1>0. launched \in Nat
  BY ProcInRange, EnvironmentAssumption DEF TypeOK, ProcOrNil
<1> USE <1>0 DEF NoneAhead, Procs
<1>1. CASE UNCHANGED vars
  BY <1>1 DEF vars
<1>2. ASSUME NEW c \in Callers, NewCall(c) \/ CallStep(c)
      PROVE  NoneAhead'
  <2>1. CASE Launch(c)
    BY <2>1, LaunchMoves DEF Moves
  <2>2. CASE UpdateSwap(c)
    BY <2>2 DEF UpdateSwap
  <2> QED BY <1>2, <2>1, <2>2, CallMoves
<1>3. ASSUME NEW p \in Procs, ProcStep(p)
      PROVE  NoneAhead'
  BY <1>3 DEF ProcStep, ProcExit
<1>4. ASSUME NEW m \in Procs, MonStep(m) \/ MonSelect(m)
      PROVE  NoneAhead'
  <2>1. CASE MonCount(m)
    BY <2>1, CountMoves DEF Moves
  <2>2. CASE MonRestart(m)
    BY <2>2, RestartMoves DEF Moves
  <2>3. CASE ~MonCount(m) /\ ~MonRestart(m)
    BY <1>4, <2>3, MonitorMoves DEF Moves
  <2> QED BY <2>1, <2>2, <2>3
<1> QED BY <1>1, <1>2, <1>3, <1>4 DEF Next

\* The processes launched by monitors, and those that are still going to launch:
\* each took an attempt of its own.
Accounted == {p \in Procs : \/ p <= launched /\ mon[p].pc = "none"
                            \/ mon[p].pc \in Committed}

AttemptsCounted == "update" \notin env.ops => Cardinality(Accounted) <= svc.count

\* The sets to be counted are finite, and parts count no more than the whole.
LEMMA ProcsFinite ==
    /\ \A S \in SUBSET Procs : IsFiniteSet(S) /\ Cardinality(S) \in Nat
    /\ \A S \in SUBSET Procs : \A T \in SUBSET S :
         Cardinality(T) <= Cardinality(S)
<1>1. IsFiniteSet(Procs)
  BY EnvironmentAssumption, FS_Interval DEF Procs
<1>2. \A S \in SUBSET Procs : IsFiniteSet(S) /\ Cardinality(S) \in Nat
  BY <1>1, FS_Subset, FS_CardinalityType
<1>3. \A S \in SUBSET Procs : \A T \in SUBSET S : Cardinality(T) <= Cardinality(S)
  BY <1>2, FS_Subset
<1> QED BY <1>2, <1>3

\* Adding one to a set, and putting one in the place of another.
LEMMA OneMore ==
    ASSUME NEW S \in SUBSET Procs, NEW T \in SUBSET Procs, NEW x \in Procs,
           T \subseteq S \cup {x}
    PROVE  /\ Cardinality(T) <= Cardinality(S) + 1
           /\ \A y \in S : y \notin T => Cardinality(T) <= Cardinality(S)
<1>1. IsFiniteSet(S) /\ Cardinality(S) \in Nat /\ Cardinality(T) \in Nat
  BY ProcsFinite
<1>2. \A R \in SUBSET Procs : Cardinality(R \cup {x}) <= Cardinality(R) + 1
  BY ProcsFinite, FS_AddElement
<1>3. Cardinality(T) <= Cardinality(S) + 1
  <2>1. Cardinality(T) <= Cardinality(S \cup {x})
    BY ProcsFinite
  <2> QED BY <1>1, <1>2, <2>1, ProcsFinite
<1>4. ASSUME NEW y \in S, y \notin T
      PROVE  Cardinality(T) <= Cardinality(S)
  <2>1. Cardinality(S \ {y}) = Cardinality(S) - 1
    BY <1>1, FS_RemoveElement
  <2>2. Cardinality((S \ {y}) \cup {x}) <= Cardinality(S \ {y}) + 1
    BY <1>2
  <2>3. T \subseteq (S \ {y}) \cup {x}
    BY <1>4
  <2>4. Cardinality(T) <= Cardinality((S \ {y}) \cup {x})
    BY <2>3, ProcsFinite
  <2> QED BY <1>1, <2>1, <2>2, <2>4, ProcsFinite
<1> QED BY <1>3, <1>4

\* Every attempt is counted before its launch.
LEMMA AttemptsNext ==
    ASSUME RecordInv, RecordInv', NoneAhead, AttemptsCounted, [Next]_vars
    PROVE  AttemptsCounted'
<1> SUFFICES ASSUME "update" \notin env.ops, env' = env
             PROVE  Cardinality(Accounted') <= svc'.count
  BY DEF AttemptsCounted, Next, NewCall, CallStep, ProcStep, MonStep, MonSelect,
         vars
<1>0. /\ launched \in Nat /\ TypeOK /\ svc.count \in Nat
      /\ Accounted \in SUBSET Procs /\ Accounted' \in SUBSET Procs
      /\ Cardinality(Accounted) <= svc.count
      /\ Cardinality(Accounted) \in Nat /\ Cardinality(Accounted') \in Nat
  BY ProcInRange, EnvironmentAssumption, ProcsFinite
  DEF RecordInv, TypeOK, Service, ProcOrNil, Accounted, AttemptsCounted
<1>a. ASSUME Accounted' \subseteq Accounted, svc'.count = svc.count
      PROVE  Cardinality(Accounted') <= svc'.count
  <2>1. Cardinality(Accounted') <= Cardinality(Accounted)
    BY <1>0, <1>a, ProcsFinite
  <2> QED BY <1>0, <1>a, <2>1
<1>1. CASE UNCHANGED vars
  BY <1>1, <1>a DEF vars, Accounted
<1>2. ASSUME NEW c \in Callers, NewCall(c) \/ CallStep(c)
      PROVE  Cardinality(Accounted') <= svc'.count
  <2>1. CASE Launch(c)
    <3>1. /\ launched + 1 \in Procs /\ launched' = launched + 1
          /\ svc'.count = svc.count
          /\ Moves(launched + 1, "born")
      BY <1>0, <2>1, LaunchMoves
    <3>2. Accounted' \subseteq Accounted
      BY <1>0, <3>1 DEF Accounted, Moves, Procs, Committed
    <3> QED BY <3>1, <3>2, <1>a
  <2>2. ~UpdateSwap(c)
    BY DEF UpdateSwap, RecordInv, CallsNamed
  <2>3. CASE ~Launch(c)
    <3>1. launched' = launched /\ svc'.count = svc.count /\ mon' = mon
      BY <1>0, <1>2, <2>2, <2>3, CallMoves
    <3> QED BY <3>1, <1>a DEF Accounted
  <2> QED BY <2>1, <2>3
<1>3. ASSUME NEW p \in Procs, ProcStep(p)
      PROVE  Cardinality(Accounted') <= svc'.count
  BY <1>3, <1>a DEF ProcStep, ProcExit, Accounted
<1>4. ASSUME NEW m \in Procs, MonStep(m) \/ MonSelect(m)
      PROVE  Cardinality(Accounted') <= svc'.count
  \* An attempt that is counted adds one to each side.
  <2>1. CASE MonCount(m)
    <3>1. /\ launched' = launched /\ svc'.count = svc.count + 1
          /\ \E pc \in MonPcs : Moves(m, pc) /\ pc # "none"
      BY <1>0, <2>1, CountMoves DEF MonPcs
    <3>2. Accounted' \subseteq Accounted \cup {m}
      BY <3>1 DEF Accounted, Moves
    <3> QED BY <1>0, <3>1, <3>2, OneMore
  \* A launch puts the process in the place of the monitor's commitment.
  <2>2. CASE MonRestart(m)
    <3> DEFINE p == launched + 1
    <3>1. /\ p \in Procs /\ launched' = p
          /\ svc'.count = svc.count
          /\ mon[m].pc = "restart" /\ Moves(m, "reChannels")
      BY <1>0, <2>2, RestartMoves
    <3>2. m <= launched
      BY <1>0, <3>1 DEF NoneAhead, Procs
    <3>3. m \in Accounted /\ m \notin Accounted'
      BY <3>1 DEF Accounted, Moves, Committed
    <3>4. Accounted' \subseteq Accounted \cup {p}
      BY <1>0, <3>1 DEF Accounted, Moves, Committed, Procs
    <3>5. Cardinality(Accounted') <= Cardinality(Accounted)
      BY <1>0, <3>1, <3>3, <3>4, OneMore
    <3> QED BY <1>0, <3>1, <3>5
  <2>3. CASE ~MonCount(m) /\ ~MonRestart(m)
    <3>1. /\ launched' = launched /\ svc'.count = svc.count
          /\ \E pc \in MonPcs \ {"none"} :
               Moves(m, pc) /\ (pc \in Committed => mon[m].pc \in Committed)
      BY <1>0, <1>4, <2>3, MonitorMoves
    <3>2. Accounted' \subseteq Accounted
      BY <3>1 DEF Accounted, Moves
    <3> QED BY <3>1, <3>2, <1>a
  <2> QED BY <2>1, <2>2, <2>3
<1> QED BY <1>1, <1>2, <1>3, <1>4 DEF Next

AttemptsInv == NoneAhead /\ AttemptsCounted

LEMMA AttemptsAlways == Spec => []AttemptsInv
<1>1. Init => AttemptsInv
  <2> SUFFICES ASSUME Init PROVE NoneAhead /\ AttemptsCounted
    BY DEF AttemptsInv
  <2>1. NoneAhead
    BY DEF Init, NoneAhead, Unborn
  <2>2. Accounted = {} /\ svc.count = 0
    BY DEF Init, Accounted, Unborn, Committed, Procs
  <2> QED BY <2>1, <2>2, FS_EmptySet DEF AttemptsCounted
<1>2. RecordInv /\ RecordInv' /\ AttemptsInv /\ [Next]_vars => AttemptsInv'
  BY NoneAheadNext, AttemptsNext DEF RecordInv, AttemptsInv
<1> QED BY <1>1, <1>2, RecordAlways, PTL DEF Spec

\* RestartCount is never behind: every process a monitor launched was counted
\* before, although restartAfterBreach and the crash path count in one critical
\* section, wait without ms.mu, and launch in another.
THEOREM RestartsCorrect == Spec => []RestartsAreCounted
<1>1. RecordInv /\ AttemptsInv => RestartsAreCounted
  <2> SUFFICES ASSUME RecordInv, AttemptsCounted, "update" \notin env.ops
               PROVE  Cardinality(Relaunched) <= svc.count
    BY DEF RestartsAreCounted, AttemptsInv
  <2>1. launched <= MaxLaunches /\ launched \in Nat /\ svc.count \in Nat
    BY EnvironmentAssumption DEF RecordInv, TypeOK, ProcOrNil, Service
  <2>2. Relaunched \subseteq Accounted /\ Accounted \in SUBSET Procs
    BY <2>1, EnvironmentAssumption DEF Relaunched, Accounted, Procs
  <2>3. /\ Cardinality(Relaunched) <= Cardinality(Accounted)
        /\ Cardinality(Relaunched) \in Nat /\ Cardinality(Accounted) \in Nat
    BY <2>2, ProcsFinite
  <2> QED BY <2>1, <2>3 DEF AttemptsCounted
<1> QED BY <1>1, RecordAlways, AttemptsAlways, PTL

\* Without limits and health checks nothing is watched, so that only the end of a
\* process restarts the service.
NothingWatched ==
    (~env.limits /\ ~env.health)
      => /\ svc.health = 0
         /\ \A m \in Procs : /\ mon[m].health = 0 /\ mon[m].breach = 0
                             /\ mon[m].pc # "breachCount"

\* A limit on restarts, which only crashes cause.
Limited == /\ env.retries > 0 /\ env.mode = "on_failure"
           /\ ~env.limits /\ ~env.health /\ "update" \notin env.ops

\* The attempts made, with those a monitor was allowed and has still to count,
\* exceed the limit by less than there are monitors.
Counting == {m \in Procs : mon[m].pc = "count"}
WithinBudget ==
    Limited => svc.count + Cardinality(Counting) + 1
                 <= env.retries + Cardinality(Monitors)

\* No step makes a watcher then.
LEMMA NothingWatchedNext ==
    ASSUME TypeOK, NothingWatched, [Next]_vars
    PROVE  NothingWatched'
<1> SUFFICES ASSUME ~env.limits, ~env.health, env' = env
             PROVE  /\ svc'.health = 0
                    /\ \A m \in Procs : /\ mon'[m].health = 0 /\ mon'[m].breach = 0
                                        /\ mon'[m].pc # "breachCount"
  BY DEF NothingWatched, Next, NewCall, CallStep, ProcStep, MonStep,
         MonSelect, vars
<1>0. /\ svc \in Service /\ mon \in [Procs -> Monitor]
      /\ svc.health = 0 /\ ~env.limits /\ ~env.health
      /\ \A m \in Procs : /\ mon[m].health = 0 /\ mon[m].breach = 0
                          /\ mon[m].pc # "breachCount"
  BY DEF TypeOK, NothingWatched
<1>1. CASE UNCHANGED vars
  BY <1>0, <1>1 DEF vars
<1>2. ASSUME NEW c \in Callers, NewCall(c) \/ CallStep(c)
      PROVE  /\ svc'.health = 0
             /\ \A m \in Procs : /\ mon'[m].health = 0 /\ mon'[m].breach = 0
                                 /\ mon'[m].pc # "breachCount"
  <2>1. CASE Launch(c)
    <3>1. svc'.health = 0
      BY <1>0, <2>1 DEF Launch, Attached, Service
    <3> QED BY <1>0, <2>1, <3>1 DEF Launch, Monitor
  <2>2. CASE UpdateSwap(c)
    BY <1>0, <2>2 DEF UpdateSwap, Service
  <2>3. CASE NewCall(c)
    BY <1>0, <2>3 DEF NewCall, Call, UpdateRead, Remove
  <2>4. CASE \/ StartEnter(c) \/ DepWaitFails(c) \/ DepsMet(c)
             \/ LaunchFails(c)
    BY <1>0, <2>4
    DEF StartEnter, DepWaitFails, DepsMet, LaunchFails, Service
  <2>5. CASE \/ StopEnter(c) \/ StopSignal(c) \/ StopFinish(c) \/ StartAgain(c)
    BY <1>0, <2>5
    DEF StopEnter, StopSignal, StopFinish, StartAgain, StopWatchers, Service
  <2>6. CASE \/ StopAllCheck(c) \/ DetachCheck(c) \/ Detach(c) \/ Shutdown(c)
    BY <1>0, <2>6
    DEF StopAllCheck, DetachCheck, Detach, Shutdown, StopWatchers, Service
  <2> QED BY <1>2, <2>1, <2>2, <2>3, <2>4, <2>5, <2>6 DEF CallStep
<1>3. ASSUME NEW p \in Procs, ProcStep(p)
      PROVE  /\ svc'.health = 0
             /\ \A m \in Procs : /\ mon'[m].health = 0 /\ mon'[m].breach = 0
                                 /\ mon'[m].pc # "breachCount"
  BY <1>0, <1>3 DEF ProcStep, ProcExit
<1>4. ASSUME NEW m \in Procs, MonStep(m) \/ MonSelect(m)
      PROVE  /\ svc'.health = 0
             /\ \A q \in Procs : /\ mon'[q].health = 0 /\ mon'[q].breach = 0
                                 /\ mon'[q].pc # "breachCount"
  <2> USE <1>0 DEF MonUnchanged, Monitor
  <2>0. \A pc : MonGoto(m, pc) /\ pc # "breachCount"
          => \A q \in Procs : /\ mon'[q].health = 0 /\ mon'[q].breach = 0
                              /\ mon'[q].pc # "breachCount"
    BY DEF MonGoto, Unborn
  <2>1. CASE \/ MonTakeStopChannel(m) \/ MonTakeChannels(m) \/ MonReChannels(m)
    BY <2>1 DEF MonTakeStopChannel, MonTakeChannels, MonReChannels, BreachCh
  <2>2. CASE MonRound(m)
    BY <2>0, <2>2 DEF MonRound
  <2>3. CASE MonExit(m)
    BY <2>0, <2>3 DEF MonExit, AfterExit
  <2>4. CASE MonBreach(m) \/ MonHealthFail(m)
    BY <2>4 DEF MonBreach, MonHealthFail
  <2>5. CASE MonTick(m) \/ MonStop(m) \/ MonPolicy(m) \/ MonSleepOrStop(m)
    BY <2>0, <2>5 DEF MonTick, MonStop, MonPolicy, MonSleepOrStop, AfterSleep
  <2>6. CASE MonGiveUp(m) \/ MonCleanStop(m) \/ MonSave(m) \/ MonRestartFails(m)
    BY <2>0, <2>6 DEF MonGiveUp, MonCleanStop, MonSave, MonRestartFails, Service
  <2>7. CASE MonCount(m)
    BY <2>0, <2>7 DEF MonCount, CountAttempt, Service
  <2>8. CASE MonBreachWrapper(m) \/ MonBreachStop(m)
    BY <2>0, <2>8 DEF MonBreachWrapper, MonBreachStop
  <2>9. CASE MonRestart(m)
    BY <2>0, <2>9 DEF MonRestart, Attached, Service
  <2> QED
    BY <1>4, <2>1, <2>2, <2>3, <2>4, <2>5, <2>6, <2>7, <2>8, <2>9
    DEF MonStep, MonSelect
<1> QED BY <1>1, <1>2, <1>3, <1>4 DEF Next

\* An attempt is allowed by the count, or by a further monitor.
LEMMA WithinBudgetNext ==
    ASSUME RecordInv, NoneAhead, NothingWatched, WithinBudget, [Next]_vars
    PROVE  WithinBudget'
<1> SUFFICES ASSUME Limited, env' = env
             PROVE  svc'.count + Cardinality(Counting') + 1
                      <= env.retries + Cardinality(Monitors')
  BY DEF WithinBudget, Limited, Next, NewCall, CallStep, ProcStep, MonStep,
         MonSelect, vars
<1> DEFINE Goal == svc'.count + Cardinality(Counting') + 1
                     <= env.retries + Cardinality(Monitors')
<1>0. /\ launched \in Nat /\ TypeOK /\ svc.count \in Nat
      /\ env.retries \in Nat /\ env.mode = "on_failure" /\ env.retries > 0
      /\ Counting \in SUBSET Procs /\ Counting' \in SUBSET Procs
      /\ Monitors \in SUBSET Procs /\ Monitors' \in SUBSET Procs
      /\ svc.count + Cardinality(Counting) + 1
           <= env.retries + Cardinality(Monitors)
  BY ProcInRange, EnvironmentAssumption, EnvType
  DEF RecordInv, TypeOK, Service, Environment, ProcOrNil, Counting, Monitors,
      Limited, WithinBudget
<1>c. /\ Cardinality(Counting) \in Nat /\ Cardinality(Counting') \in Nat
      /\ Cardinality(Monitors) \in Nat /\ Cardinality(Monitors') \in Nat
  BY <1>0, ProcsFinite
\* A step that counts nothing and lets no monitor in.
<1>a. ASSUME Counting' \subseteq Counting, Monitors \subseteq Monitors',
             svc'.count = svc.count
      PROVE  Goal
  <2>1. /\ Cardinality(Counting') <= Cardinality(Counting)
        /\ Cardinality(Monitors) <= Cardinality(Monitors')
    BY <1>0, <1>a, ProcsFinite
  <2> QED BY <1>0, <1>c, <1>a, <2>1
<1>1. CASE UNCHANGED vars
  BY <1>1, <1>a DEF vars, Counting, Monitors
<1>2. ASSUME NEW c \in Callers, NewCall(c) \/ CallStep(c)
      PROVE  Goal
  <2>1. CASE Launch(c)
    <3>1. /\ launched + 1 \in Procs /\ svc'.count = svc.count
          /\ Moves(launched + 1, "born")
      BY <1>0, <2>1, LaunchMoves
    <3>2. Counting' \subseteq Counting /\ Monitors \subseteq Monitors'
      BY <3>1 DEF Counting, Monitors, Moves
    <3> QED BY <3>1, <3>2, <1>a
  <2>2. ~UpdateSwap(c)
    BY DEF UpdateSwap, RecordInv, CallsNamed, Limited
  <2>3. CASE ~Launch(c)
    <3>1. svc'.count = svc.count /\ mon' = mon
      BY <1>0, <1>2, <2>2, <2>3, CallMoves
    <3> QED BY <3>1, <1>a DEF Counting, Monitors
  <2> QED BY <2>1, <2>3
<1>3. ASSUME NEW p \in Procs, ProcStep(p)
      PROVE  Goal
  BY <1>3, <1>a DEF ProcStep, ProcExit, Counting, Monitors
<1>4. ASSUME NEW m \in Procs, MonStep(m) \/ MonSelect(m)
      PROVE  Goal
  \* What was allowed is counted.
  <2>1. CASE MonCount(m)
    <3>1. /\ svc'.count = svc.count + 1 /\ mon[m].pc = "count"
          /\ Moves(m, "backoff")
      BY <1>0, <2>1, CountMoves DEF NothingWatched, Limited
    <3>2. /\ m \in Counting /\ Counting' \subseteq Counting \ {m}
          /\ Monitors \subseteq Monitors'
      BY <3>1 DEF Counting, Monitors, Moves
    <3>3. /\ Cardinality(Counting \ {m}) = Cardinality(Counting) - 1
          /\ Cardinality(Counting') <= Cardinality(Counting \ {m})
          /\ Cardinality(Monitors) <= Cardinality(Monitors')
          /\ Cardinality(Counting \ {m}) \in Nat
      <4>1. IsFiniteSet(Counting) /\ Counting \ {m} \in SUBSET Procs
        BY <1>0, ProcsFinite
      <4> QED BY <1>0, <3>2, <4>1, ProcsFinite, FS_RemoveElement
    <3> QED BY <1>0, <1>c, <3>1, <3>3
  <2>2. CASE MonRestart(m)
    <3>1. /\ svc'.count = svc.count /\ mon[m].pc = "restart"
          /\ Moves(m, "reChannels")
      BY <1>0, <2>2, RestartMoves
    <3>2. Counting' \subseteq Counting /\ Monitors \subseteq Monitors'
      BY <3>1 DEF Counting, Monitors, Moves
    <3> QED BY <3>1, <3>2, <1>a
  <2>3. CASE ~MonCount(m) /\ ~MonRestart(m)
    <3>1. /\ svc'.count = svc.count
          /\ \E pc \in MonPcs \ {"none"} :
               /\ Moves(m, pc)
               /\ pc = "count" => shouldRestart(svc.count) \/ env.mode = "always"
      BY <1>0, <1>4, <2>3, MonitorMoves
    <3>2. Monitors \subseteq Monitors'
      BY <3>1 DEF Monitors, Moves
    \* The policy was asked: the limit is not reached, and all who count are
    \* monitors.
    <3>3. CASE shouldRestart(svc.count)
      <4>1. svc.count < env.retries
        BY <1>0, <3>3 DEF shouldRestart
      <4>2. Counting' \subseteq Monitors'
        BY DEF Counting, Monitors
      <4>3. Cardinality(Counting') <= Cardinality(Monitors')
        BY <1>0, <4>2, ProcsFinite
      <4> QED BY <1>0, <1>c, <3>1, <4>1, <4>3
    <3>4. CASE ~shouldRestart(svc.count)
      <4>1. Counting' \subseteq Counting
        BY <1>0, <3>1, <3>4 DEF Counting, Moves
      <4> QED BY <3>1, <3>2, <4>1, <1>a
    <3> QED BY <3>3, <3>4
  <2> QED BY <2>1, <2>2, <2>3
<1> QED BY <1>1, <1>2, <1>3, <1>4 DEF Next

\* max_retries is passed by one attempt less than there are monitors, for any
\* number of them and of calls: shouldRestart judges a snapshot of the count, and
\* the increment is made in a later critical section (monitorService).
THEOREM RetriesCorrect == Spec => []RetryBudget
<1> DEFINE BudgetInv == NoneAhead /\ NothingWatched /\ WithinBudget
<1>1. Init => BudgetInv
  <2> SUFFICES ASSUME Init PROVE BudgetInv OBVIOUS
  <2>1. /\ \A m \in Procs : /\ mon[m].pc = "none"
                            /\ mon[m].health = 0 /\ mon[m].breach = 0
        /\ svc.health = 0 /\ svc.count = 0
    BY DEF Init, Unborn
  <2>2. Counting = {} /\ Monitors = {} /\ env.retries \in Nat
    BY <2>1, EnvironmentAssumption, EnvType
    DEF Counting, Monitors, Init, Environment
  <2> QED
    BY <2>1, <2>2, FS_EmptySet
    DEF NoneAhead, NothingWatched, WithinBudget, Limited
<1>2. RecordInv /\ BudgetInv /\ [Next]_vars => BudgetInv'
  BY NoneAheadNext, NothingWatchedNext, WithinBudgetNext DEF RecordInv
<1>3. RecordInv /\ BudgetInv => RetryBudget
  <2> SUFFICES ASSUME RecordInv, BudgetInv, Limited
               PROVE  svc.count + 1 <= env.retries + Cardinality(Monitors)
    BY DEF RetryBudget, Limited
  <2>1. /\ Cardinality(Counting) \in Nat /\ Cardinality(Monitors) \in Nat
        /\ svc.count \in Nat /\ env.retries \in Nat
    BY ProcsFinite, EnvType
    DEF Counting, Monitors, RecordInv, TypeOK, Service, Environment
  <2> QED BY <2>1 DEF WithinBudget
<1> QED BY <1>1, <1>2, <1>3, RecordAlways, PTL DEF Spec
-----------------------------------------------------------------------------
(* One copy of the service, where monitors have nothing to restart or      *)
(* nobody stops it.                                                        *)

\* A process is there once it was launched, and a result once it has ended.
ResultsReal ==
    \A p \in Procs : /\ exitCh[p] # "empty" => proc[p] = "exited"
                     /\ p > launched => proc[p] = "none"

\* No step invents a process or a result.
LEMMA ResultsRealNext ==
    ASSUME TypeOK, ResultsReal, [Next]_vars
    PROVE  ResultsReal'
<1>0. /\ launched \in Nat /\ proc \in [Procs -> ProcState]
      /\ exitCh \in [Procs -> {"empty"} \cup Exited]
  BY ProcInRange, EnvironmentAssumption DEF TypeOK, ProcOrNil
<1> USE <1>0 DEF ResultsReal, Procs
<1>a. UNCHANGED <<exitCh, proc, launched>> => ResultsReal'
  OBVIOUS
<1>k. \A ps : KillAll(ps) /\ UNCHANGED <<exitCh, launched>> => ResultsReal'
  BY DEF KillAll, Live
<1>g. \A w : Signal(w) /\ UNCHANGED <<exitCh, launched>> => ResultsReal'
  BY DEF Signal
<1>s. \A w : StopAndClose(w) /\ UNCHANGED launched => ResultsReal'
  BY DEF StopAndClose, KillAll, Live
<1>l. launched + 1 \in Procs /\ Spawn(launched + 1) /\ UNCHANGED exitCh
        => ResultsReal'
  BY DEF Spawn
<1>1. CASE UNCHANGED vars
  BY <1>1, <1>a DEF vars
<1>2. ASSUME NEW c \in Callers, NewCall(c) \/ CallStep(c)
      PROVE  ResultsReal'
  <2>1. CASE NewCall(c)
    BY <2>1, <1>a DEF NewCall, Call, UpdateRead, Remove
  <2>2. CASE \/ StartEnter(c) \/ DepWaitFails(c) \/ DepsMet(c) \/ LaunchFails(c)
    BY <2>2, <1>a DEF StartEnter, DepWaitFails, DepsMet, LaunchFails
  <2>3. CASE Launch(c)
    BY <2>3, <1>l, LaunchInRange DEF Launch, TypeOK
  <2>4. CASE StopEnter(c) \/ StartAgain(c) \/ StopAllCheck(c) \/ DetachCheck(c)
    BY <2>4, <1>a DEF StopEnter, StartAgain, StopAllCheck, DetachCheck
  <2>5. CASE StopSignal(c) \/ StopFinish(c)
    BY <2>5, <1>g, <1>s DEF StopSignal, StopFinish
  <2>6. CASE Detach(c) \/ Shutdown(c) \/ UpdateSwap(c)
    BY <2>6, <1>a, <1>k DEF Detach, Shutdown, UpdateSwap
  <2> QED BY <1>2, <2>1, <2>2, <2>3, <2>4, <2>5, <2>6 DEF CallStep
<1>3. ASSUME NEW p \in Procs, ProcStep(p)
      PROVE  ResultsReal'
  BY <1>3 DEF ProcStep, ProcExit
<1>4. ASSUME NEW m \in Procs, MonStep(m) \/ MonSelect(m)
      PROVE  ResultsReal'
  <2>1. CASE \/ MonTakeStopChannel(m) \/ MonTakeChannels(m) \/ MonRound(m)
             \/ MonPolicy(m) \/ MonSleepOrStop(m) \/ MonReChannels(m)
             \/ MonBreach(m) \/ MonHealthFail(m) \/ MonTick(m) \/ MonStop(m)
    BY <2>1, <1>a
    DEF MonTakeStopChannel, MonTakeChannels, MonRound, MonPolicy,
        MonSleepOrStop, MonReChannels, MonBreach, MonHealthFail, MonTick,
        MonStop, MonUnchanged
  <2>2. CASE \/ MonGiveUp(m) \/ MonCleanStop(m) \/ MonSave(m) \/ MonCount(m)
             \/ MonRestartFails(m)
    BY <2>2, <1>a
    DEF MonGiveUp, MonCleanStop, MonSave, MonCount, MonRestartFails
  <2>3. CASE MonExit(m)
    BY <2>3 DEF MonExit, MonUnchanged
  <2>4. CASE MonBreachWrapper(m) \/ MonBreachStop(m)
    BY <2>4, <1>g, <1>s DEF MonBreachWrapper, MonBreachStop
  <2>5. CASE MonRestart(m)
    BY <2>5, <1>l, LaunchInRange DEF MonRestart, TypeOK
  <2> QED
    BY <1>4, <2>1, <2>2, <2>3, <2>4, <2>5 DEF MonStep, MonSelect
<1> QED BY <1>1, <1>2, <1>3, <1>4 DEF Next

\* A launch finds no wrapper, and a stop about to finish has closed the stop
\* channel.
QuietCalls ==
    \A c \in Callers : /\ api[c].pc # "depWait"
                       /\ api[c].pc = "launch" => svc.wrapper = 0
                       /\ api[c].pc = "stopFinish" => svc.stopCh \in closed

\* The record has a wrapper only while the service runs or is being stopped, and
\* the stop channel is the wrapper's.  Without a wrapper it is closed.
QuietRecord ==
    /\ svc.state = "stopping" => ~Free
    /\ svc.state \notin {"running", "stopping"} => svc.wrapper = 0
    /\ svc.wrapper # 0 => svc.stopCh = svc.wrapper
    /\ svc.wrapper = 0 => \/ svc.stopCh \in closed
                          \/ \A m \in Procs : mon[m].pc = "none"

\* Monitors watch until they are stopped: the wrapper of a round is that of the
\* stop channel, unless that is closed.
Watching == {"channels", "round", "select"}
QuietMonitors ==
    \A m \in Procs :
      /\ mon[m].pc \in Watching \cup {"none", "born", "done"}
      /\ mon[m].pc \in Watching => mon[m].ch \in closed \cup {svc.stopCh}
      /\ mon[m].pc = "select" => /\ mon[m].w # 0
                                 /\ mon[m].ch \in closed \cup {mon[m].w}

\* No process ends before its stop channel is closed, and none is forgotten.
QuietProcs ==
    \A p \in Procs :
      /\ proc[p] \in {"signalled", "dying", "exited"} => p \in closed
      /\ proc[p] \in Live => p = svc.wrapper

\* Until the Guardian shuts down; then ShutdownLeavesNothing says what is left.
QuietInv ==
    (ApiOnly /\ ~ctxDone)
      => QuietCalls /\ QuietRecord /\ QuietMonitors /\ QuietProcs

\* What the calls do to a service whose monitors have nothing to restart.
LEMMA QuietCallsKept ==
    ASSUME RecordInv, RecordInv', ResultsReal, NEW c \in Callers,
           NewCall(c) \/ CallStep(c),
           ApiOnly, ~ctxDone, ~ctxDone', QuietInv
    PROVE  QuietInv'
<1> SUFFICES QuietCalls' /\ QuietRecord' /\ QuietMonitors' /\ QuietProcs'
  BY DEF QuietInv
<1>0. /\ QuietCalls /\ QuietRecord /\ QuietMonitors /\ QuietProcs
      /\ api \in [Callers -> CallerState] /\ svc \in Service
      /\ mon \in [Procs -> Monitor] /\ proc \in [Procs -> ProcState]
      /\ LockHeldByHolder /\ LockHeldByHolder' /\ NoCaller \notin Callers
      /\ ~env.deps /\ "update" \notin env.ops
  BY EnvironmentAssumption DEF QuietInv, RecordInv, TypeOK, ApiOnly
<1> USE <1>0 DEF QuietCalls, QuietRecord, QuietMonitors, QuietProcs,
                 LockHeldByHolder, Holding
<1>1. CASE \E op \in AllOps : Call(c, op)
  BY <1>1 DEF Call, FirstStep, AllOps, CallerState
<1>2. CASE Remove(c)
  BY <1>2 DEF Remove, Free
<1>3. CASE StartEnter(c)
  BY <1>3, GotoFacts, ReplyFacts DEF StartEnter, Free, Service
<1>4. CASE LaunchFails(c)
  BY <1>4, ReplyFacts DEF LaunchFails, Service
<1>5. CASE Launch(c)
  <2>1. /\ launched + 1 \in Procs /\ launched + 1 # 0
        /\ svc'.state = "running" /\ svc'.wrapper = launched + 1
        /\ svc'.stopCh = launched + 1
        /\ proc' = [proc EXCEPT ![launched + 1] = "alive"] /\ closed' = closed
        /\ Moves(launched + 1, "born")
        /\ \A q \in Procs : mon'[q].ch = mon[q].ch /\ mon'[q].w = mon[q].w
    BY <1>5, LaunchInRange, LaunchMoves
    DEF Launch, Spawn, Attached, Service, RecordInv, TypeOK, Procs, Monitor
  <2>2. \A p \in Procs : proc[p] \notin Live
    BY <1>5 DEF Launch, Procs
  <2>3. QuietProcs'
    BY <2>1, <2>2 DEF Live
  <2>4. QuietMonitors'
    BY <1>5, <2>1 DEF Launch, Moves, Watching
  <2>5. QuietCalls' /\ QuietRecord'
    BY <1>5, <2>1, ReplyFacts DEF Launch
  <2> QED BY <2>3, <2>4, <2>5
<1>6. CASE StopEnter(c)
  BY <1>6, GotoFacts, ReplyFacts DEF StopEnter, AfterStop, Free, Service
<1>7. CASE StopSignal(c)
  <2>1. /\ svc'.state = svc.state /\ svc'.wrapper = svc.wrapper
        /\ svc'.stopCh = svc.stopCh /\ mon' = mon /\ lock' = lock
        /\ closed' = closed \cup {svc.stopCh}
    BY <1>7 DEF StopSignal, StopWatchers, Service
  <2>2. QuietProcs'
    <3>1. \A p \in Procs : \/ proc'[p] = proc[p]
                           \/ p = svc.wrapper /\ proc'[p] = "signalled"
      BY <1>7 DEF StopSignal, Signal
    <3> QED BY <2>1, <3>1, <1>7 DEF StopSignal, Live, Procs
  <2>3. QuietCalls' /\ QuietRecord' /\ QuietMonitors'
    BY <1>7, <2>1, GotoFacts DEF StopSignal, Free
  <2> QED BY <2>2, <2>3
<1>8. CASE StopFinish(c)
  <2>1. /\ svc'.state = "stopped" /\ svc'.wrapper = 0
        /\ svc'.stopCh = svc.stopCh /\ mon' = mon /\ closed' = closed
        /\ svc.stopCh \in closed /\ KillAll({svc.wrapper})
    BY <1>8 DEF StopFinish, StopAndClose, Service
  <2>2. QuietProcs'
    BY <2>1 DEF KillAll, Live, Procs
  <2>3. QuietCalls' /\ QuietRecord' /\ QuietMonitors'
    BY <1>8, <2>1, GotoFacts, ReplyFacts DEF StopFinish, AfterStop
  <2> QED BY <2>2, <2>3
<1>9. CASE StartAgain(c) \/ StopAllCheck(c) \/ DetachCheck(c)
  BY <1>9, GotoFacts, ReplyFacts DEF StartAgain, StopAllCheck, DetachCheck, Free
<1>10. CASE Detach(c)
  <2>1. CASE svc.wrapper = 0
    BY <1>10, <2>1, GotoFacts DEF Detach, Free
  <2>2. CASE svc.wrapper # 0
    <3>0. /\ svc' = [StopWatchers(svc) EXCEPT !.wrapper = 0, !.capture = 0]
          /\ mon' = mon /\ lock' = lock
          /\ closed' = closed \cup {svc.stopCh} /\ KillAll({svc.wrapper})
      BY <1>10, <2>2 DEF Detach
    <3>1. /\ svc'.state = svc.state /\ svc'.wrapper = 0
          /\ svc'.stopCh = svc.stopCh /\ mon' = mon /\ lock' = lock
          /\ closed' = closed \cup {svc.stopCh} /\ KillAll({svc.wrapper})
      BY <3>0 DEF StopWatchers, Service
    <3>2. QuietProcs'
      BY <2>2, <3>1 DEF KillAll, Live, Procs
    <3>3. QuietCalls' /\ QuietRecord' /\ QuietMonitors'
      BY <1>10, <3>1, GotoFacts DEF Detach, Free
    <3> QED BY <3>2, <3>3
  <2> QED BY <2>1, <2>2
<1>11. ~UpdateRead(c) /\ ~UpdateSwap(c) /\ ~Shutdown(c) /\ ~DepWaitFails(c) /\ ~DepsMet(c)
  BY DEF UpdateRead, UpdateSwap, RecordInv, CallsNamed, Shutdown, DepWaitFails,
         DepsMet
<1> QED
  BY <1>1, <1>2, <1>3, <1>4, <1>5, <1>6, <1>7, <1>8, <1>9, <1>10, <1>11
  DEF NewCall, CallStep

\* What its monitors do.
LEMMA QuietMonitorKept ==
    ASSUME RecordInv, NothingWatched, ResultsReal, NEW m \in Procs,
           MonStep(m) \/ MonSelect(m), ApiOnly, ~ctxDone, QuietInv
    PROVE  QuietInv'
<1> SUFFICES QuietCalls' /\ QuietRecord' /\ QuietMonitors' /\ QuietProcs'
  BY DEF QuietInv
<1>0. /\ QuietCalls /\ QuietRecord /\ QuietMonitors /\ QuietProcs
      /\ svc \in Service /\ mon \in [Procs -> Monitor]
      /\ proc \in [Procs -> ProcState]
      /\ mon[m].pc \in Watching \cup {"none", "born", "done"}
      /\ mon[m].health = 0 /\ mon[m].breach = 0
  BY DEF QuietInv, RecordInv, TypeOK, ApiOnly, NothingWatched, QuietMonitors
<1> USE <1>0 DEF QuietCalls, QuietRecord, QuietMonitors, QuietProcs, Watching,
                 MonUnchanged, Monitor
\* The monitor has nothing to answer.
<1>1. \/ MonTakeStopChannel(m) \/ MonTakeChannels(m) \/ MonRound(m)
      \/ MonExit(m) \/ MonTick(m) \/ MonStop(m)
  BY DEF MonStep, MonSelect, MonPolicy, MonGiveUp, MonCleanStop, MonSave,
         MonCount, MonBreachWrapper, MonBreachStop, MonSleepOrStop, MonRestart,
         MonRestartFails, MonReChannels, MonBreach, MonHealthFail
<1>a. ASSUME UNCHANGED <<svc, lock, closed, proc, api>>, QuietMonitors',
             mon[m].pc # "none"
      PROVE  QuietCalls' /\ QuietRecord' /\ QuietMonitors' /\ QuietProcs'
  BY <1>a DEF Free
<1>2. CASE MonTakeStopChannel(m) \/ MonTakeChannels(m)
  <2>1. QuietMonitors'
    BY <1>2 DEF MonTakeStopChannel, MonTakeChannels
  <2> QED BY <1>2, <2>1, <1>a DEF MonTakeStopChannel, MonTakeChannels
<1>3. CASE MonRound(m)
  <2>1. QuietMonitors'
    BY <1>3 DEF MonRound, MonGoto, Unborn
  <2> QED BY <1>3, <2>1, <1>a DEF MonRound
<1>4. CASE MonTick(m) \/ MonStop(m)
  <2>1. CASE MonTick(m)
    BY <2>1, <1>a DEF MonTick, MonGoto
  <2>2. CASE MonStop(m)
    BY <2>2, <1>a DEF MonStop, MonGoto, Unborn
  <2> QED BY <1>4, <2>1, <2>2
\* The process it has seen the end of was stopped, and its channel closed before.
<1>5. CASE MonExit(m)
  <2>1. mon[m].pc = "select" /\ mon[m].w \in Procs /\ mon[m].ch \in closed \cup {mon[m].w}
    <3>1. mon[m] \in Monitor /\ mon[m].pc = "select"
      BY <1>5 DEF MonExit
    <3>2. mon[m].w \in ProcOrNil /\ mon[m].w # 0
      BY <3>1
    <3>3. mon[m].w \in Procs
      BY <3>2, EnvironmentAssumption DEF Procs, ProcOrNil
    <3> QED BY <3>1, <3>3
  <2>2. proc[mon[m].w] = "exited"
    BY <1>5, <2>1 DEF MonExit, ResultsReal
  <2>3. Stopped(m)
    BY <2>1, <2>2 DEF Stopped
  <2>4. QuietMonitors'
    BY <1>5, <2>3 DEF MonExit, MonGoto, Unborn
  <2> QED BY <1>5, <2>4, <2>1, <1>a DEF MonExit
<1> QED BY <1>1, <1>2, <1>3, <1>4, <1>5

\* A stop channel stays closed, and the lifecycle context done.
LEMMA NothingUndone ==
    ASSUME [Next]_vars
    PROVE  closed \subseteq closed' /\ (ctxDone => ctxDone')
<1>1. CASE UNCHANGED vars
  BY <1>1 DEF vars
<1>2. ASSUME NEW c \in Callers, NewCall(c) \/ CallStep(c)
      PROVE  closed \subseteq closed' /\ (ctxDone => ctxDone')
  <2>1. CASE NewCall(c)
    <3>1. ASSUME NEW op \in AllOps, Call(c, op)
          PROVE  UNCHANGED <<closed, ctxDone>>
      BY <3>1 DEF Call
    <3>2. CASE UpdateRead(c) \/ Remove(c)
      BY <3>2 DEF UpdateRead, Remove
    <3> QED BY <2>1, <3>1, <3>2 DEF NewCall
  <2>2. CASE \/ StartEnter(c) \/ DepWaitFails(c) \/ DepsMet(c) \/ LaunchFails(c)
             \/ Launch(c)
    BY <2>2 DEF StartEnter, DepWaitFails, DepsMet, LaunchFails, Launch
  <2>3. CASE \/ StopEnter(c) \/ StopSignal(c) \/ StopFinish(c) \/ StartAgain(c)
    BY <2>3 DEF StopEnter, StopSignal, StopFinish, StartAgain
  <2>4. CASE \/ StopAllCheck(c) \/ DetachCheck(c) \/ Detach(c) \/ Shutdown(c)
             \/ UpdateSwap(c)
    BY <2>4 DEF StopAllCheck, DetachCheck, Detach, Shutdown, UpdateSwap
  <2> QED BY <1>2, <2>1, <2>2, <2>3, <2>4 DEF CallStep
<1>3. ASSUME NEW p \in Procs, ProcStep(p)
      PROVE  UNCHANGED <<closed, ctxDone>>
  BY <1>3 DEF ProcStep, ProcExit
<1>4. ASSUME NEW m \in Procs, MonStep(m)
      PROVE  UNCHANGED <<closed, ctxDone>>
  BY <1>4
  DEF MonStep, MonTakeStopChannel, MonTakeChannels, MonRound, MonPolicy, MonGiveUp,
      MonCleanStop, MonSave, MonCount, MonBreachWrapper, MonBreachStop, MonSleepOrStop,
      MonRestart, MonRestartFails, MonReChannels, MonUnchanged
<1>5. ASSUME NEW m \in Procs, MonSelect(m)
      PROVE  UNCHANGED <<closed, ctxDone>>
  BY <1>5
  DEF MonSelect, MonExit, MonBreach, MonHealthFail, MonTick, MonStop, MonUnchanged
<1> QED BY <1>1, <1>2, <1>3, <1>4, <1>5 DEF Next

\* It holds until the Guardian shuts down.
LEMMA QuietNext ==
    ASSUME RecordInv, RecordInv', NothingWatched, ResultsReal, QuietInv, [Next]_vars
    PROVE  QuietInv'
<1> SUFFICES ASSUME ApiOnly, ~ctxDone, ~ctxDone'
             PROVE  QuietInv'
  <2>1. ctxDone => ctxDone'
    BY NothingUndone
  <2>2. env' = env
    BY DEF Next, vars, NewCall, CallStep, ProcStep, MonStep, MonSelect
  <2> QED BY <2>1, <2>2 DEF QuietInv, ApiOnly
<1>1. CASE UNCHANGED vars
  BY <1>1
  DEF vars, QuietInv, QuietCalls, QuietRecord, QuietMonitors, QuietProcs, Free,
      ApiOnly
<1>2. ASSUME NEW c \in Callers, NewCall(c) \/ CallStep(c)
      PROVE  QuietInv'
  BY <1>2, QuietCallsKept
<1>3. ASSUME NEW p \in Procs, ProcStep(p)
      PROVE  QuietInv'
  <2>1. \A q \in Procs \ {p} : proc'[q] = proc[q]
    BY <1>3 DEF ProcStep, ProcExit
  <2>2. proc[p] \in {"signalled", "dying"} /\ proc'[p] = "exited"
    BY <1>3 DEF ProcStep, ProcExit, ApiOnly, RecordInv, TypeOK
  <2> QED
    BY <1>3, <2>1, <2>2
    DEF ProcStep, ProcExit, QuietInv, QuietCalls, QuietRecord, QuietMonitors,
        QuietProcs, Free, Live
<1>4. ASSUME NEW m \in Procs, MonStep(m) \/ MonSelect(m)
      PROVE  QuietInv'
  BY <1>4, QuietMonitorKept
<1> QED BY <1>1, <1>2, <1>3, <1>4 DEF Next

\* Where nobody stops the service, calls only start it, and launch only what is
\* not running.
AloneCalls ==
    /\ ~ctxDone /\ closed = {}
    /\ \A c \in Callers : /\ api[c].pc \in {"idle", "start", "launch"}
                          /\ api[c].pc = "launch" => svc.state # "running"

NoCopy == \A p \in Procs : proc[p] \notin Live

AloneProcs ==
    /\ \A p \in Procs : proc[p] \in Live => p = svc.wrapper
    /\ svc.state # "running" => NoCopy

\* One monitor at a time, only while the state is "running"; the process it
\* answers the end of was the only one.
Active(m) == mon[m].pc \notin {"none", "save", "done"}
Answering == {"policy", "count", "giveUp", "cleanStop", "backoff", "restart"}
AloneMonitors ==
    \A m \in Procs :
      /\ Active(m) => svc.state = "running" /\ \A n \in Procs : Active(n) => n = m
      /\ mon[m].pc \in Answering => NoCopy
      /\ mon[m].pc \in {"select", "breachStop"} => mon[m].w = svc.wrapper
      /\ mon[m].pc = "giveUp" => ~shouldRestart(svc.count)

AloneInv == StartOnly => AloneCalls /\ AloneProcs /\ AloneMonitors

\* What the starts do to a service nobody stops.
LEMMA AloneCallsKept ==
    ASSUME RecordInv, NEW c \in Callers, NewCall(c) \/ CallStep(c), env' = env,
           StartOnly, AloneInv
    PROVE  AloneInv'
<1>0. /\ AloneCalls /\ AloneProcs /\ AloneMonitors
      /\ api \in [Callers -> CallerState] /\ svc \in Service
      /\ mon \in [Procs -> Monitor] /\ proc \in [Procs -> ProcState]
      /\ env.ops = {"start"} /\ ~env.deps /\ LockHeldByHolder
      /\ NoCaller \notin Callers
  BY EnvironmentAssumption DEF AloneInv, RecordInv, TypeOK, StartOnly
<1> SUFFICES AloneCalls' /\ AloneProcs' /\ AloneMonitors'
  BY DEF AloneInv
<1> USE <1>0 DEF AloneCalls, AloneProcs, AloneMonitors, NoCopy, Active,
                 shouldRestart, LockHeldByHolder, Holding
<1>1. CASE \E op \in AllOps : Call(c, op)
  BY <1>1 DEF Call, FirstStep, CallerState
<1>2. CASE StartEnter(c)
  BY <1>2, GotoFacts, ReplyFacts DEF StartEnter, Free, Service
<1>3. CASE LaunchFails(c)
  BY <1>3, ReplyFacts DEF LaunchFails, Service
<1>4. CASE Launch(c)
  <2>1. /\ launched + 1 \in Procs
        /\ svc'.state = "running" /\ svc'.wrapper = launched + 1
        /\ proc' = [proc EXCEPT ![launched + 1] = "alive"] /\ closed' = closed
        /\ Moves(launched + 1, "born") /\ ctxDone' = ctxDone
    BY <1>4, LaunchInRange, LaunchMoves
    DEF Launch, Spawn, Attached, Service, RecordInv, TypeOK
  <2>2. NoCopy /\ \A m \in Procs : ~Active(m)
    BY <1>4 DEF Launch
  <2>3. AloneProcs'
    BY <2>1, <2>2
  <2>4. AloneMonitors'
    BY <2>1, <2>2 DEF Moves, Answering
  <2>5. AloneCalls'
    BY <1>4, <2>1, ReplyFacts DEF Launch
  <2> QED BY <2>3, <2>4, <2>5
<1>5. CASE \/ UpdateRead(c) \/ Remove(c) \/ DepWaitFails(c) \/ DepsMet(c)
           \/ StopEnter(c) \/ StopSignal(c) \/ StopFinish(c) \/ StartAgain(c)
           \/ StopAllCheck(c) \/ DetachCheck(c) \/ Detach(c) \/ Shutdown(c)
           \/ UpdateSwap(c)
  BY <1>5
  DEF UpdateRead, Remove, DepWaitFails, DepsMet, StopEnter, StopSignal,
      StopFinish, StartAgain, StopAllCheck, DetachCheck, Detach, Shutdown,
      UpdateSwap
<1> QED BY <1>1, <1>2, <1>3, <1>4, <1>5 DEF NewCall, CallStep

\* What its monitors do: each restarts only its own process, when it has ended.
LEMMA AloneMonitorKept ==
    ASSUME RecordInv, ResultsReal, NEW m \in Procs, MonStep(m) \/ MonSelect(m),
           env' = env, StartOnly, AloneInv
    PROVE  AloneInv'
<1>0. /\ AloneCalls /\ AloneProcs /\ AloneMonitors
      /\ svc \in Service /\ mon \in [Procs -> Monitor]
      /\ proc \in [Procs -> ProcState] /\ closed = {} /\ ~ctxDone
      /\ LockHeldByHolder /\ NoCaller \notin Callers
  BY EnvironmentAssumption DEF AloneInv, AloneCalls, RecordInv, TypeOK
<1> SUFFICES AloneCalls' /\ AloneProcs' /\ AloneMonitors'
  BY DEF AloneInv
<1> USE <1>0 DEF MonUnchanged, Monitor, NoCopy, Active, Answering
\* A monitor that is neither gone nor saving is the only one: what the others say
\* holds, and only its own next place is to be looked at.
<1>a. ASSUME Active(m), \A q \in Procs \ {m} : mon'[q] = mon[q],
             Active(m)' => svc'.state = "running",
             mon'[m].pc \in Answering => NoCopy',
             mon'[m].pc \in {"select", "breachStop"} => mon'[m].w = svc'.wrapper,
             mon'[m].pc = "giveUp" => ~shouldRestart(svc'.count)
      PROVE  AloneMonitors'
  BY <1>a DEF AloneMonitors, shouldRestart
<1>g. \A pc : MonGoto(m, pc) => /\ mon'[m].pc = pc
                                /\ \A q \in Procs \ {m} : mon'[q] = mon[q]
  BY DEF MonGoto, Unborn
<1>s. Active(m) => svc.state = "running" /\ mon[m].pc \in MonPcs
  BY DEF AloneMonitors
<1>u. UNCHANGED <<svc, closed, api, ctxDone, proc>> => AloneCalls' /\ AloneProcs'
  BY DEF AloneCalls, AloneProcs
<1>1. CASE \/ MonTakeStopChannel(m) \/ MonTakeChannels(m) \/ MonReChannels(m)
  <2>1. AloneMonitors'
    BY <1>1, <1>a, <1>s
    DEF MonTakeStopChannel, MonTakeChannels, MonReChannels
  <2> QED
    BY <1>1, <2>1, <1>u DEF MonTakeStopChannel, MonTakeChannels, MonReChannels
<1>2. CASE MonRound(m)
  <2>1. AloneMonitors'
    BY <1>2, <1>a, <1>g, <1>s DEF MonRound
  <2> QED BY <1>2, <2>1, <1>u DEF MonRound
<1>3. CASE MonBreach(m) \/ MonHealthFail(m) \/ MonTick(m)
  <2>1. AloneMonitors'
    BY <1>3, <1>a, <1>g, <1>s DEF MonBreach, MonHealthFail, MonTick
  <2> QED BY <1>3, <2>1, <1>u DEF MonBreach, MonHealthFail, MonTick
<1>4. ~MonStop(m)
  BY DEF MonStop, Stopped
\* The process of the round was the only one, and has ended.
<1>5. CASE MonExit(m)
  <2>1. mon[m].w = svc.wrapper
    BY <1>5 DEF MonExit, AloneMonitors
  <2>2. NoCopy
    BY <1>5, <2>1 DEF MonExit, AloneProcs, ResultsReal, Live
  <2>3. PICK pc \in {"policy", "count", "cleanStop"} : MonGoto(m, pc)
    BY <1>5 DEF MonExit, AfterExit, Stopped
  <2>4. AloneMonitors'
    BY <1>5, <2>2, <2>3, <1>a, <1>g, <1>s DEF MonExit
  <2> QED BY <1>5, <2>4, <1>u DEF MonExit
<1>6. CASE MonPolicy(m)
  <2>1. AloneMonitors'
    BY <1>6, <1>a, <1>g, <1>s DEF MonPolicy, AloneMonitors
  <2> QED BY <1>6, <2>1, <1>u DEF MonPolicy
<1>7. CASE MonGiveUp(m) \/ MonCleanStop(m)
  <2>1. NoCopy
    BY <1>7 DEF MonGiveUp, MonCleanStop, AloneMonitors
  <2>2. AloneMonitors'
    BY <1>7, <1>a, <1>g DEF MonGiveUp, MonCleanStop
  <2>3. svc'.state # "running" /\ svc'.wrapper = svc.wrapper
    BY <1>7 DEF MonGiveUp, MonCleanStop, Service
  <2>4. AloneCalls' /\ AloneProcs'
    BY <1>7, <2>1, <2>3 DEF MonGiveUp, MonCleanStop, AloneCalls, AloneProcs
  <2> QED BY <2>2, <2>4
<1>8. CASE MonSave(m)
  <2>1. AloneMonitors'
    BY <1>8, <1>g DEF MonSave, AloneMonitors, shouldRestart
  <2> QED BY <1>8, <2>1, <1>u DEF MonSave
<1>9. CASE MonCount(m)
  <2>1. svc'.state = svc.state /\ svc'.wrapper = svc.wrapper
    BY <1>9 DEF MonCount, CountAttempt, Service
  <2>2. mon[m].pc = "count" => NoCopy
    BY DEF AloneMonitors
  <2>3. AloneMonitors'
    BY <1>9, <2>1, <2>2, <1>a, <1>g, <1>s DEF MonCount
  <2>4. AloneCalls' /\ AloneProcs'
    BY <1>9, <2>1 DEF MonCount, AloneCalls, AloneProcs
  <2> QED BY <2>3, <2>4
<1>10. CASE MonBreachWrapper(m)
  <2>1. \A p \in Procs : proc'[p] \in Live => proc[p] \in Live
    BY <1>10 DEF MonBreachWrapper, Signal, Live
  <2>2. svc.wrapper = 0 => NoCopy
    BY DEF AloneProcs, Procs
  <2>3. AloneMonitors'
    BY <1>10, <2>1, <2>2, <1>a, <1>s DEF MonBreachWrapper
  <2>4. AloneCalls' /\ AloneProcs'
    BY <1>10, <2>1 DEF MonBreachWrapper, AloneCalls, AloneProcs
  <2> QED BY <2>3, <2>4
<1>11. CASE MonBreachStop(m)
  <2>1. NoCopy'
    BY <1>11 DEF MonBreachStop, StopAndClose, KillAll, AloneMonitors, AloneProcs, Live
  <2>2. AloneMonitors'
    BY <1>11, <2>1, <1>a, <1>g, <1>s DEF MonBreachStop
  <2>3. AloneCalls' /\ AloneProcs'
    BY <1>11, <2>1 DEF MonBreachStop, AloneCalls, AloneProcs
  <2> QED BY <2>2, <2>3
<1>12. CASE MonSleepOrStop(m)
  <2>1. NoCopy
    BY <1>12 DEF MonSleepOrStop, AloneMonitors
  <2>2. AloneMonitors'
    BY <1>12, <2>1, <1>a, <1>g, <1>s DEF MonSleepOrStop, AfterSleep
  <2> QED BY <1>12, <2>2, <1>u DEF MonSleepOrStop
<1>13. CASE MonRestart(m)
  <2>1. /\ launched + 1 \in Procs /\ NoCopy
        /\ svc'.state = "running" /\ svc'.wrapper = launched + 1
        /\ proc' = [proc EXCEPT ![launched + 1] = "alive"]
    BY <1>13, LaunchInRange
    DEF MonRestart, Spawn, Attached, Service, RecordInv, TypeOK, AloneMonitors
  <2>2. AloneMonitors'
    BY <1>13, <2>1, <1>a, <1>g DEF MonRestart
  <2>3. AloneProcs'
    BY <2>1 DEF AloneProcs
  <2>4. AloneCalls'
    BY <1>13 DEF MonRestart, AloneCalls, Free, LockHeldByHolder, Holding
  <2> QED BY <2>2, <2>3, <2>4
<1>14. CASE MonRestartFails(m)
  <2>1. /\ NoCopy /\ svc'.state = "failed" /\ svc'.wrapper = svc.wrapper
    BY <1>14 DEF MonRestartFails, Service, AloneMonitors
  <2>2. AloneMonitors'
    BY <1>14, <2>1, <1>a, <1>g DEF MonRestartFails
  <2>3. AloneCalls' /\ AloneProcs'
    BY <1>14, <2>1 DEF MonRestartFails, AloneProcs, AloneCalls
  <2> QED BY <2>2, <2>3
<1> QED
  BY <1>1, <1>2, <1>3, <1>4, <1>5, <1>6, <1>7, <1>8, <1>9, <1>10, <1>11, <1>12,
     <1>13, <1>14 DEF MonStep, MonSelect

\* No step brings a second copy.
LEMMA AloneNext ==
    ASSUME RecordInv, ResultsReal, AloneInv, [Next]_vars
    PROVE  AloneInv'
<1>0. env' = env
  BY DEF Next, vars, NewCall, CallStep, ProcStep, MonStep, MonSelect
<1> SUFFICES ASSUME StartOnly PROVE AloneInv'
  BY <1>0 DEF AloneInv, StartOnly
<1>1. CASE UNCHANGED vars
  BY <1>1
  DEF vars, AloneInv, AloneCalls, AloneProcs, AloneMonitors, NoCopy, Active,
      shouldRestart
<1>2. ASSUME NEW c \in Callers, NewCall(c) \/ CallStep(c)
      PROVE  AloneInv'
  BY <1>0, <1>2, AloneCallsKept
<1>3. ASSUME NEW p \in Procs, ProcStep(p)
      PROVE  AloneInv'
  <2>1. \A q \in Procs : proc'[q] \in Live => proc[q] \in Live
    BY <1>3 DEF ProcStep, ProcExit, RecordInv, TypeOK, Live
  <2> QED
    BY <1>3, <2>1
    DEF ProcStep, ProcExit, AloneInv, AloneCalls, AloneProcs, AloneMonitors,
        NoCopy, Active, shouldRestart
<1>4. ASSUME NEW m \in Procs, MonStep(m) \/ MonSelect(m)
      PROVE  AloneInv'
  BY <1>0, <1>4, AloneMonitorKept
<1> QED BY <1>1, <1>2, <1>3, <1>4 DEF Next

CopyInv == /\ NothingWatched
           /\ ResultsReal
           /\ QuietInv
           /\ AloneInv

\* Both hold in every reachable state.
LEMMA CopyAlways == Spec => []CopyInv
<1>1. Init => CopyInv
  <2> SUFFICES ASSUME Init PROVE CopyInv OBVIOUS
  <2>1. /\ \A m \in Procs : /\ mon[m].pc = "none"
                            /\ mon[m].health = 0 /\ mon[m].breach = 0
        /\ \A c \in Callers : api[c].pc = "idle"
    BY DEF Init, Unborn, Idle
  <2>2. NothingWatched /\ ResultsReal
    BY <2>1 DEF Init, NothingWatched, ResultsReal
  <2>3. QuietInv
    BY <2>1
    DEF Init, QuietInv, QuietCalls, QuietRecord, QuietMonitors, QuietProcs,
        Watching, Live
  <2>4. AloneInv
    BY <2>1
    DEF Init, AloneInv, AloneCalls, AloneProcs, AloneMonitors, NoCopy, Active,
        Answering, Live
  <2> QED BY <2>2, <2>3, <2>4 DEF CopyInv
<1>2. RecordInv /\ RecordInv' /\ CopyInv /\ [Next]_vars => CopyInv'
  BY NothingWatchedNext, ResultsRealNext, QuietNext, AloneNext
  DEF CopyInv, RecordInv
<1> QED BY <1>1, <1>2, RecordAlways, PTL DEF Spec

-----------------------------------------------------------------------------
(* The pollers and the log captures.                                       *)

\* What still runs beside the watchers in the record was overwritten by a start.
WatchersLeft ==
    /\ \A p \in (polling \ {svc.resMon}) \cup (capturing \ {svc.capture}) :
         OverwrittenByStart(p)
    /\ ApiOnly => polling \subseteq {svc.resMon} /\ capturing \subseteq {svc.capture}

\* Where no process is launched, what is in place of the record's may only end.
LEMMA WatchersShrink ==
    ASSUME TypeOK, WatchersLeft, UNCHANGED <<env, launched>>,
           \A q \in Procs : mon[q].pc # "none" => mon'[q].pc # "none",
           polling' \ {svc'.resMon} \subseteq polling \ {svc.resMon},
           capturing' \ {svc'.capture} \subseteq capturing \ {svc.capture}
    PROVE  WatchersLeft'
<1>1. ASSUME NEW p \in (polling' \ {svc'.resMon}) \cup (capturing' \ {svc'.capture})
      PROVE  p < launched /\ mon'[p+1].pc # "none"
  <2>1. p \in Procs /\ p < launched /\ mon[p+1].pc # "none"
    BY <1>1 DEF WatchersLeft, OverwrittenByStart, TypeOK
  <2>2. p + 1 \in Procs
    BY <2>1, EnvironmentAssumption DEF TypeOK, Procs, ProcOrNil
  <2> QED BY <2>1, <2>2
<1>2. ApiOnly' => polling' \subseteq {svc'.resMon} /\ capturing' \subseteq {svc'.capture}
  BY DEF WatchersLeft, ApiOnly
<1> QED BY <1>1, <1>2 DEF WatchersLeft, OverwrittenByStart

\* A start adds the watchers of its process, and what it overwrites is that of
\* the process before.
LEMMA WatchersLaunch ==
    ASSUME RecordInv, QuietInv, WatchersLeft, env' = env, NEW c \in Callers, Launch(c)
    PROVE  WatchersLeft'
<1> DEFINE n == launched + 1
<1>0. /\ TypeOK /\ AttachmentsMatch /\ svc \in Service /\ launched \in Nat
      /\ polling \subseteq Procs /\ capturing \subseteq Procs
      /\ mon \in [Procs -> Monitor]
  BY ProcInRange, EnvironmentAssumption DEF RecordInv, TypeOK, ProcOrNil
<1>1. /\ launched' = n /\ svc'.resMon = n /\ svc'.capture = n /\ n \in Procs
      /\ polling' = polling \cup {n} /\ capturing' = capturing \cup {n}
      /\ mon'[n].pc # "none" /\ \A q \in Procs \ {n} : mon'[q].pc = mon[q].pc
      /\ api[c].pc = "launch" /\ ~ctxDone
  <2>1. n \in Procs /\ Moves(n, "born")
    BY <1>0, LaunchMoves
  <2>2. svc'.resMon = n /\ svc'.capture = n
    BY <1>0 DEF Launch, Attached, Service
  <2> QED BY <1>0, <2>1, <2>2 DEF Launch, LaunchCanSucceed, Spawn, Moves
<1>2. ASSUME NEW p \in polling \cup capturing, p # n
      PROVE  p < launched' /\ mon'[p+1].pc # "none"
  <2>1. p \in Procs /\ p \in Nat /\ p # 0
    BY <1>0, <1>2 DEF Procs
  <2>2. CASE OverwrittenByStart(p)
    <3>1. p < launched /\ mon[p+1].pc # "none"
      BY <2>2 DEF OverwrittenByStart
    <3>2. p + 1 \in Procs /\ p + 1 # n
      BY <3>1, <2>1, <1>0, EnvironmentAssumption DEF TypeOK, Procs, ProcOrNil
    <3> QED BY <3>1, <3>2, <1>1, <1>0, <2>1
  <2>3. CASE p \in {svc.resMon, svc.capture}
    <3>1. p = launched
      BY <2>3, <2>1, <1>0 DEF AttachmentsMatch
    <3> QED BY <3>1, <1>1, <1>0
  <2> QED BY <1>2, <2>2, <2>3 DEF WatchersLeft
<1>3. ASSUME ApiOnly
      PROVE  polling' \subseteq {n} /\ capturing' \subseteq {n}
  <2>1. svc.wrapper = 0
    BY <1>1, <1>3 DEF QuietInv, QuietCalls
  <2>2. polling = {} /\ capturing = {}
    BY <2>1, <1>0, <1>3 DEF AttachmentsMatch, WatchersLeft, Procs
  <2> QED BY <2>2, <1>1
<1> QED BY <1>1, <1>2, <1>3 DEF WatchersLeft, OverwrittenByStart, ApiOnly

\* A restart takes the place of its predecessor.
LEMMA WatchersRestart ==
    ASSUME RecordInv, WatchersLeft, env' = env, NEW m \in Procs, MonRestart(m)
    PROVE  WatchersLeft'
<1>0. /\ TypeOK /\ svc \in Service /\ launched \in Nat
      /\ polling \subseteq Procs /\ capturing \subseteq Procs
  BY ProcInRange, EnvironmentAssumption DEF RecordInv, TypeOK, ProcOrNil
<1>1. /\ launched' = launched + 1 /\ svc'.resMon = launched + 1
      /\ svc'.capture = launched + 1
      /\ polling' = (polling \ {svc.resMon}) \cup {launched + 1}
      /\ capturing' = (capturing \ {svc.capture}) \cup {launched + 1}
  BY <1>0 DEF MonRestart, Replaced, Attached, Service, Spawn
<1>2. \A q \in Procs : mon[q].pc # "none" => mon'[q].pc # "none"
  BY <1>0, RestartMoves DEF Moves
<1>3. ASSUME NEW p \in (polling' \ {svc'.resMon}) \cup (capturing' \ {svc'.capture})
      PROVE  p < launched' /\ mon'[p+1].pc # "none"
  <2>1. p \in Procs /\ p < launched /\ mon[p+1].pc # "none"
    BY <1>0, <1>1, <1>3 DEF WatchersLeft, OverwrittenByStart
  <2>2. p + 1 \in Procs
    BY <2>1, <1>0, EnvironmentAssumption DEF TypeOK, Procs, ProcOrNil
  <2> QED BY <2>1, <2>2, <1>1, <1>2, <1>0 DEF Procs
<1>4. ApiOnly => polling' \subseteq {svc'.resMon} /\ capturing' \subseteq {svc'.capture}
  BY <1>1 DEF WatchersLeft
<1> QED BY <1>3, <1>4 DEF WatchersLeft, OverwrittenByStart, ApiOnly

\* Every other step leaves them alone or ends those of the record.
LEMMA WatchersNext ==
    ASSUME RecordInv, QuietInv, WatchersLeft, [Next]_vars
    PROVE  WatchersLeft'
<1> DEFINE Shrinks ==
             /\ UNCHANGED <<env, launched>>
             /\ \A q \in Procs : mon[q].pc # "none" => mon'[q].pc # "none"
             /\ polling' \ {svc'.resMon} \subseteq polling \ {svc.resMon}
             /\ capturing' \ {svc'.capture} \subseteq capturing \ {svc.capture}
<1>0. TypeOK /\ svc \in Service
  BY DEF RecordInv, TypeOK
<1>s. Shrinks => WatchersLeft'
  BY <1>0, WatchersShrink
<1>1. CASE UNCHANGED vars
  BY <1>1, <1>s DEF vars
<1>2. ASSUME NEW c \in Callers, NewCall(c) \/ CallStep(c), ~Launch(c)
      PROVE  Shrinks
  <2>0. env' = env
    BY <1>2 DEF NewCall, CallStep
  <2>1. CASE NewCall(c)
    BY <2>1, <2>0 DEF NewCall, Call, UpdateRead, Remove
  <2>2. CASE StartEnter(c) \/ DepWaitFails(c) \/ DepsMet(c) \/ LaunchFails(c)
    BY <2>0, <2>2, <1>0 DEF StartEnter, DepWaitFails, DepsMet, LaunchFails, Service
  <2>3. CASE StopEnter(c) \/ StartAgain(c) \/ StopAllCheck(c) \/ DetachCheck(c)
    BY <2>0, <2>3, <1>0 DEF StopEnter, StartAgain, StopAllCheck, DetachCheck, Service
  <2>4. CASE StopSignal(c)
    BY <2>0, <2>4, <1>0 DEF StopSignal, StopWatchers, Service
  <2>5. CASE StopFinish(c)
    BY <2>0, <2>5, <1>0 DEF StopFinish, Service
  <2>6. CASE Detach(c)
    BY <2>0, <2>6, <1>0 DEF Detach, StopWatchers, Service
  <2>7. CASE Shutdown(c)
    BY <2>0, <2>7 DEF Shutdown
  <2>8. CASE UpdateSwap(c)
    BY <2>0, <2>8, <1>0 DEF UpdateSwap, Service
  <2> QED BY <1>2, <2>1, <2>2, <2>3, <2>4, <2>5, <2>6, <2>7, <2>8 DEF CallStep
<1>3. ASSUME NEW p \in Procs, ProcStep(p)
      PROVE  Shrinks
  BY <1>3 DEF ProcStep, ProcExit
<1>4. ASSUME NEW m \in Procs, MonStep(m) \/ MonSelect(m), ~MonRestart(m)
      PROVE  Shrinks
  <2>1. env' = env
    BY <1>4 DEF MonStep, MonSelect
  <2>2. launched' = launched /\ \A q \in Procs : mon[q].pc # "none" => mon'[q].pc # "none"
    <3>1. CASE MonCount(m)
      BY <3>1, <1>0, CountMoves DEF Moves
    <3>2. CASE ~MonCount(m)
      BY <1>4, <3>2, <1>0, MonitorMoves DEF Moves
    <3> QED BY <3>1, <3>2
  <2>3. CASE MonRestartFails(m)
    BY <2>1, <2>2, <2>3, <1>0 DEF MonRestartFails, Service
  <2>4. CASE MonGiveUp(m) \/ MonCleanStop(m) \/ MonCount(m)
    BY <2>1, <2>2, <2>4, <1>0 DEF MonGiveUp, MonCleanStop, MonCount, CountAttempt, Service
  <2>5. CASE MonSave(m) \/ MonBreachWrapper(m) \/ MonBreachStop(m)
    BY <2>1, <2>2, <2>5 DEF MonSave, MonBreachWrapper, MonBreachStop
  <2>6. CASE MonUnchanged
    BY <2>1, <2>2, <2>6 DEF MonUnchanged
  <2>7. \/ MonUnchanged
        \/ MonGiveUp(m) \/ MonCleanStop(m) \/ MonCount(m) \/ MonRestartFails(m)
        \/ MonSave(m) \/ MonBreachWrapper(m) \/ MonBreachStop(m)
    BY <1>4
    DEF MonStep, MonSelect, MonTakeStopChannel, MonTakeChannels, MonRound,
        MonPolicy, MonSleepOrStop, MonReChannels, MonExit, MonBreach,
        MonHealthFail, MonTick, MonStop
  <2> QED BY <2>3, <2>4, <2>5, <2>6, <2>7
<1>5. ASSUME NEW c \in Callers, CallStep(c), Launch(c)
      PROVE  WatchersLeft'
  BY <1>5, WatchersLaunch DEF CallStep
<1>6. ASSUME NEW m \in Procs, MonStep(m), MonRestart(m)
      PROVE  WatchersLeft'
  BY <1>6, WatchersRestart DEF MonStep
<1>7. ASSUME NEW c \in Callers, NewCall(c) \/ CallStep(c)
      PROVE  WatchersLeft'
  <2>1. ~Launch(c) \/ CallStep(c)
    BY <1>7 DEF NewCall, Call, UpdateRead, Remove, Launch
  <2> QED BY <1>7, <2>1, <1>2, <1>5, <1>s
<1>8. ASSUME NEW m \in Procs, MonStep(m) \/ MonSelect(m)
      PROVE  WatchersLeft'
  <2>1. ~MonRestart(m) \/ MonStep(m)
    BY <1>8
    DEF MonSelect, MonExit, MonBreach, MonHealthFail, MonTick, MonStop, MonRestart
  <2> QED BY <1>8, <2>1, <1>4, <1>6, <1>s
<1> QED BY <1>1, <1>3, <1>7, <1>8, <1>s DEF Next

\* A poller or a log capture ends with its place in the record, unless a start
\* overwrites it; where processes only end when they are stopped, none is left
\* (stopService, doRestart and DetachAll against startService, for any number of
\* callers and monitors).
THEOREM WatchersCorrect == Spec => []WatchersEnd
<1>1. Init => WatchersLeft
  BY DEF Init, WatchersLeft
<1>2. RecordInv /\ CopyInv /\ WatchersLeft /\ [Next]_vars => WatchersLeft'
  BY WatchersNext DEF CopyInv
<1>3. RecordInv /\ WatchersLeft => WatchersEnd
  BY DEF RecordInv, AttachmentsMatch, WatchersLeft, WatchersEnd
<1> QED BY <1>1, <1>2, <1>3, RecordAlways, CopyAlways, PTL DEF Spec

-----------------------------------------------------------------------------
(* A second copy of the service, in any environment.                       *)

\* No start has succeeded, or only one.
OneMonitor == \A m, n \in Monitors : m = n

\* Until then the processes the monitor launches are those of the record ...
SoleProcs ==
    /\ Monitors = {} => NoCopy
    /\ \A p \in Procs : proc[p] \in Live => p = svc.wrapper

\* ... and when it answers the end of one, that was the only one, whatever the
\* calls did to the record in the meantime.
SoleMonitor ==
    \A m \in Procs :
      /\ mon[m].pc \in Answering => NoCopy
      /\ mon[m].pc \in {"select", "breachStop"} => svc.wrapper \in {0, mon[m].w}

SoleInv == OneMonitor => SoleProcs /\ SoleMonitor

\* Starts that fail, stops, updates and shutdowns leave no process behind that
\* the record does not show, and bring none.
LEMMA SoleCallsKept ==
    ASSUME RecordInv, ResultsReal, NoneAhead, NEW c \in Callers,
           NewCall(c) \/ CallStep(c), SoleInv
    PROVE  SoleInv'
<1>0. /\ svc \in Service /\ mon \in [Procs -> Monitor]
      /\ proc \in [Procs -> ProcState] /\ TypeOK /\ launched \in Nat
  BY ProcInRange, EnvironmentAssumption DEF RecordInv, TypeOK, ProcOrNil
<1>1. CASE Launch(c)
  <2>1. /\ launched + 1 \in Procs /\ Moves(launched + 1, "born")
        /\ svc'.wrapper = launched + 1
        /\ proc' = [proc EXCEPT ![launched + 1] = "alive"]
    BY <1>0, <1>1, LaunchMoves DEF Launch, Spawn, Attached, Service
  <2>2. SUFFICES ASSUME OneMonitor' PROVE (SoleProcs /\ SoleMonitor)'
    BY DEF SoleInv
  <2>3. Monitors = {}
    BY <1>0, <2>1, <2>2 DEF NoneAhead, Monitors, OneMonitor, Moves
  <2>4. NoCopy
    BY <2>3 DEF SoleInv, SoleProcs, OneMonitor
  <2>5. \A q \in Procs : mon'[q].pc = IF q = launched + 1 THEN "born" ELSE "none"
    BY <2>1, <2>3 DEF Moves, Monitors
  <2>6. SoleProcs'
    BY <1>0, <2>1, <2>4, <2>5 DEF SoleProcs, NoCopy, Monitors
  <2> QED BY <2>5, <2>6 DEF SoleMonitor, Answering
\* The other calls leave the monitors, end processes at most, and forget the
\* wrapper only of one they end.
<1>2. ASSUME mon' = mon, svc'.wrapper \in {0, svc.wrapper},
             \A p \in Procs : proc'[p] \in Live =>
               /\ proc[p] \in Live
               /\ p = svc.wrapper => svc'.wrapper = p
      PROVE  SoleInv'
  BY <1>2
  DEF SoleInv, OneMonitor, Monitors, SoleProcs, SoleMonitor, NoCopy
<1>k. \A ps : KillAll(ps) =>
        \A p \in Procs : proc'[p] \in Live => proc[p] \in Live /\ p \notin ps
  BY <1>0 DEF KillAll, Live
<1>3. CASE NewCall(c)
  BY <1>0, <1>2, <1>3 DEF NewCall, Call, UpdateRead, Remove
<1>4. CASE StartEnter(c) \/ DepWaitFails(c) \/ DepsMet(c) \/ LaunchFails(c)
  BY <1>0, <1>2, <1>4 DEF StartEnter, DepWaitFails, DepsMet, LaunchFails, Service
<1>5. CASE StopEnter(c) \/ StartAgain(c) \/ StopAllCheck(c) \/ DetachCheck(c)
  BY <1>0, <1>2, <1>5 DEF StopEnter, StartAgain, StopAllCheck, DetachCheck, Service
<1>6. CASE StopSignal(c)
  <2>1. mon' = mon /\ svc'.wrapper = svc.wrapper
    BY <1>0, <1>6 DEF StopSignal, StopWatchers, Service
  <2>2. \A p \in Procs : proc'[p] \in Live => proc[p] \in Live
    BY <1>0, <1>6 DEF StopSignal, Signal, Live
  <2> QED BY <1>2, <2>1, <2>2
<1>7. CASE StopFinish(c)
  <2>1. mon' = mon /\ svc'.wrapper = 0 /\ KillAll({svc.wrapper})
    BY <1>0, <1>7 DEF StopFinish, StopAndClose, Service
  <2> QED BY <1>2, <1>k, <2>1
<1>8. CASE Detach(c)
  <2>1. /\ mon' = mon
        /\ \/ svc' = svc /\ proc' = proc
           \/ svc'.wrapper = 0 /\ KillAll({svc.wrapper})
    BY <1>0, <1>8 DEF Detach, StopWatchers, Service
  <2> QED BY <1>2, <1>k, <2>1
<1>9. CASE Shutdown(c)
  BY <1>2, <1>9, <1>k DEF Shutdown
<1>10. CASE UpdateSwap(c)
  BY <1>0, <1>2, <1>10 DEF UpdateSwap, Service
<1> QED
  BY <1>1, <1>3, <1>4, <1>5, <1>6, <1>7, <1>8, <1>9, <1>10 DEF CallStep, NewCall

\* The one monitor launches only when there is no copy.
LEMMA SoleMonitorKept ==
    ASSUME RecordInv, ResultsReal, NEW m \in Procs, MonStep(m) \/ MonSelect(m),
           SoleInv
    PROVE  SoleInv'
<1>0. /\ svc \in Service /\ mon \in [Procs -> Monitor] /\ TypeOK
      /\ proc \in [Procs -> ProcState]
  BY DEF RecordInv, TypeOK
<1>m. mon[m].pc # "none" /\ \E pc \in MonPcs \ {"none"} : Moves(m, pc)
  <2>1. CASE MonCount(m)
    BY <1>0, <2>1, CountMoves DEF MonPcs
  <2>2. CASE MonRestart(m)
    BY <1>0, <2>2, RestartMoves DEF MonPcs
  <2> QED BY <1>0, <2>1, <2>2, MonitorMoves
<1> SUFFICES ASSUME OneMonitor' PROVE (SoleProcs /\ SoleMonitor)'
  BY DEF SoleInv
<1>o. /\ OneMonitor /\ \A q \in Procs \ {m} : mon[q].pc = "none" /\ mon'[q].pc = "none"
      /\ Monitors' # {}
  BY <1>m DEF OneMonitor, Monitors, Moves
<1>i. SoleProcs /\ SoleMonitor
  BY <1>o DEF SoleInv
<1>a. ASSUME \A p \in Procs : proc'[p] \in Live => p = svc'.wrapper,
             mon'[m].pc \in Answering => NoCopy',
             mon'[m].pc \in {"select", "breachStop"}
               => svc'.wrapper \in {0, mon'[m].w}
      PROVE  (SoleProcs /\ SoleMonitor)'
  BY <1>a, <1>o DEF SoleProcs, SoleMonitor, Answering
<1>g. \A pc : MonGoto(m, pc) => mon'[m].pc = pc
  BY <1>0 DEF MonGoto, Unborn, Monitor
<1> USE <1>0 DEF Answering, MonUnchanged, NoCopy
<1>1. CASE \/ MonTakeStopChannel(m) \/ MonTakeChannels(m) \/ MonReChannels(m)
  BY <1>1, <1>a, <1>i
  DEF MonTakeStopChannel, MonTakeChannels, MonReChannels, SoleProcs, Monitor
<1>2. CASE MonRound(m)
  BY <1>2, <1>a, <1>g, <1>i DEF MonRound, SoleProcs, Monitor
<1>3. CASE MonBreach(m) \/ MonHealthFail(m) \/ MonTick(m) \/ MonStop(m)
  BY <1>3, <1>a, <1>g, <1>i
  DEF MonBreach, MonHealthFail, MonTick, MonStop, SoleProcs, Monitor
<1>4. CASE MonExit(m)
  <2>1. svc.wrapper \in {0, mon[m].w}
    BY <1>4, <1>i DEF MonExit, SoleMonitor
  <2>2. NoCopy
    BY <1>4, <1>i, <2>1 DEF MonExit, SoleProcs, ResultsReal, Live, Procs
  <2>3. \E pc \in {"policy", "count", "cleanStop", "done"} : MonGoto(m, pc)
    BY <1>4 DEF MonExit, AfterExit
  <2> QED BY <1>4, <1>a, <1>g, <2>2, <2>3 DEF MonExit
<1>5. CASE \/ MonPolicy(m) \/ MonSleepOrStop(m)
  BY <1>5, <1>a, <1>g, <1>i
  DEF MonPolicy, MonSleepOrStop, AfterSleep, SoleProcs, SoleMonitor
<1>6. CASE \/ MonGiveUp(m) \/ MonCleanStop(m) \/ MonSave(m) \/ MonRestartFails(m)
  BY <1>6, <1>a, <1>g, <1>i
  DEF MonGiveUp, MonCleanStop, MonSave, MonRestartFails, SoleProcs, Service
<1>7. CASE MonCount(m)
  <2>1. svc'.wrapper = svc.wrapper
    BY <1>7 DEF MonCount, CountAttempt, Service
  <2> QED BY <1>7, <2>1, <1>a, <1>g, <1>i DEF MonCount, SoleProcs, SoleMonitor
<1>8. CASE MonBreachWrapper(m)
  <2>1. \A p \in Procs : proc'[p] \in Live => proc[p] \in Live
    BY <1>8 DEF MonBreachWrapper, Signal, Live
  <2>2. svc.wrapper = 0 => NoCopy
    BY <1>i DEF SoleProcs, Procs
  <2> QED
    BY <1>8, <2>1, <2>2, <1>a, <1>i DEF MonBreachWrapper, SoleProcs, Monitor
<1>9. CASE MonBreachStop(m)
  <2>1. NoCopy'
    <3>1. svc.wrapper \in {0, mon[m].w} /\ KillAll({mon[m].w})
      BY <1>9, <1>i DEF MonBreachStop, StopAndClose, SoleMonitor
    <3>2. \A p \in Procs : proc'[p] \in Live => proc[p] \in Live /\ p # mon[m].w
      BY <3>1 DEF KillAll, Live
    <3> QED BY <3>1, <3>2, <1>i DEF SoleProcs, Procs
  <2> QED BY <1>9, <2>1, <1>a, <1>g DEF MonBreachStop
<1>10. CASE MonRestart(m)
  <2>1. /\ launched + 1 \in Procs /\ NoCopy
        /\ svc'.wrapper = launched + 1
        /\ proc' = [proc EXCEPT ![launched + 1] = "alive"]
    BY <1>10, <1>i, LaunchInRange
    DEF MonRestart, Spawn, Attached, Service, TypeOK, SoleMonitor
  <2>2. \A p \in Procs : proc'[p] \in Live => p = svc'.wrapper
    BY <2>1
  <2> QED BY <1>10, <2>2, <1>a, <1>g DEF MonRestart
<1> QED
  BY <1>1, <1>2, <1>3, <1>4, <1>5, <1>6, <1>7, <1>8, <1>9, <1>10
  DEF MonStep, MonSelect

LEMMA SoleNext ==
    ASSUME RecordInv, ResultsReal, NoneAhead, SoleInv, [Next]_vars
    PROVE  SoleInv'
<1>1. CASE UNCHANGED vars
  BY <1>1
  DEF vars, SoleInv, OneMonitor, Monitors, SoleProcs, SoleMonitor, NoCopy
<1>2. ASSUME NEW c \in Callers, NewCall(c) \/ CallStep(c)
      PROVE  SoleInv'
  BY <1>2, SoleCallsKept
<1>3. ASSUME NEW p \in Procs, ProcStep(p)
      PROVE  SoleInv'
  <2>1. /\ mon' = mon /\ svc' = svc
        /\ \A q \in Procs : proc'[q] \in Live => proc[q] \in Live
    BY <1>3 DEF ProcStep, ProcExit, RecordInv, TypeOK, Live
  <2> QED
    BY <2>1 DEF SoleInv, OneMonitor, Monitors, SoleProcs, SoleMonitor, NoCopy
<1>4. ASSUME NEW m \in Procs, MonStep(m) \/ MonSelect(m)
      PROVE  SoleInv'
  BY <1>4, SoleMonitorKept
<1> QED BY <1>1, <1>2, <1>3, <1>4 DEF Next

LEMMA SoleAlways == Spec => [](NoneAhead /\ SoleInv)
<1>1. Init => NoneAhead /\ SoleInv
  <2> SUFFICES ASSUME Init PROVE NoneAhead /\ SoleInv OBVIOUS
  <2>1. \A m \in Procs : mon[m].pc = "none" /\ proc[m] = "none"
    BY DEF Init, Unborn
  <2> QED
    BY <2>1
    DEF NoneAhead, SoleInv, SoleProcs, SoleMonitor, NoCopy, Live, Answering
<1>2. /\ RecordInv /\ CopyInv /\ NoneAhead /\ SoleInv /\ [Next]_vars
      => (NoneAhead /\ SoleInv)'
  BY NoneAheadNext, SoleNext DEF RecordInv, CopyInv
<1> QED BY <1>1, <1>2, RecordAlways, CopyAlways, PTL DEF Spec

\* So says the count of the monitors.
LEMMA OneMonitorCounted == Cardinality(Monitors) <= 1 => OneMonitor
<1> SUFFICES ASSUME Cardinality(Monitors) <= 1, NEW m \in Monitors, NEW n \in Monitors,
                    m # n
             PROVE  FALSE
  BY DEF OneMonitor
<1>1. Monitors \in SUBSET Procs
  BY DEF Monitors
<1>2. Cardinality({m, n}) = 2
  <2>1. /\ IsFiniteSet({m}) /\ Cardinality({m}) = 1
        /\ {m, n} = {m} \cup {n} /\ n \notin {m}
    BY FS_Singleton
  <2> QED BY <2>1, FS_AddElement
<1>3. {m, n} \in SUBSET Monitors
  OBVIOUS
<1>4. Cardinality({m, n}) <= Cardinality(Monitors) /\ Cardinality(Monitors) \in Nat
  BY <1>1, <1>3, ProcsFinite
<1> QED BY <1>2, <1>4

\* The one copy there may be is the one the record is attached to.
CopiesShown == Undisturbed => Copies \subseteq {svc.wrapper}

LEMMA CopiesAttached ==
    RecordInv /\ ShutdownLeavesNothing /\ CopyInv /\ SoleInv => CopiesShown
<1> QED
  BY OneMonitorCounted
  DEF CopyInv, QuietInv, QuietProcs, AloneInv, AloneProcs, SoleInv, SoleProcs,
      ShutdownLeavesNothing, Copies, CopiesShown, Undisturbed

\* Where the monitors have nothing to restart, nobody stops the service, or no start
\* but one has succeeded, at most one copy of it runs, for any number of callers: a
\* stop leaves no wrapper behind for the next launch (stopService), a shutdown no
\* process, and a monitor launches again only after the end of the one process there
\* was (monitorService, doRestart).  A second copy takes a second start, in every
\* environment.
THEOREM SingleCopyCorrect == Spec => []SingleCopy
<1>1. RecordInv /\ ShutdownLeavesNothing /\ CopyInv /\ SoleInv => SingleCopy
  <2> SUFFICES ASSUME RecordInv, ShutdownLeavesNothing, CopyInv, SoleInv,
                      Undisturbed
               PROVE  Cardinality(Copies) <= 1 /\ Copies \subseteq {svc.wrapper}
    BY DEF SingleCopy
  <2>1. Copies \subseteq {svc.wrapper}
    BY CopiesAttached DEF CopiesShown
  <2>2. IsFiniteSet({svc.wrapper}) /\ Cardinality({svc.wrapper}) = 1
    BY FS_Singleton
  <2>3. Cardinality(Copies) <= 1
    BY <2>1, <2>2, FS_Subset
  <2> QED BY <2>1, <2>3
<1> QED BY <1>1, RecordAlways, ShutdownCorrect, CopyAlways, SoleAlways, PTL

-----------------------------------------------------------------------------
(* The service as Supervision promises it.                                 *)

\* A step ends copies or launches one, never both.
LEMMA OneWay ==
    ASSUME TypeOK, [Next]_vars
    PROVE  Copies' \subseteq Copies \/ Copies \subseteq Copies'
<1>0. /\ proc \in [Procs -> ProcState]
      /\ LaunchCanSucceed => launched + 1 \in Procs
  BY LaunchInRange DEF TypeOK
<1> USE <1>0 DEF Copies, Live
<1>a. proc' = proc => Copies' \subseteq Copies
  OBVIOUS
<1>k. \A ps : KillAll(ps) => Copies' \subseteq Copies
  BY DEF KillAll
<1>g. \A w : Signal(w) => Copies' \subseteq Copies
  BY DEF Signal
<1>s. \A w : StopAndClose(w) => Copies' \subseteq Copies
  BY <1>k DEF StopAndClose
<1>l. LaunchCanSucceed /\ Spawn(launched + 1) => Copies \subseteq Copies'
  BY DEF Spawn
<1>1. CASE UNCHANGED vars
  BY <1>1, <1>a DEF vars
<1>2. ASSUME NEW c \in Callers, NewCall(c) \/ CallStep(c)
      PROVE  Copies' \subseteq Copies \/ Copies \subseteq Copies'
  <2>1. CASE NewCall(c)
    BY <2>1, <1>a DEF NewCall, Call, UpdateRead, Remove
  <2>2. CASE \/ StartEnter(c) \/ DepWaitFails(c) \/ DepsMet(c) \/ LaunchFails(c)
    BY <2>2, <1>a DEF StartEnter, DepWaitFails, DepsMet, LaunchFails
  <2>3. CASE Launch(c)
    BY <2>3, <1>l DEF Launch
  <2>4. CASE StopEnter(c) \/ StartAgain(c) \/ StopAllCheck(c) \/ DetachCheck(c)
    BY <2>4, <1>a DEF StopEnter, StartAgain, StopAllCheck, DetachCheck
  <2>5. CASE StopSignal(c) \/ StopFinish(c)
    BY <2>5, <1>g, <1>s DEF StopSignal, StopFinish
  <2>6. CASE Detach(c) \/ Shutdown(c) \/ UpdateSwap(c)
    BY <2>6, <1>a, <1>k DEF Detach, Shutdown, UpdateSwap
  <2> QED BY <1>2, <2>1, <2>2, <2>3, <2>4, <2>5, <2>6 DEF CallStep
<1>3. ASSUME NEW p \in Procs, ProcStep(p)
      PROVE  Copies' \subseteq Copies
  BY <1>3 DEF ProcStep, ProcExit
<1>4. ASSUME NEW m \in Procs, MonStep(m) \/ MonSelect(m)
      PROVE  Copies' \subseteq Copies \/ Copies \subseteq Copies'
  <2>1. CASE \/ MonTakeStopChannel(m) \/ MonTakeChannels(m) \/ MonRound(m)
             \/ MonPolicy(m) \/ MonSleepOrStop(m) \/ MonReChannels(m)
             \/ MonExit(m) \/ MonBreach(m) \/ MonHealthFail(m) \/ MonTick(m)
             \/ MonStop(m)
    BY <2>1, <1>a
    DEF MonTakeStopChannel, MonTakeChannels, MonRound, MonPolicy, MonExit,
        MonSleepOrStop, MonReChannels, MonBreach, MonHealthFail, MonTick,
        MonStop, MonUnchanged
  <2>2. CASE \/ MonGiveUp(m) \/ MonCleanStop(m) \/ MonSave(m) \/ MonCount(m)
             \/ MonRestartFails(m)
    BY <2>2, <1>a
    DEF MonGiveUp, MonCleanStop, MonSave, MonCount, MonRestartFails
  <2>3. CASE MonBreachWrapper(m) \/ MonBreachStop(m)
    BY <2>3, <1>g, <1>s DEF MonBreachWrapper, MonBreachStop
  <2>4. CASE MonRestart(m)
    BY <2>4, <1>l DEF MonRestart
  <2> QED
    BY <1>4, <2>1, <2>2, <2>3, <2>4 DEF MonStep, MonSelect
<1> QED BY <1>1, <1>2, <1>3, <1>4 DEF Next

\* The processes of the one service, and whether the record is attached to one.
Held == IF svc.wrapper \in Copies THEN {"service"} ELSE {}
Promise == INSTANCE Supervision
             WITH Services <- {"service"},
                  copies   <- [s \in {"service"} |-> Copies],
                  held     <- Held

\* While the service is undisturbed every call, monitor and process keeps the promise that
\* the Guardian makes its services (Supervision): a new process only when there is
\* none, and none that is running is let go of.
THEOREM LifecyclePromised == Spec /\ []Undisturbed => Promise!Spec
<1>1. Init => Promise!Init
  <2> SUFFICES ASSUME Init PROVE Promise!Init OBVIOUS
  <2>1. Copies = {}
    BY DEF Init, Copies, Live
  <2> QED BY <2>1 DEF Promise!Init, Held
<1>2. /\ TypeOK /\ Undisturbed /\ Undisturbed' /\ CopiesShown /\ CopiesShown' /\ [Next]_vars
      => [Promise!Next]_<<[s \in {"service"} |-> Copies], Held>>
  <2> SUFFICES ASSUME TypeOK, Undisturbed, Undisturbed', CopiesShown, CopiesShown', [Next]_vars
               PROVE  \/ Promise!Next
                      \/ UNCHANGED <<[s \in {"service"} |-> Copies], Held>>
    OBVIOUS
  <2>0. /\ Copies \subseteq {svc.wrapper} /\ Copies' \subseteq {svc'.wrapper}
        /\ Copies' \subseteq Procs
    BY DEF CopiesShown, Copies
  <2>1. CASE Copies' = Copies
    <3>1. Held' = Held
      BY <2>0, <2>1 DEF Held
    <3> QED BY <2>1, <3>1
  <2>2. CASE Copies' # Copies /\ Copies' \subseteq Copies
    <3>1. Copies' = {} /\ Held' = {} /\ Held \in SUBSET {"service"}
      BY <2>0, <2>2 DEF Held
    <3>2. Promise!End("service")
      BY <3>1 DEF Promise!End
    <3> QED BY <3>2 DEF Promise!Next
  <2>3. CASE Copies' # Copies /\ Copies \subseteq Copies'
    <3>1. PICK p \in Procs : Copies = {} /\ Copies' = {p}
      BY <2>0, <2>3
    <3>2. Held = {} /\ Held' = {"service"}
      BY <2>0, <3>1 DEF Held
    <3>3. Promise!Launch("service", p)
      BY <3>1, <3>2 DEF Promise!Launch
    <3> QED BY <3>3 DEF Promise!Next
  <2> QED BY <2>1, <2>2, <2>3, OneWay
<1> QED
  BY CopiesAttached, <1>1, <1>2, TypeCorrect, RecordAlways, ShutdownCorrect, CopyAlways,
     SoleAlways, PTL
  DEF Spec, Promise!Spec

-----------------------------------------------------------------------------
(* Calls: the states they show, and their way to the end.                  *)

\* Only the calls show such a state, and each only for itself.
LEMMA TransientNext ==
    ASSUME RecordInv, TransientShown, [Next]_vars
    PROVE  TransientShown'
<1>0. /\ svc \in Service /\ api \in [Callers -> CallerState] /\ LockHeldByHolder
      /\ NoCaller \notin Callers /\ env' = env
  BY EnvironmentAssumption
  DEF RecordInv, TypeOK, Next, vars, NewCall, CallStep, ProcStep, MonStep,
      MonSelect
<1> USE <1>0 DEF TransientShown
<1>a. svc'.state = svc.state /\ api' = api => TransientShown'
  OBVIOUS
<1>b. ASSUME api' = api, Free,
             svc'.state \in {svc.state, "running", "stopped", "failed"}
      PROVE  TransientShown'
  BY <1>b
<1>1. CASE UNCHANGED vars
  BY <1>1, <1>a DEF vars
<1>2. ASSUME NEW c \in Callers, NewCall(c)
      PROVE  TransientShown'
  <2>1. svc' = svc
    BY <1>2 DEF NewCall, Call, UpdateRead, Remove
  <2>2. \/ api' = api
        \/ api[c].pc = "idle" /\ \A d \in Callers \ {c} : api'[d] = api[d]
    BY <1>2 DEF NewCall, Call, UpdateRead, Remove
  <2> QED BY <2>1, <2>2
<1>3. ASSUME NEW c \in Callers, CallStep(c)
      PROVE  TransientShown'
  <2>1. ASSUME \A d \in Callers \ {c} : api'[d] = api[d],
               \/ svc'.state \in {"running", "stopped", "failed"}
               \/ svc'.state = "starting" /\ api'[c].pc \in {"depWait", "launch"}
               \/ svc'.state = "stopping" /\ api'[c].pc \in {"stopSignal", "stopFinish"}
               \/ /\ svc'.state = svc.state
                  /\ api[c].pc \notin {"depWait", "launch", "stopSignal", "stopFinish"}
        PROVE  TransientShown'
    BY <2>1
  <2> USE GotoFacts, ReplyFacts DEF Service
  <2>2. CASE StartEnter(c)
    BY <2>1, <2>2 DEF StartEnter
  <2>3. CASE DepWaitFails(c) \/ LaunchFails(c)
    BY <2>1, <2>3 DEF DepWaitFails, LaunchFails
  <2>4. CASE DepsMet(c)
    <3>1. CASE svc.state = "running"
      BY <2>1, <2>4, <3>1 DEF DepsMet
    <3>2. CASE svc.state # "running"
      <4>1. svc' = svc /\ Free /\ api'[c].pc = "launch" /\ api[c].pc = "depWait"
        BY <2>4, <3>2 DEF DepsMet
      <4>2. \A d \in Callers : api[d].pc \notin {"stopSignal", "stopFinish"}
        BY <4>1 DEF Free, LockHeldByHolder, Holding
      <4> QED BY <2>4, <3>2, <4>1, <4>2 DEF DepsMet
    <3> QED BY <3>1, <3>2
  <2>5. CASE Launch(c)
    BY <2>1, <2>5 DEF Launch, Attached
  <2>6. CASE StopEnter(c)
    BY <2>1, <2>6 DEF StopEnter, AfterStop
  <2>7. CASE StopSignal(c)
    <3>1. svc'.state = svc.state /\ api'[c].pc = "stopFinish"
      BY <2>7 DEF StopSignal, StopWatchers
    <3>2. \A d \in Callers \ {c} : api'[d] = api[d]
      BY <2>7 DEF StopSignal
    <3> QED BY <2>7, <3>1, <3>2 DEF StopSignal
  <2>8. CASE StopFinish(c)
    BY <2>1, <2>8 DEF StopFinish, AfterStop
  <2>9. CASE \/ StartAgain(c) \/ StopAllCheck(c) \/ DetachCheck(c) \/ Shutdown(c)
    BY <2>1, <2>9 DEF StartAgain, StopAllCheck, DetachCheck, Shutdown
  <2>10. CASE Detach(c)
    <3>1. svc'.state = svc.state
      BY <2>10 DEF Detach, StopWatchers
    <3> QED BY <2>1, <2>10, <3>1 DEF Detach
  <2>11. CASE UpdateSwap(c)
    BY <2>11 DEF UpdateSwap, RecordInv, CallsNamed
  <2> QED
    BY <1>3, <2>2, <2>3, <2>4, <2>5, <2>6, <2>7, <2>8, <2>9, <2>10, <2>11
    DEF CallStep
<1>4. ASSUME NEW p \in Procs, ProcStep(p)
      PROVE  TransientShown'
  BY <1>4, <1>a DEF ProcStep, ProcExit
<1>5. ASSUME NEW m \in Procs, MonSelect(m)
      PROVE  TransientShown'
  BY <1>5, <1>a
  DEF MonSelect, MonExit, MonBreach, MonHealthFail, MonTick, MonStop,
      MonUnchanged
<1>6. ASSUME NEW m \in Procs, MonStep(m)
      PROVE  TransientShown'
  <2>1. CASE \/ MonTakeStopChannel(m) \/ MonTakeChannels(m) \/ MonRound(m)
             \/ MonPolicy(m) \/ MonSleepOrStop(m) \/ MonReChannels(m)
             \/ MonSave(m) \/ MonBreachWrapper(m) \/ MonBreachStop(m)
    BY <2>1, <1>a
    DEF MonTakeStopChannel, MonTakeChannels, MonRound, MonPolicy, MonSleepOrStop,
        MonReChannels, MonSave, MonBreachWrapper, MonBreachStop, MonUnchanged
  <2>2. CASE \/ MonGiveUp(m) \/ MonCleanStop(m) \/ MonCount(m)
             \/ MonRestart(m) \/ MonRestartFails(m)
    BY <2>2, <1>b
    DEF MonGiveUp, MonCleanStop, MonCount, CountAttempt, MonRestart, Attached,
        MonRestartFails, Service
  <2> QED BY <1>6, <2>1, <2>2 DEF MonStep
<1> QED BY <1>1, <1>2, <1>3, <1>4, <1>5, <1>6 DEF Next

\* No service is left starting or stopping for good by an interleaving: whoever the
\* other callers and monitors are, the call that set the state is still at work, or
\* another one that starts or stops the service is.
THEOREM TransientCorrect == Spec => []TransientShown
<1>1. Init => TransientShown
  BY DEF Init, TransientShown
<1>2. RecordInv /\ TransientShown /\ [Next]_vars => TransientShown'
  BY TransientNext
<1> QED BY <1>1, <1>2, RecordAlways, PTL DEF Spec

\* A service that waits for no dependencies, and that no update puts an old copy of in
\* its place.
Undelayed == ~env.deps /\ "update" \notin env.ops

\* Its starts go from their look at the state to the launch without giving ms.mu away.
StartingHeld ==
    Undelayed => \A c \in Callers :
                   /\ api[c].pc # "depWait"
                   /\ api[c].pc = "launch" => svc.state = "starting"

\* What a start launches is what it announced: nobody stopped the service after the
\* start had looked at it.
StopsAreHonoured ==
    [][Undelayed => \A c \in Callers : Launch(c) => svc.state = "starting"]_vars

\* While a start holds ms.mu, neither another call nor a monitor changes the state.
LEMMA StartingNext ==
    ASSUME RecordInv, StartingHeld, [Next]_vars
    PROVE  StartingHeld'
<1>0. /\ svc \in Service /\ api \in [Callers -> CallerState] /\ LockHeldByHolder
      /\ CallsNamed /\ NoCaller \notin Callers /\ env' = env
  BY EnvironmentAssumption
  DEF RecordInv, TypeOK, Next, vars, NewCall, CallStep, ProcStep, MonStep,
      MonSelect
<1> SUFFICES ASSUME Undelayed
             PROVE  \A c \in Callers :
                      /\ api'[c].pc # "depWait"
                      /\ api'[c].pc = "launch" => svc'.state = "starting"
  BY <1>0 DEF StartingHeld, Undelayed
<1> DEFINE Kept == \A c \in Callers :
                     /\ api'[c].pc # "depWait"
                     /\ api'[c].pc = "launch" => svc'.state = "starting"
<1>p. /\ ~env.deps /\ "update" \notin env.ops
      /\ \A c \in Callers : /\ api[c].pc # "depWait"
                            /\ api[c].pc = "launch" => svc.state = "starting"
  BY DEF StartingHeld, Undelayed
<1>f. Free => \A c \in Callers : api[c].pc # "launch"
  BY <1>0 DEF Free, LockHeldByHolder, Holding
<1>a. svc'.state = svc.state /\ api' = api => Kept
  BY <1>p
<1>b. api' = api /\ Free => Kept
  BY <1>p, <1>f
<1>1. CASE UNCHANGED vars
  BY <1>1, <1>a DEF vars
<1>2. ASSUME NEW c \in Callers, NewCall(c)
      PROVE  Kept
  <2>1. svc' = svc /\ \A d \in Callers \ {c} : api'[d] = api[d]
    BY <1>2, <1>0 DEF NewCall, Call, UpdateRead, Remove
  <2>2. api'[c] = api[c] \/ api'[c].pc \notin {"depWait", "launch"}
    <3>1. ASSUME NEW op \in AllOps, Call(c, op)
          PROVE  api'[c].pc \notin {"depWait", "launch"}
      <4>1. api'[c].pc = FirstStep(op) /\ op \notin {"update", "remove"}
        BY <3>1, <1>0 DEF Call, CallerState
      <4> QED BY <3>1, <4>1 DEF FirstStep, AllOps
    <3>2. CASE UpdateRead(c) \/ Remove(c)
      BY <3>2, <1>0 DEF UpdateRead, Remove
    <3> QED BY <1>2, <3>1, <3>2 DEF NewCall
  <2> QED BY <1>p, <2>1, <2>2
<1>3. ASSUME NEW c \in Callers, CallStep(c)
      PROVE  Kept
  <2>1. \A d \in Callers \ {c} : api'[d] = api[d]
    BY <1>3, <1>0, GotoFacts, ReplyFacts
    DEF CallStep, StartEnter, DepWaitFails, DepsMet, LaunchFails, Launch, StopEnter,
        StopSignal, StopFinish, AfterStop, StartAgain, StopAllCheck, DetachCheck,
        Detach, Shutdown, UpdateSwap
  <2>2. Free \/ api[c].pc \in Holding \/ svc' = svc
    <3>1. ~UpdateSwap(c)
      BY <1>0, <1>p DEF UpdateSwap, CallsNamed
    <3> QED
      BY <1>3, <3>1
      DEF CallStep, StartEnter, DepWaitFails, DepsMet, LaunchFails, Launch, StopEnter,
          StopSignal, StopFinish, StartAgain, StopAllCheck, DetachCheck, Detach,
          Shutdown, Holding
  <2>3. \A d \in Callers \ {c} : api[d].pc = "launch" => svc'.state = "starting"
    BY <1>0, <1>p, <1>f, <2>2 DEF LockHeldByHolder, Holding
  <2>4. /\ api'[c].pc # "depWait"
        /\ api'[c].pc = "launch" => svc'.state = "starting"
    <3>1. CASE StartEnter(c)
      BY <1>0, <1>p, <3>1, GotoFacts, ReplyFacts DEF StartEnter, Service
    <3>2. CASE \/ DepWaitFails(c) \/ DepsMet(c) \/ LaunchFails(c) \/ Launch(c)
      BY <1>0, <1>p, <3>2, ReplyFacts DEF DepWaitFails, DepsMet, LaunchFails, Launch
    <3>3. CASE \/ StopEnter(c) \/ StopSignal(c) \/ StopFinish(c)
      BY <1>0, <3>3, GotoFacts, ReplyFacts DEF StopEnter, StopSignal, StopFinish, AfterStop
    <3>4. CASE \/ StartAgain(c) \/ StopAllCheck(c) \/ DetachCheck(c) \/ Detach(c)
               \/ Shutdown(c)
      BY <1>0, <3>4, GotoFacts, ReplyFacts
      DEF StartAgain, StopAllCheck, DetachCheck, Detach, Shutdown
    <3>5. CASE UpdateSwap(c)
      BY <1>0, <1>p, <3>5 DEF UpdateSwap, CallsNamed
    <3> QED BY <1>3, <3>1, <3>2, <3>3, <3>4, <3>5 DEF CallStep
  <2> QED BY <1>p, <2>1, <2>3, <2>4
<1>4. ASSUME NEW p \in Procs, ProcStep(p)
      PROVE  Kept
  BY <1>4, <1>a DEF ProcStep, ProcExit
<1>5. ASSUME NEW m \in Procs, MonSelect(m)
      PROVE  Kept
  BY <1>5, <1>a
  DEF MonSelect, MonExit, MonBreach, MonHealthFail, MonTick, MonStop, MonUnchanged
<1>6. ASSUME NEW m \in Procs, MonStep(m)
      PROVE  Kept
  <2>1. CASE \/ MonTakeStopChannel(m) \/ MonTakeChannels(m) \/ MonRound(m)
             \/ MonPolicy(m) \/ MonSleepOrStop(m) \/ MonReChannels(m)
             \/ MonSave(m) \/ MonBreachWrapper(m) \/ MonBreachStop(m)
    BY <2>1, <1>a
    DEF MonTakeStopChannel, MonTakeChannels, MonRound, MonPolicy, MonSleepOrStop,
        MonReChannels, MonSave, MonBreachWrapper, MonBreachStop, MonUnchanged
  <2>2. CASE \/ MonGiveUp(m) \/ MonCleanStop(m) \/ MonCount(m)
             \/ MonRestart(m) \/ MonRestartFails(m)
    BY <2>2, <1>b DEF MonGiveUp, MonCleanStop, MonCount, MonRestart, MonRestartFails
  <2> QED BY <1>6, <2>1, <2>2 DEF MonStep
<1> QED BY <1>1, <1>2, <1>3, <1>4, <1>5, <1>6 DEF Next

\* Where a start does not wait for dependencies, it never launches a service that was
\* stopped since it looked: startService keeps ms.mu from its look to the launch, for
\* any callers, monitors and shutdowns.  What a start with dependencies does instead is
\* what StartHonoursStop is refuted by.
THEOREM StopsHonouredCorrect == Spec => StopsAreHonoured
<1>1. Init => StartingHeld
  BY DEF Init, StartingHeld, Idle
<1>2. RecordInv /\ StartingHeld /\ [Next]_vars => StartingHeld'
  BY StartingNext
<1>3. StartingHeld => (Undelayed => \A c \in Callers : Launch(c) => svc.state = "starting")
  BY DEF StartingHeld, Launch
<1>4. StartingHeld /\ [Next]_vars
        => [Undelayed => \A c \in Callers : Launch(c) => svc.state = "starting"]_vars
  BY <1>3
<1> QED BY <1>1, <1>2, <1>4, RecordAlways, PTL DEF Spec, StopsAreHonoured

\* Steps left of a call at pc, at most.
Rank(pc) == CASE pc = "stopAllCheck"               -> 8
              [] pc = "stop"                       -> 7
              [] pc = "stopSignal"                 -> 6
              [] pc = "stopFinish"                 -> 5
              [] pc = "again"                      -> 4
              [] pc \in {"start", "detachCheck"}   -> 3
              [] pc \in {"depWait", "detach"}      -> 2
              [] pc \in {"launch", "cancel", "update"} -> 1
              [] OTHER                             -> 0

\* A call that is under way only comes closer to its end: nobody sets it back, and it
\* never goes round in circles.
CallsAdvance ==
    [][\A c \in Callers :
         api[c].pc # "idle" => \/ api'[c] = api[c]
                               \/ Rank(api'[c].pc) < Rank(api[c].pc)]_vars

\* Each call takes at most eight steps under ms.mu and the map lock, whatever the
\* other callers and the monitors do (startService, stopService, Restart, StopAll,
\* DetachAll, Update): a call can only fail to return by waiting.
THEOREM CallsAdvanceCorrect == Spec => CallsAdvance
<1> DEFINE Step == \A c \in Callers :
                     api[c].pc # "idle" => \/ api'[c] = api[c]
                                           \/ Rank(api'[c].pc) < Rank(api[c].pc)
<1>1. TypeOK /\ [Next]_vars => [Step]_vars
  <2> SUFFICES ASSUME TypeOK, Next PROVE Step
    BY DEF vars
  <2>0. api \in [Callers -> CallerState]
    BY DEF TypeOK
  <2>1. ASSUME NEW c \in Callers, NewCall(c)
        PROVE  Step
    BY <2>0, <2>1 DEF NewCall, Call, UpdateRead, Remove
  <2>2. ASSUME NEW c \in Callers, CallStep(c)
        PROVE  Step
    <3>1. \A d \in Callers \ {c} : api'[d] = api[d]
      BY <2>0, <2>2, GotoFacts, ReplyFacts
      DEF CallStep, StartEnter, DepWaitFails, DepsMet, LaunchFails, Launch,
          StopEnter, StopSignal, StopFinish, AfterStop, StartAgain, StopAllCheck,
          DetachCheck, Detach, Shutdown, UpdateSwap
    <3>2. Rank(api'[c].pc) < Rank(api[c].pc)
      <4> USE <2>0, GotoFacts, ReplyFacts DEF Rank
      <4>1. CASE \/ StartEnter(c) \/ DepWaitFails(c) \/ DepsMet(c)
                 \/ LaunchFails(c) \/ Launch(c)
        BY <4>1 DEF StartEnter, DepWaitFails, DepsMet, LaunchFails, Launch
      <4>2. CASE StopEnter(c)
        BY <4>2 DEF StopEnter, AfterStop
      <4>3. CASE StopSignal(c) \/ StopFinish(c)
        BY <4>3 DEF StopSignal, StopFinish, AfterStop
      <4>4. CASE \/ StartAgain(c) \/ StopAllCheck(c) \/ DetachCheck(c)
                 \/ Detach(c) \/ Shutdown(c) \/ UpdateSwap(c)
        BY <4>4 DEF StartAgain, StopAllCheck, DetachCheck, Detach, Shutdown,
                    UpdateSwap
      <4> QED BY <2>2, <4>1, <4>2, <4>3, <4>4 DEF CallStep
    <3> QED BY <3>1, <3>2
  <2>3. ASSUME NEW p \in Procs, ProcStep(p) \/ MonStep(p) \/ MonSelect(p)
        PROVE  api' = api
    BY <2>3
    DEF ProcStep, MonStep, MonSelect, ProcExit, MonTakeStopChannel,
        MonTakeChannels, MonRound, MonPolicy, MonGiveUp, MonCleanStop, MonSave,
        MonCount, MonBreachWrapper, MonBreachStop, MonSleepOrStop, MonRestart,
        MonRestartFails, MonReChannels, MonExit, MonBreach, MonHealthFail,
        MonTick, MonStop, MonUnchanged
  <2> QED BY <2>1, <2>2, <2>3 DEF Next
<1> QED BY <1>1, TypeCorrect, PTL DEF Spec, CallsAdvance

-----------------------------------------------------------------------------
(* Monitors: their way to the end, and what they answer.                   *)

\* How far a monitor that was told to stop is from its end: from a restart it had
\* already decided on, it comes back to its select, and from there to a sleep that it
\* does not outlast.
Left(pc) == CASE pc = "restart"                    -> 9
              [] pc \in {"channels", "reChannels"} -> 8
              [] pc = "round"                      -> 7
              [] pc = "select"                     -> 6
              [] pc \in {"policy", "breachCount"}  -> 5
              [] pc \in {"count", "giveUp", "cleanStop", "breachWrapper"} -> 4
              [] pc = "breachStop"                 -> 3
              [] pc = "backoff"                    -> 2
              [] pc = "save"                       -> 1
              [] OTHER                             -> 0

\* A monitor that was told to stop stays so, and each of its steps brings it nearer to
\* its end, except that it may go round for a sample while its select does not
\* take the closed channel.
StoppedGoesOn ==
    [][\A m \in Procs :
         (mon[m].pc \notin {"none", "born", "done"} /\ Stopped(m)) =>
           \/ mon'[m].pc = "done"
           \/ /\ mon'[m].ch = mon[m].ch /\ Stopped(m)'
              /\ \/ mon'[m] = mon[m]
                 \/ Left(mon'[m].pc) < Left(mon[m].pc)
                 \/ mon[m].pc = "select" /\ mon'[m].pc = "round"]_vars

\* A stopped monitor restarts the service at most once more, and only where it had
\* come through its sleep before; whatever else it does leads to its end, but for the
\* samples it takes on the way (monitorService, restartAfterBreach, sleepOrStop).
\* StoppedMonitorEnds adds that it does not go on taking samples for ever.
THEOREM StoppedGoesOnCorrect == Spec => StoppedGoesOn
<1> DEFINE Told(m) == mon[m].pc \notin {"none", "born", "done"} /\ Stopped(m)
           Nearer(m) == \/ mon'[m].pc = "done"
                        \/ /\ mon'[m].ch = mon[m].ch /\ Stopped(m)'
                           /\ \/ mon'[m] = mon[m]
                              \/ Left(mon'[m].pc) < Left(mon[m].pc)
                              \/ mon[m].pc = "select" /\ mon'[m].pc = "round"
           Step == \A m \in Procs : Told(m) => Nearer(m)
<1>1. TypeOK /\ NoneAhead /\ [Next]_vars => [Step]_vars
  <2> SUFFICES ASSUME TypeOK, NoneAhead, Next, NEW m \in Procs, Told(m)
               PROVE  Nearer(m)
    BY DEF vars, Stopped
  <2>0. mon \in [Procs -> Monitor]
    BY DEF TypeOK
  <2>1. closed \subseteq closed'
    BY NothingUndone
  <2>2. mon'[m] = mon[m] => Nearer(m)
    BY <2>1 DEF Stopped
  <2>3. ASSUME NEW c \in Callers, NewCall(c) \/ CallStep(c)
        PROVE  mon'[m] = mon[m]
    <3>1. CASE Launch(c)
      <4>1. launched \in Nat /\ launched + 1 > launched
        BY ProcInRange, EnvironmentAssumption DEF TypeOK, ProcOrNil
      <4>2. m # launched + 1
        BY <4>1 DEF NoneAhead
      <4> QED BY <2>0, <3>1, <4>2 DEF Launch
    <3>2. CASE UpdateSwap(c)
      BY <3>2 DEF UpdateSwap
    <3> QED BY <2>3, <3>1, <3>2, CallMoves
  <2>4. ASSUME NEW p \in Procs, ProcStep(p)
        PROVE  mon'[m] = mon[m]
    BY <2>4 DEF ProcStep, ProcExit
  <2>5. ASSUME NEW n \in Procs, MonStep(n) \/ MonSelect(n), n # m
        PROVE  mon'[m] = mon[m]
    BY <2>0, <2>5
    DEF MonStep, MonSelect, MonGoto, MonTakeStopChannel, MonTakeChannels, MonRound,
        MonPolicy, MonGiveUp, MonCleanStop, MonSave, MonCount, MonBreachWrapper,
        MonBreachStop, MonSleepOrStop, MonRestart, MonRestartFails, MonReChannels, MonExit,
        MonBreach, MonHealthFail, MonTick, MonStop
  <2>6. ASSUME MonStep(m) \/ MonSelect(m)
        PROVE  Nearer(m)
    <3>g. \A pc : MonGoto(m, pc) =>
            mon'[m].pc = pc /\ (pc # "done" => mon'[m].ch = mon[m].ch)
      BY <2>0 DEF MonGoto, Monitor, Unborn
    <3>s. mon'[m].ch = mon[m].ch => Stopped(m)'
      BY <2>1 DEF Stopped
    <3> USE <2>0, <3>g, <3>s DEF Left, Monitor
    <3>1. CASE \/ MonTakeStopChannel(m) \/ MonTakeChannels(m) \/ MonRound(m)
               \/ MonBreachWrapper(m) \/ MonReChannels(m) \/ MonHealthFail(m)
      <4>1. CASE MonTakeStopChannel(m)
        BY <4>1 DEF MonTakeStopChannel
      <4>2. CASE MonTakeChannels(m)
        BY <4>2 DEF MonTakeChannels
      <4>3. CASE MonRound(m)
        BY <4>3 DEF MonRound
      <4>4. CASE MonBreachWrapper(m)
        BY <4>4 DEF MonBreachWrapper
      <4>5. CASE MonReChannels(m)
        <5>1. /\ mon[m].pc = "reChannels" /\ mon'[m].pc = "round"
              /\ mon'[m].ch = mon[m].ch
          BY <4>5 DEF MonReChannels
        <5> QED BY <5>1
      <4>6. CASE MonHealthFail(m)
        BY <4>6 DEF MonHealthFail
      <4> QED BY <3>1, <4>1, <4>2, <4>3, <4>4, <4>5, <4>6
    <3>2. CASE \/ MonPolicy(m) \/ MonGiveUp(m) \/ MonCleanStop(m) \/ MonSave(m)
               \/ MonCount(m) \/ MonBreachStop(m) \/ MonSleepOrStop(m)
      BY <3>2
      DEF MonPolicy, MonGiveUp, MonCleanStop, MonSave, MonCount, MonBreachStop,
          MonSleepOrStop, AfterSleep
    <3>3. CASE \/ MonRestart(m) \/ MonRestartFails(m) \/ MonBreach(m) \/ MonTick(m)
               \/ MonStop(m) \/ MonExit(m)
      BY <3>3
      DEF MonRestart, MonRestartFails, MonBreach, MonTick, MonStop, MonExit
    <3> QED BY <2>6, <3>1, <3>2, <3>3 DEF MonStep, MonSelect
  <2> QED BY <2>2, <2>3, <2>4, <2>5, <2>6 DEF Next
<1> QED BY <1>1, TypeCorrect, SoleAlways, PTL DEF Spec, StoppedGoesOn

\* While nobody stops the service and it is shown as running, one monitor is at work,
\* and as long as it watches, the process is alive or its result is still there.
AnswerInv ==
    StartOnly =>
      /\ svc.state = "running" => svc.wrapper \in Procs /\ \E m \in Procs : Active(m)
      /\ \A m \in Procs :
           (Active(m) /\ mon[m].pc \notin Answering) =>
              proc[svc.wrapper] \in Live \/ exitCh[svc.wrapper] # "empty"

\* ... so that no end of a process is overlooked.
EndIsAnswered ==
    (StartOnly /\ svc.state = "running" /\ NoCopy) =>
      \E m \in Procs :
        /\ Active(m)
        /\ \/ mon[m].pc \in Answering
           \/ /\ exitCh[svc.wrapper] # "empty"
              /\ mon[m].pc = "select" => mon[m].w = svc.wrapper

\* What the calls do: a launch brings a monitor with its process.
LEMMA AnswerCallsKept ==
    ASSUME RecordInv, NEW c \in Callers, NewCall(c) \/ CallStep(c), env' = env,
           StartOnly, AloneInv, AnswerInv
    PROVE  AnswerInv'
<1>0. /\ AloneCalls /\ AloneMonitors /\ StartOnly'
      /\ api \in [Callers -> CallerState] /\ svc \in Service
      /\ mon \in [Procs -> Monitor] /\ proc \in [Procs -> ProcState]
      /\ env.ops = {"start"} /\ ~env.deps
  BY DEF AloneInv, RecordInv, TypeOK, StartOnly
<1> USE <1>0 DEF Active, Answering
<1>1. CASE Launch(c)
  <2>1. /\ launched + 1 \in Procs
        /\ svc'.state = "running" /\ svc'.wrapper = launched + 1
        /\ proc' = [proc EXCEPT ![launched + 1] = "alive"]
        /\ Moves(launched + 1, "born")
    BY <1>1, LaunchInRange, LaunchMoves
    DEF Launch, Spawn, Attached, Service, RecordInv, TypeOK
  <2> QED BY <2>1 DEF AnswerInv, Moves, Live
<1>2. ASSUME ~Launch(c)
      PROVE  /\ mon' = mon /\ proc' = proc /\ exitCh' = exitCh
             /\ svc'.state = "running" => svc' = svc
             /\ svc'.wrapper = svc.wrapper
  <2>1. CASE \E op \in AllOps : Call(c, op)
    BY <2>1 DEF Call
  <2>2. CASE StartEnter(c)
    BY <2>2 DEF StartEnter, Service
  <2>3. CASE LaunchFails(c)
    BY <2>3 DEF LaunchFails, Service
  <2>4. CASE \/ UpdateRead(c) \/ Remove(c) \/ DepWaitFails(c) \/ DepsMet(c)
             \/ StopEnter(c) \/ StopSignal(c) \/ StopFinish(c) \/ StartAgain(c)
             \/ StopAllCheck(c) \/ DetachCheck(c) \/ Detach(c) \/ Shutdown(c)
             \/ UpdateSwap(c)
    BY <2>4
    DEF AloneCalls, UpdateRead, Remove, DepWaitFails, DepsMet, StopEnter, StopSignal,
        StopFinish, StartAgain, StopAllCheck, DetachCheck, Detach, Shutdown,
        UpdateSwap
  <2> QED BY <1>2, <2>1, <2>2, <2>3, <2>4 DEF NewCall, CallStep
<1> QED BY <1>1, <1>2 DEF AnswerInv, AloneMonitors

\* What the monitors do: the result of the process is taken only to be answered, and
\* the answer is another process or another state.
LEMMA AnswerMonitorKept ==
    ASSUME RecordInv, NEW m \in Procs, MonStep(m) \/ MonSelect(m), env' = env,
           StartOnly, AloneInv, AnswerInv
    PROVE  AnswerInv'
<1>0. /\ AloneMonitors /\ StartOnly' /\ closed = {} /\ ~ctxDone
      /\ svc \in Service /\ mon \in [Procs -> Monitor]
      /\ proc \in [Procs -> ProcState]
  BY DEF AloneInv, AloneCalls, RecordInv, TypeOK, StartOnly
<1> USE <1>0 DEF MonUnchanged, Monitor, Active, Answering
<1>m. Active(m) => svc.state = "running" /\ svc.wrapper \in Procs
  BY DEF AloneMonitors, AnswerInv
<1>g. \A pc : MonGoto(m, pc) => Moves(m, pc)
  BY MonGotoMoves
\* A monitor that goes on, with the record and the processes as they were, ...
<1>a. ASSUME Active(m), NEW pc \in MonPcs \ {"none", "save", "done"}, Moves(m, pc),
             svc'.state = svc.state, svc'.wrapper = svc.wrapper,
             \/ pc \in Answering
             \/ /\ mon[m].pc \notin Answering
                /\ exitCh' = exitCh
                /\ proc[svc.wrapper] \in Live => proc'[svc.wrapper] \in Live
      PROVE  AnswerInv'
  BY <1>a, <1>m DEF AnswerInv, AloneMonitors, Moves
\* ... or goes away, with another state.
<1>b. ASSUME svc'.state # "running", NEW pc \in {"save", "done"}, Moves(m, pc), Active(m)
      PROVE  AnswerInv'
  BY <1>b DEF AnswerInv, AloneMonitors, Moves
<1>1. CASE \/ MonTakeStopChannel(m) \/ MonTakeChannels(m) \/ MonReChannels(m)
  <2>1. \E pc \in {"channels", "round"} : Moves(m, pc)
    BY <1>1 DEF MonTakeStopChannel, MonTakeChannels, MonReChannels, Moves
  <2> QED
    BY <1>1, <2>1, <1>a
    DEF MonTakeStopChannel, MonTakeChannels, MonReChannels, MonPcs
<1>2. CASE MonRound(m)
  <2>1. svc.wrapper # 0
    BY <1>2, <1>m DEF MonRound, Procs
  <2>2. Moves(m, "select")
    BY <1>2, <2>1 DEF MonRound, Moves
  <2> QED BY <1>2, <2>2, <1>a DEF MonRound, MonPcs
<1>3. CASE MonBreach(m) \/ MonHealthFail(m) \/ MonTick(m)
  <2>1. \E pc \in {"breachCount", "round"} : Moves(m, pc)
    BY <1>3, <1>g DEF MonBreach, MonHealthFail, MonTick, Moves
  <2> QED BY <1>3, <2>1, <1>a DEF MonBreach, MonHealthFail, MonTick, MonPcs
<1>4. ~MonStop(m)
  BY DEF MonStop, Stopped
<1>5. CASE MonExit(m)
  <2>1. PICK pc \in {"policy", "count", "cleanStop"} : Moves(m, pc)
    BY <1>5, <1>g DEF MonExit, AfterExit, Stopped
  <2> QED BY <1>5, <2>1, <1>a DEF MonExit, MonPcs
<1>6. CASE MonPolicy(m) \/ MonCount(m)
  <2>1. svc'.state = svc.state /\ svc'.wrapper = svc.wrapper /\ UNCHANGED <<proc, exitCh>>
    BY <1>6 DEF MonPolicy, MonCount, CountAttempt, Service
  <2>2. PICK pc \in {"count", "giveUp", "backoff", "breachWrapper"} :
          Moves(m, pc) /\ (pc = "breachWrapper" => mon[m].pc \notin Answering)
    BY <1>6, <1>g DEF MonPolicy, MonCount
  <2>3. Active(m)
    BY <1>6 DEF MonPolicy, MonCount
  <2> QED BY <2>1, <2>2, <2>3, <1>a DEF MonPcs
<1>7. CASE MonGiveUp(m) \/ MonCleanStop(m)
  <2>1. svc'.state # "running" /\ Moves(m, "save") /\ Active(m)
    BY <1>7, <1>g DEF MonGiveUp, MonCleanStop, Service
  <2> QED BY <2>1, <1>b
<1>8. CASE MonSave(m)
  <2>1. Moves(m, "done") /\ UNCHANGED <<svc, proc, exitCh>>
    BY <1>8, <1>g DEF MonSave
  <2> QED BY <1>8, <2>1 DEF MonSave, AnswerInv, Moves
<1>9. CASE MonBreachWrapper(m)
  <2>1. Moves(m, "breachStop")
    BY <1>9, <1>m DEF MonBreachWrapper, Moves, Procs
  <2>2. proc[svc.wrapper] \in Live => proc'[svc.wrapper] \in Live
    BY <1>9, <1>m DEF MonBreachWrapper, Signal, Live
  <2> QED BY <1>9, <2>1, <2>2, <1>a DEF MonBreachWrapper, MonPcs
<1>10. CASE MonBreachStop(m) \/ MonSleepOrStop(m)
  <2>1. Moves(m, "backoff") \/ Moves(m, "restart")
    BY <1>10, <1>g DEF MonBreachStop, MonSleepOrStop, AfterSleep, Stopped
  <2> QED BY <1>10, <2>1, <1>a DEF MonBreachStop, MonSleepOrStop, MonPcs
<1>11. CASE MonRestart(m)
  <2>1. /\ launched + 1 \in Procs
        /\ svc'.state = "running" /\ svc'.wrapper = launched + 1
        /\ proc' = [proc EXCEPT ![launched + 1] = "alive"]
        /\ Moves(m, "reChannels")
    BY <1>11, LaunchInRange, RestartMoves
    DEF MonRestart, Spawn, Attached, Service, RecordInv, TypeOK
  <2> QED BY <2>1 DEF AnswerInv, Moves, Live
<1>12. CASE MonRestartFails(m)
  <2>1. svc'.state = "failed" /\ Moves(m, "done")
    BY <1>12, <1>g DEF MonRestartFails, Service
  <2> QED BY <1>12, <2>1, <1>b DEF MonRestartFails
<1> QED
  BY <1>1, <1>2, <1>3, <1>4, <1>5, <1>6, <1>7, <1>8, <1>9, <1>10, <1>11, <1>12
  DEF MonStep, MonSelect

\* A process leaves its result when it ends.
LEMMA AnswerNext ==
    ASSUME RecordInv, AloneInv, AnswerInv, [Next]_vars
    PROVE  AnswerInv'
<1>0. env' = env
  BY DEF Next, vars, NewCall, CallStep, ProcStep, MonStep, MonSelect
<1> SUFFICES ASSUME StartOnly PROVE AnswerInv'
  BY <1>0 DEF AnswerInv, StartOnly
<1>1. CASE UNCHANGED vars
  BY <1>1 DEF vars, AnswerInv, Active
<1>2. ASSUME NEW c \in Callers, NewCall(c) \/ CallStep(c)
      PROVE  AnswerInv'
  BY <1>0, <1>2, AnswerCallsKept
<1>3. ASSUME NEW p \in Procs, ProcStep(p)
      PROVE  AnswerInv'
  <2>1. PICK how \in Exited : ProcExit(p, how)
    BY <1>3 DEF ProcStep
  <2>2. /\ proc \in [Procs -> ProcState]
        /\ exitCh \in [Procs -> {"empty"} \cup Exited]
    BY DEF RecordInv, TypeOK
  <2>3. \A q \in Procs : proc[q] \in Live \/ exitCh[q] # "empty"
                           => proc'[q] \in Live \/ exitCh'[q] # "empty"
    BY <2>1, <2>2 DEF ProcExit, Exited
  <2>4. \A q \in Procs : Active(q) => svc.wrapper \in Procs
    BY DEF AloneInv, AloneMonitors, AnswerInv
  <2>5. mon' = mon /\ svc' = svc
    BY <2>1 DEF ProcExit
  <2> QED BY <2>3, <2>4, <2>5 DEF AnswerInv, Active
<1>4. ASSUME NEW m \in Procs, MonStep(m) \/ MonSelect(m)
      PROVE  AnswerInv'
  BY <1>0, <1>4, AnswerMonitorKept
<1> QED BY <1>1, <1>2, <1>3, <1>4 DEF Next

\* The safety half of CrashIsAnswered, for clean exits and breaches too: while a service
\* nobody stops is shown as running without a process, one monitor has the result of the
\* last process, or waits for that process and will find it (monitorService, which reads
\* the wrapper anew in each round; restartAfterBreach).
THEOREM EndIsAnsweredCorrect == Spec => []EndIsAnswered
<1>1. Init => AnswerInv
  BY DEF Init, AnswerInv, Active, Unborn
<1>2. RecordInv /\ CopyInv /\ AnswerInv /\ [Next]_vars => AnswerInv'
  BY AnswerNext DEF CopyInv
<1>3. RecordInv /\ CopyInv /\ AnswerInv => EndIsAnswered
  <2> SUFFICES ASSUME CopyInv, AnswerInv, StartOnly, svc.state = "running", NoCopy
               PROVE  \E m \in Procs :
                        /\ Active(m)
                        /\ \/ mon[m].pc \in Answering
                           \/ /\ exitCh[svc.wrapper] # "empty"
                              /\ mon[m].pc = "select" => mon[m].w = svc.wrapper
    BY DEF EndIsAnswered
  <2>1. svc.wrapper \in Procs /\ proc[svc.wrapper] \notin Live
    BY DEF AnswerInv, NoCopy
  <2>2. PICK m \in Procs : Active(m)
    BY DEF AnswerInv
  <2>3. mon[m].pc = "select" => mon[m].w = svc.wrapper
    BY DEF CopyInv, AloneInv, AloneMonitors
  <2> QED BY <2>1, <2>2, <2>3 DEF AnswerInv
<1> QED BY <1>1, <1>2, <1>3, RecordAlways, CopyAlways, PTL DEF Spec

-----------------------------------------------------------------------------
(* A service that is given up.                                             *)

\* A monitor leaves a service nobody stops failed for good with no copy left, and
\* only with its retries used up, or because the restart it had counted could not
\* be launched (shouldRestart, doRestart and the returns of monitorService).
THEOREM GivesUpCorrect == Spec => GivesUpForCause
<1> DEFINE Ends(m) ==
             (/\ StartOnly /\ env.mode # "never"
              /\ MonStep(m) /\ svc.state # "failed" /\ svc'.state = "failed")
               => /\ Copies' = {}
                  /\ \/ svc.count >= env.retries /\ env.retries > 0
                     \/ mon[m].pc = "restart" /\ Cardinality(Relaunched) < svc.count
<1>1. RecordInv /\ CopyInv /\ AttemptsInv => [\A m \in Procs : Ends(m)]_vars
  <2> SUFFICES ASSUME RecordInv, CopyInv, AttemptsInv, StartOnly, NEW m \in Procs,
                      MonStep(m), svc.state # "failed", svc'.state = "failed",
                      env.mode # "never"
               PROVE  /\ Copies' = {}
                      /\ \/ svc.count >= env.retries /\ env.retries > 0
                         \/ mon[m].pc = "restart" /\ Cardinality(Relaunched) < svc.count
    OBVIOUS
  <2>0. /\ svc \in Service /\ svc.count \in Nat /\ env.retries \in Nat
        /\ "update" \notin env.ops
    BY EnvType DEF RecordInv, TypeOK, Service, Environment, StartOnly
  <2>1. MonGiveUp(m) \/ MonRestartFails(m)
    BY <2>0
    DEF MonStep, MonTakeStopChannel, MonTakeChannels, MonRound, MonPolicy,
        MonCleanStop, MonSave, MonCount, MonBreachWrapper, MonBreachStop,
        MonSleepOrStop, MonRestart, MonReChannels, MonUnchanged, CountAttempt,
        Attached, Service
  <2>2. NoCopy /\ proc' = proc
    BY <2>1 DEF CopyInv, AloneInv, AloneMonitors, MonGiveUp, MonRestartFails,
                Answering
  <2>3. Copies' = {}
    BY <2>2 DEF NoCopy, Copies
  <2>4. CASE MonGiveUp(m)
    <3>1. ~shouldRestart(svc.count)
      BY <2>4 DEF CopyInv, AloneInv, AloneMonitors, MonGiveUp
    <3> QED BY <3>1, <2>0, <2>3 DEF shouldRestart
  <2>5. CASE MonRestartFails(m)
    <3>1. mon[m].pc = "restart"
      BY <2>5 DEF MonRestartFails
    <3>2. /\ Relaunched \cup {m} \subseteq Accounted /\ m \notin Relaunched
          /\ Relaunched \subseteq Procs
      BY <3>1, EnvironmentAssumption
      DEF Accounted, Relaunched, Committed, Procs, RecordInv, TypeOK, ProcOrNil
    <3>3. /\ Cardinality(Relaunched \cup {m}) = Cardinality(Relaunched) + 1
          /\ Cardinality(Relaunched \cup {m}) <= Cardinality(Accounted)
          /\ Cardinality(Relaunched) \in Nat /\ Cardinality(Accounted) \in Nat
      BY <3>2, ProcsFinite, FS_AddElement DEF Accounted
    <3>4. Cardinality(Relaunched) < svc.count
      BY <3>3, <2>0 DEF AttemptsInv, AttemptsCounted
    <3> QED BY <3>1, <3>4, <2>3
  <2> QED BY <2>1, <2>4, <2>5
<1> QED BY <1>1, RecordAlways, CopyAlways, AttemptsAlways, PTL DEF GivesUpForCause
=============================================================================

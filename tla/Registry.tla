------------------------------- MODULE Registry -------------------------------
(***************************************************************************)
(* The services the Guardian has: their definitions in the manager's map,  *)
(* in a YAML file each and in the store; what the conversion to YAML and   *)
(* back keeps of a definition; the jobs of the scheduler; and the boot,    *)
(* which reads the files and sorts the services by their dependencies.     *)
(* The manager's lock is held by one operation at a time, and taken for    *)
(* reading by a call that looks a service up; what the call then does to   *)
(* the service it does under the service's own lock.                       *)
(***************************************************************************)
EXTENDS Integers, Sequences, FiniteSets

CONSTANTS Ids,
          Unknown,       \* a name that is no service's
          Schedules,     \* what clients write for a schedule
          Cron,          \* those that the cron parser accepts
          Kilo,          \* 1024 in the code
          Sent,          \* the definitions that clients send
          Installations, \* sets of files the Guardian may find
          Circumstances  \* what may happen

\* A definition, as far as its fields are treated differently: the interpreter is
\* that of a health check, the directory WorkingDir, if given, that of the
\* executable or another.  A dependency or schedule that is listed twice counts
\* once here; TopologicalSort counts it twice on both sides.
Limits == [threshold : {0, 1}, interval : {0, 1}, memory : Nat]
Hooks  == {"none", "", "continue", "abort"}    \* OnFailure of a hook, if any
Dirs   == {"", "exe", "other"}
Definition ==
    [password : Nat, interpreter : {"", "cmd"}, delay : Int, hook : Hooks,
     limits : Limits, dir : Dirs, schedules : SUBSET Schedules,
     needs : SUBSET (Ids \cup {Unknown}), auto : BOOLEAN]

\* What a file says of one: no interpreter, and sizes as they are written.
Sizes == [tenths : Nat, unit : 0..4]
Yaml  ==
    [password : Nat, delay : Int, hook : Hooks,
     limits : [threshold : {0, 1}, interval : {0, 1}, memory : Sizes],
     dir : Dirs, schedules : SUBSET Schedules,
     needs : SUBSET (Ids \cup {Unknown}), auto : BOOLEAN]

Circumstance ==
    [fails    : BOOLEAN,     \* writes to the disk and the store may fail
     crashes  : BOOLEAN,     \* the Guardian may be killed
     overlaps : BOOLEAN,     \* services are started and end during an operation
     removes  : BOOLEAN,     \* services are removed
     ids      : SUBSET Ids]  \* the services clients use

ASSUME RegistryAssumption ==
    /\ Unknown \notin Ids /\ IsFiniteSet(Ids)
    /\ Kilo \in Nat \ 0..2
    /\ Cron \subseteq Schedules
    /\ Sent \subseteq Definition
    /\ Circumstances \subseteq Circumstance

-----------------------------------------------------------------------------
(* Sizes in YAML: a number of tenths and a unit.                           *)

\* B, KB, MB, GB and TB are 0 to 4.
Unit(u) == LET kb == Kilo
               mb == kb * Kilo
               gb == mb * Kilo
               tb == gb * Kilo
           IN  <<1, kb, mb, gb, tb>>[u + 1]
Rounded(n, d) == LET q == n \div d
                     r == n % d
                 IN  IF 2 * r > d \/ (2 * r = d /\ q % 2 = 1) THEN q + 1 ELSE q

\* formatByteSize: the largest unit that fits, one decimal from GB on.
FormatByteSize(b) ==
    LET u == CHOOSE v \in 0..4 : /\ Unit(v) <= b
                                 /\ v < 4 => b < Unit(v + 1)
    IN  IF b = 0 THEN [tenths |-> 0, unit |-> 0]
        ELSE [tenths |-> IF u >= 3 THEN Rounded(10 * b, Unit(u))
                                   ELSE 10 * Rounded(b, Unit(u)),
              unit |-> u]

\* parseByteSize: the number is cut to whole bytes.
ParseByteSize(t) == (t.tenths * Unit(t.unit)) \div 10

-----------------------------------------------------------------------------
(* Definitions in YAML.                                                    *)

NoLimits == [threshold |-> 0, interval |-> 0, memory |-> [tenths |-> 0, unit |-> 0]]
HasAnyLimit(l) == l.threshold > 0 \/ l.memory > 0

\* ServiceToYAML: an absent field is a zero, the interpreter has no field, and
\* limits are written if one is set.
ServiceToYAML(d) ==
    [password  |-> d.password,
     delay     |-> IF d.delay <= 0 THEN 0 ELSE d.delay,
     hook      |-> d.hook,
     limits    |-> IF HasAnyLimit(d.limits)
                   THEN [d.limits EXCEPT !.memory = FormatByteSize(@)]
                   ELSE NoLimits,
     dir |-> d.dir, schedules |-> d.schedules, needs |-> d.needs, auto |-> d.auto]

\* What a file says of which only the beginning was written.
NoYaml == [password |-> 0, delay |-> 0, hook |-> "none", limits |-> NoLimits,
           dir |-> "", schedules |-> {}, needs |-> {}, auto |-> FALSE]

\* ToService.
ToService(y) ==
    [password    |-> y.password,
     interpreter |-> "",
     delay       |-> y.delay,
     hook        |-> IF y.hook = "" THEN "continue" ELSE y.hook,
     limits      |-> [y.limits EXCEPT !.memory = ParseByteSize(@)],
     dir |-> y.dir, schedules |-> y.schedules, needs |-> y.needs, auto |-> y.auto]

\* What is left of a definition once it was written and read.
Settled(d) == ToService(ServiceToYAML(d))

NoDefinition == ToService(NoYaml)

-----------------------------------------------------------------------------
VARIABLES
    may,        \* the circumstances
    stage,      \* of the Guardian
    files,      \* the services' YAML files
    bucket,     \* services in the store's bucket, which nobody reads
    saved,      \* runtime states in the store
    held,       \* Manager.services: who is in it,
    definition, \* its configuration and
    state,      \* its state
    jobs,       \* how many cron entries each service has for a schedule
    ticking,    \* the scheduler was started
    op,         \* the operation that holds the manager's lock
    found,      \* services looked up by a start that goes on to their lock
    alive,      \* services with a process
    sort,       \* TopologicalSort
    astray      \* services whose file may differ from what the manager has

registryVars == <<may, stage, files, bucket, saved, held, definition, state, jobs,
                  ticking, op, found, alive, sort, astray>>

States == {"none", "stopped", "running"}     \* "none": the empty string

\* A file that is being written is empty, has the name and little more, or is no
\* YAML yet.
Absent == [kind |-> "absent", yaml |-> NoYaml]
Torn   == [kind : {"empty", "part", "broken"}, yaml : {NoYaml}]
File(d) == [kind |-> "whole", yaml |-> ServiceToYAML(d)]
Files   == {Absent} \cup Torn \cup [kind : {"whole"}, yaml : Yaml]

ASSUME InstallationAssumption == Installations \subseteq [Ids -> Files]

NoOp   == [kind |-> "none", id |-> Unknown, at |-> "idle",
           new |-> NoDefinition, state |-> "none"]
NoSort == [degree |-> [i \in Ids |-> 0], queue |-> <<>>, sorted |-> <<>>,
           result |-> "none"]
NoJobs == [k \in Schedules |-> 0]

RegistryTypeOK ==
    /\ may \in Circumstances
    /\ stage \in {"down", "loading", "sorting", "up"}
    /\ files \in [Ids -> Files]
    /\ bucket \in SUBSET Ids
    /\ saved \in [Ids -> States]
    /\ held \in SUBSET Ids
    /\ definition \in [Ids -> Definition]
    /\ state \in [Ids -> States]
    /\ jobs \in [Ids -> [Schedules -> {0, 1}]]
    /\ ticking \in BOOLEAN
    /\ op.kind \in {"none", "add", "update"} /\ op.id \in Ids \cup {Unknown}
    /\ op.at \in {"idle", "truncate", "fill", "store", "install"}
    /\ op.new \in Definition /\ op.state \in States
    /\ found \in SUBSET Ids /\ alive \in SUBSET Ids
    /\ sort.degree \in [Ids -> 0..(Cardinality(Ids) + 1)]
    /\ \A q \in {sort.queue, sort.sorted} : Len(q) <= Cardinality(Ids)
    /\ sort.result \in {"none", "sorted", "cycle"}
    /\ astray \in SUBSET Ids

RegistryInit ==
    /\ may \in Circumstances
    /\ stage = "down"
    /\ files \in Installations
    /\ bucket = {}
    /\ saved = [i \in Ids |-> "none"]
    /\ held = {} /\ definition = [i \in Ids |-> NoDefinition]
    /\ state = [i \in Ids |-> "none"]
    /\ jobs = [i \in Ids |-> NoJobs] /\ ticking = FALSE
    /\ op = NoOp /\ found = {} /\ alive = {}
    /\ sort = NoSort
    /\ astray = {}

runtime == <<may, stage, saved, alive, found, ticking, sort>>

-----------------------------------------------------------------------------
(* The scheduler.                                                          *)

\* updateServiceJobs: a schedule that does not parse is left out.
Added(old, d) == [k \in Schedules |-> old[k] + IF k \in d.schedules \cap Cron THEN 1 ELSE 0]

\* Fault: the old entries stay.
AddJobs(i, d) == jobs' = [jobs EXCEPT ![i] = Added(@, d)]

\* Scheduler.UpdateService.
UpdateService(i, d) == jobs' = [jobs EXCEPT ![i] = Added(NoJobs, d)]

\* Scheduler.RemoveService.
RemoveJobs(i) == jobs' = [jobs EXCEPT ![i] = NoJobs]

-----------------------------------------------------------------------------
(* Operations on the map.                                                  *)

Idle == op.at = "idle"

\* Add takes the lock: the service is new, and its definition the one sent,
\* with the defaults of the handler.  Nothing is left to do on one that was
\* removed before.
Add(i, d) ==
    /\ stage = "up" /\ Idle /\ i \in may.ids \ held
    /\ i \notin found \cup alive
    /\ op' = [kind |-> "add", id |-> i, at |-> "truncate", new |-> d,
              state |-> "stopped"]
    /\ UNCHANGED <<runtime, files, bucket, held, definition, state, jobs, astray>>

\* Fault: the state of the request is kept, which has none.
UpdateForgetful(i, d) ==
    /\ stage = "up" /\ Idle /\ i \in may.ids \cap held
    /\ op' = [kind |-> "update", id |-> i, at |-> "truncate",
              new |-> [d EXCEPT !.password = IF @ = 0 THEN definition[i].password ELSE @],
              state |-> "none"]
    /\ UNCHANGED <<runtime, files, bucket, held, definition, state, jobs, astray>>

\* Update takes the lock, and takes over the state and, if the request brings
\* none, the password.
Update(i, d) ==
    /\ stage = "up" /\ Idle /\ i \in may.ids \cap held
    /\ op' = [kind |-> "update", id |-> i, at |-> "truncate",
              new |-> [d EXCEPT !.password = IF @ = 0 THEN definition[i].password ELSE @],
              state |-> state[i]]
    /\ UNCHANGED <<runtime, files, bucket, held, definition, state, jobs, astray>>

\* SaveServiceConfig empties the file and writes it.
TruncateFile ==
    /\ op.at = "truncate"
    /\ \E torn \in Torn : files' = [files EXCEPT ![op.id] = torn]
    /\ astray' = astray \cup {op.id}
    /\ op' = [op EXCEPT !.at = "fill"]
    /\ UNCHANGED <<runtime, bucket, held, definition, state, jobs>>

FillFile ==
    /\ op.at = "fill"
    /\ files' = [files EXCEPT ![op.id] = File(op.new)]
    /\ op' = [op EXCEPT !.at = "store"]
    /\ UNCHANGED <<runtime, bucket, held, definition, state, jobs, astray>>

SaveService ==
    /\ op.at = "store"
    /\ bucket' = bucket \cup {op.id}
    /\ op' = [op EXCEPT !.at = "install"]
    /\ UNCHANGED <<runtime, files, held, definition, state, jobs, astray>>

\* One of the writes fails, and the request with it; what was written stays.
WriteFails ==
    /\ may.fails /\ op.at \in {"truncate", "fill", "store"}
    /\ op' = NoOp
    /\ UNCHANGED <<runtime, files, bucket, held, definition, state, jobs, astray>>

\* The map and the scheduler get the new definition; the lock is released.
Install ==
    /\ op.at = "install"
    /\ held' = held \cup {op.id}
    /\ definition' = [definition EXCEPT ![op.id] = op.new]
    /\ state' = [state EXCEPT ![op.id] = op.state]
    /\ UpdateService(op.id, op.new)
    /\ astray' = astray \ {op.id}
    /\ op' = NoOp
    /\ UNCHANGED <<runtime, files, bucket>>

\* Remove: the file and the runtime state stay; a store that fails is ignored.
Remove(i) ==
    /\ stage = "up" /\ Idle /\ i \in may.ids \cap held /\ may.removes
    /\ ~may.overlaps => i \notin found
    /\ state[i] # "running"
    /\ bucket' \in {bucket \ {i}} \cup (IF may.fails THEN {bucket} ELSE {})
    /\ held' = held \ {i}
    /\ definition' = [definition EXCEPT ![i] = NoDefinition]
    /\ state' = [state EXCEPT ![i] = "none"]
    /\ RemoveJobs(i)
    /\ astray' = astray \cup {i}
    /\ UNCHANGED <<runtime, files, op>>

-----------------------------------------------------------------------------
(* Services run; Manager.Start, from the API or a job, looks one up.       *)

Lookup(i) ==
    /\ stage = "up" /\ Idle /\ i \in may.ids \cap held
    /\ found' = found \cup {i}
    /\ UNCHANGED <<may, stage, files, bucket, saved, held, definition, state,
                   jobs, ticking, op, alive, sort, astray>>

\* Fault: a directory that was given is replaced.
FilledAlways(d) == [d EXCEPT !.dir = "exe"]

\* Without a directory a service runs in that of its executable.
Filled(d) == [d EXCEPT !.dir = IF @ = "" THEN "exe" ELSE @]

\* A change of a service as it was found: one that was removed meanwhile is no
\* more in the map.
OfHeld(i, f, value) == IF i \in held THEN [f EXCEPT ![i] = value] ELSE f

\* startService, on the service as it was found, refuses a running one; the
\* directory is filled in for good, but not saved.  A dependency, a hook or the
\* launch may fail, which is saved for a dependency only.
StartService(i) ==
    /\ i \in found
    /\ ~may.overlaps => Idle
    /\ found' = found \ {i}
    /\ \/ state[i] = "running" /\ UNCHANGED <<definition, state, saved, alive>>
       \/ /\ state[i] # "running"
          /\ definition' = OfHeld(i, definition, Filled(definition[i]))
          /\ \/ /\ alive' = alive \cup {i}
                /\ state' = OfHeld(i, state, "running")
                /\ saved' = [saved EXCEPT ![i] = "running"]
             \/ /\ state' = OfHeld(i, state, "stopped")
                /\ saved' \in {saved, [saved EXCEPT ![i] = "stopped"]}
                /\ UNCHANGED alive
    /\ UNCHANGED <<may, stage, files, bucket, held, jobs, ticking, op, sort, astray>>

\* A service is stopped, or its process ends for good.
End(i) ==
    /\ i \in alive
    /\ ~may.overlaps => Idle
    /\ alive' = alive \ {i}
    /\ state' = OfHeld(i, state, "stopped")
    /\ saved' = [saved EXCEPT ![i] = "stopped"]
    /\ UNCHANGED <<may, stage, files, bucket, held, definition, jobs, ticking, op,
                   found, sort, astray>>

-----------------------------------------------------------------------------
(* The boot.                                                               *)

Readable == {i \in Ids : files[i].kind \in {"part", "whole"}}

\* New: the Guardian starts to load.
StartUp ==
    /\ stage = "down"
    /\ stage' = "loading"
    /\ UNCHANGED <<may, files, bucket, saved, held, definition, state, jobs,
                   ticking, op, found, alive, sort, astray>>

\* LoadAll: one file that is no YAML, and no service is loaded.  An empty one is
\* read as a service without a name, which is none of Ids.
LoadAll ==
    /\ stage = "loading"
    /\ stage' = "sorting"
    /\ IF \A i \in Ids : files[i].kind # "broken"
       THEN LET read == [i \in Ids |-> ToService(files[i].yaml)] IN
            /\ held' = Readable
            /\ definition' = [i \in Ids |-> IF i \in Readable THEN read[i] ELSE NoDefinition]
            /\ state' = [i \in Ids |-> IF i \in Readable THEN saved[i] ELSE "none"]
            /\ jobs' = [i \in Ids |-> IF i \in Readable THEN Added(NoJobs, read[i]) ELSE NoJobs]
            /\ ticking' = TRUE
            /\ astray' = {i \in Ids : files[i] \in Torn}
       ELSE /\ astray' = {i \in Ids : files[i] # Absent}
            /\ UNCHANGED <<held, definition, state, jobs, ticking>>
    /\ UNCHANGED <<may, files, bucket, saved, op, found, alive, sort>>

Needs(i) == definition[i].needs
Dependents(n) == {i \in held : n \in Needs(i)}
InSomeOrder(S) == {q \in [1..Cardinality(S) -> S] :
                     \A j, k \in 1..Cardinality(S) : q[j] = q[k] => j = k}

\* TopologicalSort counts dependencies, whether or not they are services.
CountDegrees ==
    /\ stage = "sorting" /\ sort.result = "none"
    /\ sort.queue = <<>> /\ sort.sorted = <<>> /\ \A i \in Ids : sort.degree[i] = 0
    /\ \E q \in InSomeOrder({i \in held : Needs(i) = {}}) :
          sort' = [NoSort EXCEPT !.queue = q,
                     !.degree = [i \in Ids |-> IF i \in held THEN Cardinality(Needs(i)) ELSE 0],
                     !.result = IF held = {} THEN "sorted"
                                ELSE IF q = <<>> THEN "cycle" ELSE "none"]
    /\ UNCHANGED <<may, stage, files, bucket, saved, held, definition, state, jobs,
                   ticking, op, found, alive, astray>>

\* Fault: a service is due when one of its dependencies is left.
PopEarly ==
    LET node == Head(sort.queue)
        less == [i \in Ids |-> IF i \in Dependents(node) THEN sort.degree[i] - 1
                                                         ELSE sort.degree[i]]
        due  == {i \in Dependents(node) : less[i] = 1 \/ (less[i] = 0 /\ Cardinality(Needs(i)) = 1)}
    IN  /\ stage = "sorting" /\ sort.queue # <<>>
        /\ \E q \in InSomeOrder(due) :
              LET queue == Tail(sort.queue) \o q
                  done  == Append(sort.sorted, node)
              IN sort' = [degree |-> less, queue |-> queue, sorted |-> done,
                          result |-> IF queue # <<>> THEN "none"
                                     ELSE IF Len(done) = Cardinality(held) THEN "sorted"
                                     ELSE "cycle"]
        /\ UNCHANGED <<may, stage, files, bucket, saved, held, definition, state,
                       jobs, ticking, op, found, alive, astray>>

\* The next service of the queue; the maps are walked in any order.
Pop ==
    LET node == Head(sort.queue)
        less == [i \in Ids |-> IF i \in Dependents(node) THEN sort.degree[i] - 1
                                                         ELSE sort.degree[i]]
        due  == {i \in Dependents(node) : less[i] = 0}
    IN  /\ stage = "sorting" /\ sort.queue # <<>>
        /\ \E q \in InSomeOrder(due) :
              LET queue == Tail(sort.queue) \o q
                  done  == Append(sort.sorted, node)
              IN sort' = [degree |-> less, queue |-> queue, sorted |-> done,
                          result |-> IF queue # <<>> THEN "none"
                                     ELSE IF Len(done) = Cardinality(held) THEN "sorted"
                                     ELSE "cycle"]
        /\ UNCHANGED <<may, stage, files, bucket, saved, held, definition, state,
                       jobs, ticking, op, found, alive, astray>>

\* AutoStart has a goroutine start each service that starts by itself; once they
\* run, the order in which they were launched says nothing.
AutoStart ==
    /\ stage = "sorting" /\ sort.result # "none"
    /\ stage' = "up"
    /\ found' = {i \in held \cap may.ids : definition[i].auto}
    /\ sort' = NoSort
    /\ UNCHANGED <<may, files, bucket, saved, held, definition, state, jobs,
                   ticking, op, alive, astray>>

-----------------------------------------------------------------------------

\* The Guardian is gone; its processes end with it, and when it was not killed
\* it stopped them itself and wrote that down.
Gone(killed) ==
    /\ stage' = "down"
    /\ saved' = IF killed THEN saved
                ELSE [i \in Ids |-> IF i \in alive THEN "stopped" ELSE saved[i]]
    /\ held' = {} /\ definition' = [i \in Ids |-> NoDefinition]
    /\ state' = [i \in Ids |-> "none"]
    /\ jobs' = [i \in Ids |-> NoJobs] /\ ticking' = FALSE
    /\ op' = NoOp /\ found' = {} /\ alive' = {} /\ sort' = NoSort
    /\ UNCHANGED <<may, files, bucket, astray>>

MayGo(killed) == IF killed THEN may.crashes /\ stage # "down"
                           ELSE stage = "up" /\ Idle /\ found = {}

RegistryStep ==
    \/ \E i \in Ids : \/ \E d \in Sent : Add(i, d) \/ Update(i, d)
                      \/ Remove(i) \/ Lookup(i) \/ StartService(i) \/ End(i)
    \/ TruncateFile \/ FillFile \/ SaveService \/ WriteFails \/ Install
    \/ LoadAll \/ CountDegrees \/ Pop \/ AutoStart

RegistryNext == RegistryStep \/ StartUp
                \/ \E killed \in BOOLEAN : MayGo(killed) /\ Gone(killed)

RegistrySpec == RegistryInit /\ [][RegistryNext]_registryVars

-----------------------------------------------------------------------------
(* Properties.                                                             *)

\* The definitions that are written without loss, but for the interpreter; a size
\* of less than one gigabyte has no tenths.
Expressible(d) ==
    /\ d.delay >= 0 /\ d.hook # ""
    /\ d.limits.interval > 0 => HasAnyLimit(d.limits)
    /\ \E t \in 0..(10 * Kilo - 1), u \in 0..4 :
          /\ IF u < 3 THEN t % 10 = 0 ELSE t >= 10
          /\ d.limits.memory = ParseByteSize([tenths |-> t, unit |-> u])

\* What a service may be held as once its file was read: as the file says or,
\* when the file gives no directory, with the one that a start filled in.
HeldAs(r) == {r} \cup {[r EXCEPT !.dir = dir] : dir \in IF r.dir = "" THEN {"exe"} ELSE {}}

\* Between operations the manager, the files and the scheduler agree.  A service
\* that is held has a whole file, which says what is held or what is left of it
\* in YAML, but for a directory that a start filled in; if the definition is
\* expressible that is all of it except for the interpreter of its health check.
\* It has the jobs of its definition, once; and what is not held has neither a
\* file nor jobs.  Only a service that was removed, whose addition or update
\* failed halfway, or that a broken file kept from loading, is astray.
DefinitionsMatch ==
    (stage = "up" /\ Idle) =>
        \A i \in Ids :
            LET d == definition[i]
                r == ToService(files[i].yaml) IN
            /\ jobs[i] = IF i \in held THEN Added(NoJobs, d) ELSE NoJobs
            /\ (i \in held \ astray) =>
                  /\ files[i].kind = "whole"
                  /\ d \in HeldAs(r) \/ Settled(d) \in HeldAs(r)
                  /\ Expressible(d) => [d EXCEPT !.interpreter = ""] \in HeldAs(r)
            /\ (i \notin held \cup astray) => files[i].kind = "absent"

\* A service is shown as running exactly when it has a process, and no process
\* is without a service, whatever is added, updated and removed.  Not so when a
\* service starts or ends while an operation holds a copy of its state, or after
\* a crash, which leaves the states of before.
StatusTrue ==
    (stage = "up" /\ ~may.overlaps /\ ~may.crashes) =>
        /\ alive \subseteq held
        /\ \A i \in held : state[i] = "running" <=> i \in alive

\* An order of all services in which each comes after the services it needs.
IsOrder(seq) ==
    /\ {seq[j] : j \in DOMAIN seq} = held /\ Len(seq) = Cardinality(held)
    /\ \A i \in held : \A n \in Needs(i) \cap held :
          \E j, k \in DOMAIN seq : j < k /\ seq[j] = n /\ seq[k] = i

\* A service needs a name that is none's.
NeedsStranger == \E i \in held : ~(Needs(i) \subseteq held)

\* TopologicalSort yields an order of all services, and only when all they need
\* is there; it reports a cycle when no order exists and, what it should not,
\* when a name is unknown.
StartOrder ==
    /\ sort.result = "sorted" => IsOrder(sort.sorted) /\ ~NeedsStranger
    /\ sort.result = "cycle" => \/ \A seq \in InSomeOrder(held) : ~IsOrder(seq)
                                \/ NeedsStranger

\* A service that was removed is not loaded again when the Guardian starts.
RemovedStaysRemoved ==
    [][ (stage = "loading" /\ ~may.fails /\ ~may.crashes) => held' \cap astray = {}
      ]_registryVars
=============================================================================

---------------------------- MODULE WatchersProofs ----------------------------
(***************************************************************************)
(* Proofs about Watchers, for any checks, retries, capacities, limits and  *)
(* durations.                                                              *)
(***************************************************************************)
EXTENDS Watchers, SequenceTheorems, WellFoundedInduction, TLAPS

-----------------------------------------------------------------------------
(* Ages and windows.                                                       *)

LEMMA Least ==
    ASSUME NEW T \in SUBSET Nat, T # {}
    PROVE  \E n \in T : \A m \in T : n <= m
<1>1. PICK n \in T : \A m \in T : ~ (<<m, n>> \in OpToRel(<, Nat))
  BY WFMin, NatLessThanWellFounded
<1>2. \A m \in T : ~ (m < n)
  BY <1>1, Zenon DEF OpToRel
<1>3. n \in Nat /\ \A m \in T : m \in Nat
  BY <1>1
<1>4. \A m \in T : n <= m
  BY <1>2, <1>3
<1> QED BY <1>4

LEMMA Durations == Duration \in Nat \ {0} /\ Duration + 1 \in Nat
BY WatchersAssumption

LEMMA Readings ==
    ASSUME NEW w \in Seq(Reading)
    PROVE  /\ Len(w) \in Nat /\ DOMAIN w = 1..Len(w)
           /\ \A i \in 1..Len(w) : /\ w[i] \in Reading
                                   /\ w[i].age \in 0..(Duration + 1)
                                   /\ w[i].hot \in BOOLEAN
<1>1. \A i \in 1..Len(w) : w[i] \in Reading
  BY ElementOfSeq
<1> QED BY <1>1, LenProperties DEF Reading

\* A window after an interval.
LEMMA AgedType ==
    ASSUME NEW w \in Seq(Reading)
    PROVE  /\ Aged(w) \in Seq(Reading) /\ Len(Aged(w)) = Len(w)
           /\ \A i \in 1..Len(w) : /\ Aged(w)[i].hot = w[i].hot
                                   /\ Aged(w)[i].age = Older(w[i].age, Duration + 1)
<1>1. DOMAIN w = 1..Len(w) /\ Len(w) \in Nat
  BY LenProperties
<1>2. \A i \in 1..Len(w) : Older(w[i].age, Duration + 1) \in 0..(Duration + 1)
  <2> SUFFICES ASSUME NEW i \in 1..Len(w)
               PROVE  Older(w[i].age, Duration + 1) \in 0..(Duration + 1)
    OBVIOUS
  <2>1. w[i].age \in 0..(Duration + 1)
    BY Readings
  <2> QED BY <2>1, Durations DEF Older
<1>3. \A i \in 1..Len(w) :
        /\ Aged(w)[i] = [w[i] EXCEPT !.age = Older(w[i].age, Duration + 1)]
        /\ w[i] \in Reading
  BY <1>1, Readings DEF Aged
<1>4. \A i \in 1..Len(w) :
        /\ Aged(w)[i] \in Reading
        /\ Aged(w)[i].hot = w[i].hot
        /\ Aged(w)[i].age = Older(w[i].age, Duration + 1)
  BY <1>2, <1>3 DEF Reading
<1>5. Aged(w) \in [1..Len(w) -> Reading]
  BY <1>1, <1>4 DEF Aged
<1> QED BY <1>1, <1>4, <1>5

\* The window after a prune is an end of the one before: what was recent stays.
LEMMA PrunedIsSuffix ==
    ASSUME NEW w \in Seq(Reading), NEW lag \in {0, 1}
    PROVE  \E n \in 1..(Len(w) + 1) :
              /\ Pruned(w, lag) \in Seq(Reading)
              /\ Len(Pruned(w, lag)) = Len(w) - n + 1
              /\ \A i \in 1..(Len(w) - n + 1) : Pruned(w, lag)[i] = w[n + i - 1]
              /\ n <= Len(w) => w[n].age + lag <= Duration
<1> DEFINE Recent(i) == w[i].age + lag <= Duration
           First(n) == /\ \A i \in 1..(n - 1) : ~Recent(i)
                       /\ n <= Len(w) => Recent(n)
           first == CHOOSE n \in 1..(Len(w) + 1) : First(n)
<1>1. Len(w) \in Nat
  BY LenProperties
<1>2. \E n \in 1..(Len(w) + 1) : First(n)
  <2> DEFINE T == {i \in 1..Len(w) : Recent(i)}
  <2>1. CASE T = {}
    <3>1. First(Len(w) + 1) /\ Len(w) + 1 \in 1..(Len(w) + 1)
      BY <1>1, <2>1
    <3> QED BY <3>1
  <2>2. CASE T # {}
    <3>1. T \in SUBSET Nat
      BY <1>1
    <3>2. PICK n \in T : \A m \in T : n <= m
      <4> HIDE DEF T
      <4> QED BY <2>2, <3>1, Least
    <3>3. n \in 1..Len(w) /\ Recent(n)
      BY <3>2
    <3>4. \A i \in 1..(n - 1) : i \in 1..Len(w) /\ i < n
      BY <1>1, <3>3
    <3>5. \A i \in 1..(n - 1) : ~Recent(i)
      <4> SUFFICES ASSUME NEW i \in 1..(n - 1), Recent(i) PROVE FALSE
        OBVIOUS
      <4>1. i \in T
        BY <3>4
      <4>2. n <= i
        BY <3>2, <4>1
      <4> QED BY <1>1, <3>3, <3>4, <4>2
    <3>6. First(n) /\ n \in 1..(Len(w) + 1)
      BY <1>1, <3>3, <3>5
    <3> QED BY <3>6
  <2> QED BY <2>1, <2>2
<1>3. first \in 1..(Len(w) + 1) /\ First(first)
  BY <1>2
<1>4. Pruned(w, lag) = SubSeq(w, first, Len(w))
  BY DEF Pruned
<1>5. \A i \in first..Len(w) : w[i] \in Reading
  BY <1>1, <1>3, ElementOfSeq
<1> HIDE DEF first
<1>6. /\ SubSeq(w, first, Len(w)) \in Seq(Reading)
      /\ Len(SubSeq(w, first, Len(w))) = IF first <= Len(w) THEN Len(w) - first + 1 ELSE 0
      /\ \A i \in 1..(Len(w) - first + 1) : SubSeq(w, first, Len(w))[i] = w[first + i - 1]
  BY <1>1, <1>3, <1>5, SubSeqProperties
<1> QED BY <1>1, <1>3, <1>4, <1>6

-----------------------------------------------------------------------------
(* What a window says.                                                     *)

\* If the last samples of a window are all hot, the CPU has been busy since the
\* first of them at least.
Heated(w, hotFor) ==
    \A i \in 1..Len(w) :
        (\A j \in i..Len(w) : w[j].hot) => w[i].age <= hotFor

\* Each sample is at least one interval older than the next, as far as ages are
\* counted.
Spaced(w) == \A i \in 1..Len(w) : w[i].age <= Duration => Len(w) - i <= w[i].age

LEMMA AgedWindow ==
    ASSUME NEW w \in Seq(Reading), NEW hotFor \in Heat, Heated(w, hotFor), Spaced(w)
    PROVE  /\ Heated(Aged(w), IF hotFor = -1 THEN -1 ELSE Older(hotFor, Duration + 1))
           /\ \A i \in 1..Len(w) :
                 Aged(w)[i].age <= Duration => Len(w) - i + 1 <= Aged(w)[i].age
           /\ Spaced(Aged(w))
<1>1. \A i \in 1..Len(w) : w[i].age \in 0..(Duration + 1)
  BY Readings
<1>2. Duration \in Nat /\ Len(w) \in Nat
  BY Durations, Readings
<1>3. Heated(Aged(w), IF hotFor = -1 THEN -1 ELSE Older(hotFor, Duration + 1))
  <2> SUFFICES ASSUME NEW i \in 1..Len(w), \A j \in i..Len(w) : Aged(w)[j].hot
               PROVE  Aged(w)[i].age <= IF hotFor = -1 THEN -1 ELSE Older(hotFor, Duration + 1)
    BY AgedType DEF Heated
  <2>1. w[i].age <= hotFor
    BY <1>2, AgedType DEF Heated
  <2> QED BY <1>1, <1>2, <2>1, AgedType DEF Older, Heat
<1>4. \A i \in 1..Len(w) :
         Aged(w)[i].age <= Duration => Len(w) - i + 1 <= Aged(w)[i].age
  <2> SUFFICES ASSUME NEW i \in 1..Len(w), Aged(w)[i].age <= Duration
               PROVE  Len(w) - i + 1 <= Aged(w)[i].age
    OBVIOUS
  <2>1. w[i].age \in 0..(Duration + 1)
    BY <1>1
  <2>2. Aged(w)[i].age = IF w[i].age >= Duration + 1 THEN Duration + 1 ELSE w[i].age + 1
    BY AgedType DEF Older
  <2>3. w[i].age <= Duration /\ Aged(w)[i].age = w[i].age + 1
    BY <1>2, <2>1, <2>2
  <2>4. Len(w) - i <= w[i].age
    BY <2>3 DEF Spaced
  <2> QED BY <1>2, <2>1, <2>3, <2>4
<1>5. Spaced(Aged(w))
  BY <1>1, <1>2, <1>4, AgedType DEF Spaced, Older
<1> QED BY <1>3, <1>4, <1>5

\* A window with a new sample, pruned, still says what it should.
LEMMA NextWindow ==
    ASSUME NEW w \in Seq(Reading), NEW hotFor \in Heat, Heated(w, hotFor), Spaced(w),
           NEW hot \in BOOLEAN, NEW lag \in {0, 1}, NEW heat \in Heat,
           heat = IF ~hot THEN -1 ELSE IF hotFor = -1 THEN 0
                  ELSE Older(hotFor, Duration + 1)
    PROVE  LET n == Pruned(Append(Aged(w), [age |-> 0, hot |-> hot]), lag)
           IN  n \in Seq(Reading) /\ Heated(n, heat) /\ Spaced(n) /\ Len(n) <= Duration + 1
<1> DEFINE a == Aged(w)
           s == [age |-> 0, hot |-> hot]
           b == Append(a, s)
           p == Pruned(b, lag)
<1>1. Duration \in Nat /\ Len(w) \in Nat
  BY Durations, Readings
<1>2. s \in Reading
  BY <1>1 DEF Reading
<1>3. /\ a \in Seq(Reading) /\ Len(a) = Len(w)
      /\ Heated(a, IF hotFor = -1 THEN -1 ELSE Older(hotFor, Duration + 1))
      /\ \A i \in 1..Len(w) : a[i].age <= Duration => Len(w) - i + 1 <= a[i].age
      /\ \A i \in 1..Len(w) : a[i].age \in 0..(Duration + 1)
  BY AgedType, AgedWindow, Readings
<1>4. /\ b \in Seq(Reading) /\ Len(b) = Len(w) + 1
      /\ \A i \in 1..Len(w) : b[i] = a[i]
      /\ b[Len(w) + 1] = s
  BY <1>2, <1>3, AppendProperties
<1>5. Spaced(b)
  BY <1>1, <1>3, <1>4 DEF Spaced
<1>6. Heated(b, heat)
  <2> SUFFICES ASSUME NEW i \in 1..Len(b), \A j \in i..Len(b) : b[j].hot
               PROVE  b[i].age <= heat
    BY DEF Heated
  <2>1. hot
    BY <1>1, <1>4
  <2>2. CASE i = Len(w) + 1
    BY <1>1, <1>4, <2>1, <2>2 DEF Older, Heat
  <2>3. CASE i \in 1..Len(w)
    <3>1. \A j \in i..Len(a) : a[j].hot
      BY <1>1, <1>3, <1>4, <2>3
    <3>2. a[i].age <= IF hotFor = -1 THEN -1 ELSE Older(hotFor, Duration + 1)
      BY <1>3, <2>3, <3>1 DEF Heated
    <3> QED BY <1>1, <1>3, <1>4, <2>1, <2>3, <3>2 DEF Heat
  <2> QED BY <1>1, <1>4, <2>2, <2>3
<1> HIDE DEF a, s, b, p
<1>7. PICK n \in 1..(Len(b) + 1) :
          /\ p \in Seq(Reading)
          /\ Len(p) = Len(b) - n + 1
          /\ \A i \in 1..(Len(b) - n + 1) : p[i] = b[n + i - 1]
          /\ n <= Len(b) => b[n].age + lag <= Duration
  BY <1>4, PrunedIsSuffix DEF p
\* What is kept is the end of the window, from its sample n on.
<1>a. /\ Len(b) \in Nat /\ n \in Nat /\ n >= 1
      /\ Len(p) = Len(b) - n + 1
      /\ \A k \in 1..Len(p) : p[k] = b[n + k - 1]
  <2>1. Len(b) \in Nat
    BY <1>1, <1>4
  <2> QED BY <2>1, <1>7
<1>8. Heated(p, heat)
  <2> SUFFICES ASSUME NEW i \in 1..Len(p), \A j \in i..Len(p) : p[j].hot
               PROVE  p[i].age <= heat
    BY DEF Heated
  <2>1. \A j \in (n + i - 1)..Len(b) : b[j].hot
    <3> SUFFICES ASSUME NEW j \in (n + i - 1)..Len(b) PROVE b[j].hot
      OBVIOUS
    <3> DEFINE k == j - n + 1
    <3>1. k \in 1..Len(p) /\ k \in i..Len(p) /\ n + k - 1 = j
      BY <1>a
    <3> HIDE DEF k
    <3>2. p[k] = b[j]
      BY <1>a, <3>1
    <3> QED BY <3>1, <3>2
  <2>2. n + i - 1 \in 1..Len(b) /\ p[i] = b[n + i - 1]
    BY <1>a
  <2>3. b[n + i - 1].age <= heat
    BY <1>6, <2>1, <2>2 DEF Heated
  <2> QED BY <2>2, <2>3
<1>9. Spaced(p)
  <2> SUFFICES ASSUME NEW i \in 1..Len(p), p[i].age <= Duration
               PROVE  Len(p) - i <= p[i].age
    BY DEF Spaced
  <2>1. /\ n + i - 1 \in 1..Len(b) /\ p[i] = b[n + i - 1]
        /\ Len(b) - (n + i - 1) = Len(p) - i
    BY <1>a
  <2>2. Len(b) - (n + i - 1) <= b[n + i - 1].age
    BY <1>5, <2>1 DEF Spaced
  <2> QED BY <2>1, <2>2
<1>10. Len(p) <= Duration + 1
  <2>1. CASE n = Len(b) + 1
    BY <1>1, <1>a, <2>1
  <2>2. CASE n \in 1..Len(b)
    <3>1. b[n].age \in 0..(Duration + 1)
      BY <1>4, <2>2, Readings
    <3>2. b[n].age + lag <= Duration
      BY <1>7, <2>2, <1>a
    <3>3. b[n].age <= Duration
      BY <1>1, <3>1, <3>2
    <3>4. Len(b) - n <= b[n].age
      BY <1>5, <2>2, <3>3 DEF Spaced
    <3> QED BY <1>1, <1>a, <3>1, <3>3, <3>4
  <2> QED BY <1>7, <2>1, <2>2, <1>a
<1> QED BY <1>7, <1>8, <1>9, <1>10 DEF p, b, s, a

\* A window that says the CPU was busy for the whole duration is right.
LEMMA SustainedIsReal ==
    ASSUME NEW w \in Seq(Reading), NEW hotFor \in Heat, Heated(w, hotFor), Sustained(w)
    PROVE  hotFor >= Duration
<1>1. /\ Duration \in Nat /\ Len(w) \in Nat
      /\ \A i \in 1..Len(w) : w[i].age \in 0..(Duration + 1) /\ i \in DOMAIN w
  BY Durations, Readings
<1>2. w[1].age <= hotFor
  BY <1>1 DEF Heated, Sustained
<1> QED BY <1>1, <1>2 DEF Sustained, Heat
-----------------------------------------------------------------------------
(* Reports.                                                                *)

\* What sendBreach leaves in the channel was there or is new.
LEMMA SentKnown ==
    ASSUME NEW old \in Seq(Breach), NEW new \in Seq(Breach), Len(old) <= BreachCap
    PROVE  /\ Sent(old, new) \in Seq(Breach) /\ Len(Sent(old, new)) <= BreachCap
           /\ \A i \in 1..Len(Sent(old, new)) :
                 \/ \E j \in 1..Len(old) : Sent(old, new)[i] = old[j]
                 \/ \E j \in 1..Len(new) : Sent(old, new)[i] = new[j]
<1> DEFINE room == BreachCap - Len(old)
           top == IF Len(new) < room THEN Len(new) ELSE room
           part == SubSeq(new, 1, top)
<1>1. BreachCap \in Nat /\ Len(old) \in Nat /\ Len(new) \in Nat
  BY WatchersAssumption, LenProperties
<1>2. top \in Nat /\ top <= Len(new) /\ Len(old) + top <= BreachCap
  BY <1>1
<1>3. \A i \in 1..top : new[i] \in Breach
  BY <1>1, <1>2, ElementOfSeq
<1> HIDE DEF top
<1>4. part \in Seq(Breach) /\ Len(part) = top /\ \A i \in 1..top : part[i] = new[i]
  BY <1>2, <1>3, SubSeqProperties
<1>5. Sent(old, new) = old \o part
  BY DEF Sent, top
<1> HIDE DEF part
<1>6. /\ old \o part \in Seq(Breach)
      /\ Len(old \o part) = Len(old) + top
      /\ \A i \in 1..(Len(old) + top) :
            (old \o part)[i] = IF i <= Len(old) THEN old[i] ELSE part[i - Len(old)]
  BY <1>4, ConcatProperties
<1>7. ASSUME NEW i \in 1..(Len(old) + top)
      PROVE  \/ \E j \in 1..Len(old) : (old \o part)[i] = old[j]
             \/ \E j \in 1..Len(new) : (old \o part)[i] = new[j]
  <2>1. CASE i <= Len(old)
    BY <1>1, <1>2, <1>6, <2>1
  <2>2. CASE i > Len(old)
    <3>1. i - Len(old) \in 1..top
      BY <1>1, <1>2, <2>2
    <3>2. (old \o part)[i] = new[i - Len(old)] /\ i - Len(old) \in 1..Len(new)
      BY <1>1, <1>2, <1>4, <1>6, <2>2, <3>1
    <3> QED BY <3>2
  <2>3. i <= Len(old) \/ i > Len(old)
    BY <1>1, <1>2
  <2> QED BY <2>1, <2>2, <2>3
<1> QED BY <1>1, <1>2, <1>5, <1>6, <1>7

\* A breach of the process that runs now, in which the CPU was busy as long as it
\* says.
True(b, p) == b.pid = p /\ (b.type = "cpu" => b.hotFor >= Duration)

\* The breaches that a sample finds are true.
LEMMA BrokenTrue ==
    ASSUME TypeOK, NEW hot \in BOOLEAN, NEW mem \in Memory, NEW lag \in {0, 1},
           HotFor(hot) \in Heat, Sustained(Window(hot, lag)) => HotFor(hot) >= Duration
    PROVE  /\ Broken(hot, mem, lag) \in Seq(Breach)
           /\ \A i \in 1..Len(Broken(hot, mem, lag)) : True(Broken(hot, mem, lag)[i], pid)
<1> DEFINE Report(limit) == [type |-> limit, pid |-> pid, hotFor |-> HotFor(hot)]
           If(limit, bad) == IF limit \in env.limits /\ bad THEN <<Report(limit)>> ELSE <<>>
           known == Len(Base(mem)) = Warmup /\ Median(Base(mem)) > 0
           A == If("cpu", Sustained(Window(hot, lag)))
           B == If("memory", mem > MemoryMax)
           C == If("spike", known /\ mem >= SpikeRatio * Median(Base(mem)))
           Good == {b \in Breach : True(b, pid)}
<1>1. Broken(hot, mem, lag) = A \o B \o C
  BY Zenon DEF Broken
<1>2. /\ Sustained(Window(hot, lag)) => Report("cpu") \in Good
      /\ Report("memory") \in Good /\ Report("spike") \in Good
  BY DEF TypeOK, Breach, True
<1> HIDE DEF Report, Good, known
<1>3. A \in Seq(Good) /\ B \in Seq(Good) /\ C \in Seq(Good)
  BY <1>2
<1> HIDE DEF A, B, C
<1>4. A \o B \o C \in Seq(Good)
  BY <1>3, ConcatProperties
<1>5. Good \subseteq Breach
  BY DEF Good
<1>6. Broken(hot, mem, lag) \in Seq(Breach)
  BY <1>1, <1>4, <1>5, SeqMonotonic
<1>7. \A i \in 1..Len(Broken(hot, mem, lag)) : Broken(hot, mem, lag)[i] \in Good
  BY <1>1, <1>4, ElementOfSeq
<1> QED BY <1>6, <1>7 DEF Good

-----------------------------------------------------------------------------
(* The specification.                                                      *)

\* No sample is kept in the grace period or without a limit on the CPU.
Quiet == (rm.elapsed < Grace \/ "cpu" \notin env.limits) => rm.window = <<>>

\* Whatever is in the channel is true, and the window knows since when the CPU
\* has been busy.
WatchInv == /\ TypeOK
            /\ Heated(rm.window, rm.hotFor) /\ Spaced(rm.window) /\ Quiet
            /\ \A i \in 1..Len(rm.breaches) : True(rm.breaches[i], pid)

\* Runner and service without the resource monitor.
RunnerOK == /\ env \in Environments
            /\ service \in {"stopped", "running", "stopping", "failed"}
            /\ pid \in {0, 1} /\ alive \in BOOLEAN
            /\ monitor \in {"off", "watching", "waiting"} /\ listening \in BOOLEAN
            /\ runner \in Runners /\ runner.looping \subseteq env.checks
            /\ Len(runner.failures) <= FailureCap

MonitorInv ==
    /\ rm \in Monitors
    /\ Len(rm.base) <= Warmup /\ Len(rm.window) <= Duration + 1
    /\ Len(rm.breaches) <= BreachCap
    /\ Heated(rm.window, rm.hotFor) /\ Spaced(rm.window) /\ Quiet
    /\ \A i \in 1..Len(rm.breaches) : True(rm.breaches[i], pid)

LEMMA WatchParts == WatchInv <=> RunnerOK /\ MonitorInv
BY DEF WatchInv, RunnerOK, MonitorInv, TypeOK

LEMMA NewMonitors ==
    \A m \in {NoMonitor, NewMonitor} :
        m \in Monitors /\ m.base = <<>> /\ m.window = <<>> /\ m.breaches = <<>>
<1>1. 0 \in 0..(Grace + 1) /\ -1 \in -1..(Duration + 1)
  BY WatchersAssumption
<1>2. <<>> \in Seq(Memory) /\ <<>> \in Seq(Reading) /\ <<>> \in Seq(Breach)
  BY EmptySeq
<1>3. NoMonitor \in Monitors
  BY <1>1, <1>2 DEF NoMonitor, Heat, Monitors
<1>4. NewMonitor \in Monitors
  BY <1>3 DEF NewMonitor, Monitors
<1>5. NoMonitor.base = <<>> /\ NoMonitor.window = <<>> /\ NoMonitor.breaches = <<>>
  BY DEF NoMonitor
<1>6. NewMonitor.base = <<>> /\ NewMonitor.window = <<>> /\ NewMonitor.breaches = <<>>
  BY <1>3, <1>5 DEF NewMonitor, Monitors
<1> QED BY <1>3, <1>4, <1>5, <1>6

LEMMA NewRunners ==
    \A r \in {NoRunner, NewRunner} :
        r \in Runners /\ r.looping = {} /\ r.failures = <<>>
<1>1. 0 \in 0..Retries /\ <<>> \in Seq({0, 1})
  BY WatchersAssumption, EmptySeq
<1>2. NoRunner \in Runners
  BY <1>1 DEF NoRunner, Runners
<1>3. NewRunner \in Runners
  BY <1>2 DEF NewRunner, Runners
<1>4. NoRunner.looping = {} /\ NoRunner.failures = <<>>
  BY DEF NoRunner
<1>5. NewRunner.looping = {} /\ NewRunner.failures = <<>>
  BY <1>2, <1>4 DEF NewRunner, Runners
<1> QED BY <1>2, <1>3, <1>4, <1>5

\* A resource monitor or a runner that is new, or none, in a state and in the
\* next.
LEMMA FreshMonitor ==
    /\ rm \in {NoMonitor, NewMonitor} => MonitorInv
    /\ rm' \in {NoMonitor, NewMonitor} => MonitorInv'
<1>1. BreachCap \in Nat /\ Warmup \in Nat /\ Duration \in Nat /\ Len(<<>>) = 0
  BY WatchersAssumption
<1>2. rm \in {NoMonitor, NewMonitor} => MonitorInv
  BY <1>1, NewMonitors DEF MonitorInv, Heated, Spaced, Quiet
<1>3. rm' \in {NoMonitor, NewMonitor} => MonitorInv'
  BY <1>1, NewMonitors DEF MonitorInv, Heated, Spaced, Quiet
<1> QED BY <1>2, <1>3

LEMMA FreshRunner ==
    \A r \in {NoRunner, NewRunner} :
        /\ r \in Runners /\ r.looping = {}
        /\ Len(r.failures) <= FailureCap
<1>1. FailureCap \in Nat /\ Len(<<>>) = 0
  BY WatchersAssumption
<1> QED BY <1>1, NewRunners

LEMMA WatchInit == Init => WatchInv
<1> SUFFICES ASSUME Init PROVE WatchInv
  OBVIOUS
<1>1. MonitorInv
  BY FreshMonitor DEF Init
<1>2. RunnerOK
  BY FreshRunner DEF Init, RunnerOK
<1> QED BY <1>1, <1>2, WatchParts

\* An interval passes; what else a sample changes is checked below.
LEMMA LaterKeeps ==
    ASSUME MonitorInv
    PROVE  /\ Later \in Monitors
           /\ Later.base = rm.base /\ Later.breaches = rm.breaches /\ Later.on = rm.on
           /\ Later.window = Aged(rm.window) /\ Len(Later.window) <= Duration + 1
           /\ Later.hotFor = IF rm.hotFor = -1 THEN -1 ELSE Older(rm.hotFor, Duration + 1)
           /\ Heated(Later.window, Later.hotFor) /\ Spaced(Later.window)
<1>1. /\ rm.hotFor \in Heat /\ rm.elapsed \in 0..(Grace + 1) /\ Grace \in Nat
      /\ Duration \in Nat /\ rm.window \in Seq(Reading)
  BY Durations, WatchersAssumption DEF MonitorInv, Monitors
<1>2. /\ Aged(rm.window) \in Seq(Reading) /\ Len(Aged(rm.window)) = Len(rm.window)
      /\ Heated(Aged(rm.window), IF rm.hotFor = -1 THEN -1 ELSE Older(rm.hotFor, Duration + 1))
      /\ Spaced(Aged(rm.window))
  BY <1>1, AgedType, AgedWindow DEF MonitorInv
<1>3. /\ (IF rm.hotFor = -1 THEN -1 ELSE Older(rm.hotFor, Duration + 1)) \in Heat
      /\ Older(rm.elapsed, Grace + 1) \in 0..(Grace + 1)
  BY <1>1 DEF Heat, Older
<1>4. /\ Later = [rm EXCEPT !.elapsed = Older(rm.elapsed, Grace + 1),
                     !.window = Aged(rm.window),
                     !.hotFor = IF rm.hotFor = -1 THEN -1 ELSE Older(rm.hotFor, Duration + 1)]
      /\ rm \in Monitors
  BY DEF Later, MonitorInv
<1>5. /\ Later.base = rm.base /\ Later.breaches = rm.breaches /\ Later.on = rm.on
      /\ Later.window = Aged(rm.window)
      /\ Later.hotFor = IF rm.hotFor = -1 THEN -1 ELSE Older(rm.hotFor, Duration + 1)
  BY <1>4 DEF Monitors
<1>6. Later \in Monitors
  BY <1>2, <1>3, <1>4 DEF Monitors
<1> QED BY <1>2, <1>5, <1>6 DEF MonitorInv

LEMMA LaterQuiet ==
    ASSUME MonitorInv, Later.elapsed < Grace \/ "cpu" \notin env.limits
    PROVE  Later.window = <<>>
<1>1. /\ rm.window \in Seq(Reading) /\ rm.elapsed \in 0..(Grace + 1) /\ Grace \in Nat
      /\ rm \in Monitors
  BY WatchersAssumption DEF MonitorInv, Monitors
<1>2. Later.elapsed = Older(rm.elapsed, Grace + 1)
  BY <1>1 DEF Later, Monitors
<1>3. rm.elapsed < Grace \/ "cpu" \notin env.limits
  BY <1>1, <1>2 DEF Older
<1>4. rm.window = <<>>
  BY <1>3 DEF MonitorInv, Quiet
<1>5. Len(Aged(rm.window)) = 0 /\ Aged(rm.window) \in Seq(Reading)
  BY <1>1, <1>4, AgedType
<1>6. Aged(rm.window) = <<>>
  BY <1>5, EmptySeq
<1> QED BY <1>6, LaterKeeps

LEMMA SampleKeeps ==
    ASSUME RunnerOK, MonitorInv, NEW hot \in BOOLEAN, NEW mem \in Memory,
           NEW lag \in {0, 1}, Sample(hot, mem, lag)
    PROVE  RunnerOK' /\ MonitorInv'
<1> DEFINE quiet == Later.elapsed < Grace
           window == Window(hot, lag)
           found == Broken(hot, mem, lag)
           sent == Sent(rm.breaches, found)
<1>1. /\ rm \in Monitors /\ rm.hotFor \in Heat /\ rm.base \in Seq(Memory)
      /\ rm.window \in Seq(Reading) /\ rm.breaches \in Seq(Breach)
      /\ Warmup \in Nat /\ Duration \in Nat
      /\ Len(rm.base) \in Nat /\ Len(rm.breaches) \in Nat /\ Len(rm.breaches) <= BreachCap
  BY Durations, WatchersAssumption, LenProperties DEF MonitorInv, Monitors
<1>2. HotFor(hot) \in Heat
  BY <1>1, LaterKeeps DEF HotFor, Heat, Monitors
<1>3. window \in Seq(Reading) /\ Heated(window, HotFor(hot)) /\ Spaced(window)
      /\ Len(window) <= Duration + 1
  <2>1. HotFor(hot) = IF ~hot THEN -1 ELSE IF rm.hotFor = -1 THEN 0
                      ELSE Older(rm.hotFor, Duration + 1)
    BY LaterKeeps DEF HotFor
  <2>2. window = Pruned(Append(Aged(rm.window), [age |-> 0, hot |-> hot]), lag)
    BY LaterKeeps DEF Window
  <2> QED BY <1>1, <1>2, <2>1, <2>2, NextWindow DEF MonitorInv
<1>4. Base(mem) \in Seq(Memory) /\ Len(Base(mem)) <= Warmup
  BY <1>1, AppendProperties DEF Base, MonitorInv
<1>5. found \in Seq(Breach) /\ \A i \in 1..Len(found) : True(found[i], pid)
  <2>1. Sustained(window) => HotFor(hot) >= Duration
    BY <1>2, <1>3, SustainedIsReal
  <2>2. TypeOK
    BY WatchParts DEF WatchInv
  <2> QED BY <1>2, <2>1, <2>2, BrokenTrue
<1> HIDE DEF window, found
<1>6. /\ sent \in Seq(Breach) /\ Len(sent) <= BreachCap
      /\ \A i \in 1..Len(sent) : \/ \E j \in 1..Len(rm.breaches) : sent[i] = rm.breaches[j]
                                 \/ \E j \in 1..Len(found) : sent[i] = found[j]
  BY <1>1, <1>5, SentKnown
<1>7. \A i \in 1..Len(sent) : True(sent[i], pid)
  BY <1>5, <1>6 DEF MonitorInv
<1> HIDE DEF sent
<1>8. /\ rm' = [Later EXCEPT !.first = FALSE, !.base = Base(mem), !.hotFor = HotFor(hot),
                  !.window = IF quiet \/ "cpu" \notin env.limits THEN Later.window ELSE window,
                  !.breaches = IF quiet THEN Later.breaches ELSE sent]
      /\ UNCHANGED <<env, service, pid, alive, monitor, listening, runner>>
  <2>1. Sent(Later.breaches, Broken(hot, mem, lag)) = sent
    BY LaterKeeps DEF sent, found
  <2> QED BY <2>1 DEF Sample, window
<1>9. /\ rm'.base = Base(mem) /\ rm'.hotFor = HotFor(hot)
      /\ rm'.elapsed = Later.elapsed
      /\ rm'.window = IF quiet \/ "cpu" \notin env.limits THEN Later.window ELSE window
      /\ rm'.breaches = IF quiet THEN rm.breaches ELSE sent
  BY <1>8, LaterKeeps DEF Monitors
<1>10. quiet \/ "cpu" \notin env.limits => Later.window = <<>>
  BY LaterKeeps, LaterQuiet DEF MonitorInv
<1>11. rm' \in Monitors
  BY <1>2, <1>3, <1>4, <1>6, <1>8, LaterKeeps DEF Monitors
<1>12. Heated(rm'.window, rm'.hotFor) /\ Spaced(rm'.window) /\ Len(rm'.window) <= Duration + 1
  BY <1>1, <1>3, <1>9, <1>10 DEF Heated, Spaced
<1>13. Quiet'
  BY <1>8, <1>9, <1>10 DEF Quiet
<1>14. MonitorInv'
  BY <1>4, <1>6, <1>7, <1>8, <1>9, <1>11, <1>12, <1>13 DEF MonitorInv
<1>15. RunnerOK'
  BY <1>8 DEF RunnerOK
<1> QED BY <1>14, <1>15

LEMMA TailOf ==
    ASSUME NEW S, NEW q \in Seq(S), q # <<>>
    PROVE  /\ Tail(q) \in Seq(S) /\ Len(Tail(q)) = Len(q) - 1 /\ Len(q) \in Nat
           /\ \A i \in 1..Len(Tail(q)) : Tail(q)[i] = q[i + 1] /\ i + 1 \in 1..Len(q)
BY HeadTailProperties, LenProperties

\* A step of the runner changes the runner alone.
LEMMA CheckKeeps ==
    ASSUME RunnerOK, NEW c \in Checks, NEW well \in BOOLEAN, Check(c, well)
    PROVE  RunnerOK'
<1> DEFINE fails == IF well THEN 0
                    ELSE IF runner.fails[c] = Retries THEN Retries ELSE runner.fails[c] + 1
           reports == fails = Retries /\ Len(runner.failures) < FailureCap
           failures == IF reports THEN Append(runner.failures, pid) ELSE runner.failures
<1>1. /\ runner \in Runners /\ runner.failures \in Seq({0, 1}) /\ pid \in {0, 1}
      /\ runner.fails \in [Checks -> 0..Retries]
      /\ Retries \in Nat /\ FailureCap \in Nat /\ Len(runner.failures) \in Nat
  BY WatchersAssumption, LenProperties DEF RunnerOK, Runners
<1>2. fails \in 0..Retries
  BY <1>1
<1>3. failures \in Seq({0, 1}) /\ Len(failures) <= FailureCap
  <2>1. CASE reports
    BY <1>1, <2>1, AppendProperties
  <2>2. CASE ~reports
    BY <1>1, <2>2 DEF RunnerOK
  <2> QED BY <2>1, <2>2
<1>4. /\ runner' = [runner EXCEPT !.fails[c] = fails, !.healthy = well, !.failures = failures]
      /\ UNCHANGED <<env, service, pid, alive, monitor, listening>>
  BY DEF Check
<1> HIDE DEF fails, failures
<1>5. runner' \in Runners /\ runner'.failures = failures /\ runner'.looping = runner.looping
  BY <1>1, <1>2, <1>3, <1>4 DEF Runners
<1> QED BY <1>3, <1>4, <1>5 DEF RunnerOK

LEMMA WatchNext == WatchInv /\ [Next]_vars => WatchInv'
<1> SUFFICES ASSUME RunnerOK, MonitorInv, [Next]_vars PROVE RunnerOK' /\ MonitorInv'
  BY WatchParts DEF WatchInv, RunnerOK, MonitorInv, TypeOK
<1>0. runner \in Runners /\ rm \in Monitors /\ pid \in {0, 1} /\ env \in Environments
  BY DEF RunnerOK, MonitorInv
<1>1. CASE UNCHANGED vars
  BY <1>1 DEF vars, RunnerOK, MonitorInv, Quiet
<1>2. CASE StartService
  <2>1. rm' \in {NoMonitor, NewMonitor} /\ runner' \in {NoRunner, NewRunner}
    BY <1>2 DEF StartService
  <2>2. MonitorInv'
    BY <2>1, FreshMonitor
  <2>3. RunnerOK'
    BY <1>0, <1>2, <2>1, FreshRunner DEF StartService, RunnerOK
  <2> QED BY <2>2, <2>3
<1>3. CASE Stop \/ Run
  <2>1. runner' \in Runners /\ runner'.failures = runner.failures
        /\ runner'.looping \in {runner.looping, env.checks}
    <3>1. env.checks \in SUBSET Checks
      BY <1>0, WatchersAssumption DEF Environment
    <3> QED BY <1>0, <1>3, <3>1 DEF Stop, Run, Runners
  <2>2. RunnerOK'
    BY <1>3, <2>1 DEF Stop, Run, RunnerOK
  <2> QED BY <1>3, <2>2 DEF Stop, Run, MonitorInv, Quiet
<1>4. CASE Stopped
  <2>1. MonitorInv'
    BY <1>4, FreshMonitor DEF Stopped
  <2>2. RunnerOK'
    BY <1>4, FreshRunner DEF Stopped, RunnerOK
  <2> QED BY <2>1, <2>2
<1>5. ASSUME NEW c \in Checks, LoopEnds(c)
      PROVE  RunnerOK' /\ MonitorInv'
  <2>1. runner' \in Runners /\ runner'.failures = runner.failures
        /\ runner'.looping = runner.looping \ {c}
    BY <1>0, <1>5 DEF LoopEnds, Runners
  <2> QED BY <1>5, <2>1 DEF LoopEnds, RunnerOK, MonitorInv, Quiet
<1>6. ASSUME NEW c \in Checks, NEW well \in BOOLEAN, Check(c, well)
      PROVE  RunnerOK' /\ MonitorInv'
  BY <1>6, CheckKeeps DEF Check, MonitorInv, Quiet
<1>7. ASSUME NEW hot \in BOOLEAN, NEW mem \in Memory, NEW lag \in {0, 1},
             Sample(hot, mem, lag)
      PROVE  RunnerOK' /\ MonitorInv'
  BY <1>7, SampleKeeps
<1>8. CASE SampleFails
  <2>1. /\ rm' \in Monitors /\ rm'.base = rm.base /\ rm'.breaches = rm.breaches
        /\ Len(rm'.window) <= Duration + 1 /\ rm' = Later
        /\ Heated(rm'.window, rm'.hotFor) /\ Spaced(rm'.window)
    BY <1>8, LaterKeeps DEF SampleFails
  <2>2. Quiet'
    BY <1>8, <2>1, LaterQuiet DEF SampleFails, Quiet
  <2> QED BY <1>8, <2>1, <2>2 DEF SampleFails, RunnerOK, MonitorInv
<1>9. CASE Exit \/ OnExit
  BY <1>9 DEF Exit, OnExit, RunnerOK, MonitorInv, Quiet
<1>10. CASE OnBreach
  <2>1. /\ rm' \in Monitors /\ rm'.base = rm.base /\ rm'.window = rm.window
        /\ rm'.hotFor = rm.hotFor /\ rm'.elapsed = rm.elapsed
        /\ rm'.breaches = Tail(rm.breaches)
    BY <1>0, <1>10, TailOf DEF OnBreach, Monitors
  <2>2. rm.breaches \in Seq(Breach) /\ rm.breaches # <<>> /\ BreachCap \in Nat
    BY <1>0, <1>10, WatchersAssumption DEF OnBreach, Monitors
  <2>3. /\ Len(rm'.breaches) <= BreachCap
        /\ \A i \in 1..Len(rm'.breaches) : True(rm'.breaches[i], pid')
    BY <1>10, <2>1, <2>2, TailOf DEF OnBreach, MonitorInv
  <2> QED BY <1>10, <2>1, <2>3 DEF OnBreach, RunnerOK, MonitorInv, Quiet
<1>11. CASE OnFailure
  <2>1. /\ runner' \in Runners /\ runner'.looping = runner.looping
        /\ runner'.failures = Tail(runner.failures)
    BY <1>0, <1>11, TailOf DEF OnFailure, Runners
  <2>2. runner.failures \in Seq({0, 1}) /\ runner.failures # <<>> /\ FailureCap \in Nat
    BY <1>0, <1>11, WatchersAssumption DEF OnFailure, Runners
  <2>3. Len(runner'.failures) <= FailureCap
    BY <2>1, <2>2, TailOf DEF RunnerOK
  <2> QED BY <1>11, <2>1, <2>3 DEF OnFailure, RunnerOK, MonitorInv, Quiet
<1>12. CASE Restart \/ RestartFails
  <2>1. MonitorInv'
    BY <1>12, FreshMonitor DEF Restart, RestartFails
  <2>2. pid' \in {0, 1}
    BY <1>0, <1>12 DEF Restart, RestartFails
  <2>3. RunnerOK'
    BY <1>12, <2>2 DEF Restart, RestartFails, RunnerOK
  <2> QED BY <2>1, <2>3
<1> QED BY <1>1, <1>2, <1>3, <1>4, <1>5, <1>6, <1>7, <1>8, <1>9, <1>10, <1>11, <1>12 DEF Next

\* The watchers of a service keep every variable in its type: no channel holds
\* more than its capacity, and the CPU window no more than the samples of its
\* duration.
THEOREM TypeCorrect == Spec => []TypeOK
<1>1. WatchInv => TypeOK
  BY DEF WatchInv
<1> QED BY <1>1, WatchInit, WatchNext, PTL DEF Spec

\* Every breach in the channel is of the process that runs, or of the last one
\* when none does, and one of the CPU says that it was busy for the whole
\* duration.
THEOREM BreachesCorrect == Spec => []BreachesAreReal
<1>1. WatchInv => BreachesAreReal
  <2> SUFFICES ASSUME WatchInv PROVE BreachesAreReal
    OBVIOUS
  <2>1. DOMAIN rm.breaches = 1..Len(rm.breaches)
    BY LenProperties DEF WatchInv, TypeOK, Monitors
  <2> QED BY <2>1 DEF WatchInv, BreachesAreReal, True
<1> QED BY <1>1, WatchInit, WatchNext, PTL DEF Spec
-----------------------------------------------------------------------------
(* Who watches a running service, and what a stop waits for: the safety    *)
(* halves of AilingIsRestarted and StopReturns.                            *)

\* A service that runs has a monitor goroutine that selects on the channel of
\* its resource monitor, and a runner that was not stopped, with a loop for every
\* check from the moment it is scheduled.
RunningIsWatched ==
    service = "running" =>
        /\ monitor \in {"watching", "waiting"} /\ listening /\ rm.on
        /\ env.checks # {} => /\ runner.stage # "none" /\ ~runner.cancelled
                              /\ runner.stage = "running" => runner.looping = env.checks

\* A stop that came after Run was scheduled waits for no loop that was not told
\* to end.
StopIsTold ==
    (service = "stopping" /\ ~env.late) =>
        runner.stage # "due" /\ (runner.looping # {} => runner.cancelled)

\* What both rest on: there is a monitor goroutine for a running service and for
\* no other, and only Stop cancels a runner.
Attended ==
    /\ monitor # "off" <=> service = "running"
    /\ runner.cancelled => service = "stopping"
    /\ runner.stage # "running" => runner.looping = {}
    /\ RunningIsWatched /\ StopIsTold

\* The wait of a stop gets shorter until it is over: nothing starts a loop of a
\* runner that is waited for, and the service stays locked until none is left.
StopCloses ==
    [][(service = "stopping" /\ ~env.late) =>
          \/ service' = "stopping" /\ runner'.looping \subseteq runner.looping
          \/ service' = "stopped" /\ runner.looping = {}]_vars

\* The failures in a row of a check that always fails never become less while
\* the service runs, whichever processes it has in that time, and a step of the
\* check either counts one more or has counted them all.
FailuresCount ==
    [][(env.ails = "health" /\ service = "running") =>
          \A c \in Checks :
              /\ runner'.fails[c] >= runner.fails[c]
              /\ \A well \in BOOLEAN : Check(c, well) =>
                    runner'.fails[c] > runner.fails[c] \/ runner.fails[c] = Retries]_vars

\* The fields of a runner that only Check, LoopEnds and OnFailure write.
LEMMA RunnerFields ==
    ASSUME RunnerOK
    PROVE  /\ runner.stage \in {"none", "due", "running"} /\ runner.cancelled \in BOOLEAN
           /\ runner.fails \in [Checks -> 0..Retries]
           /\ \A c \in Checks, well \in BOOLEAN : Check(c, well) =>
                 /\ runner'.stage = runner.stage /\ runner'.cancelled = runner.cancelled
                 /\ runner'.looping = runner.looping
                 /\ runner'.fails = [runner.fails EXCEPT ![c] =
                       IF well THEN 0
                       ELSE IF runner.fails[c] = Retries THEN Retries ELSE runner.fails[c] + 1]
           /\ \A c \in Checks : LoopEnds(c) =>
                 /\ runner'.stage = runner.stage /\ runner'.cancelled = runner.cancelled
                 /\ runner'.looping = runner.looping \ {c} /\ runner'.fails = runner.fails
           /\ OnFailure =>
                 /\ runner'.stage = runner.stage /\ runner'.cancelled = runner.cancelled
                 /\ runner'.looping = runner.looping /\ runner'.fails = runner.fails
           /\ Stop =>
                 /\ runner'.stage = runner.stage /\ runner'.looping = runner.looping
                 /\ runner'.cancelled = (runner.stage = "running")
                 /\ runner'.fails = runner.fails
           /\ Run =>
                 /\ runner'.stage = "running" /\ runner'.looping = env.checks
                 /\ runner'.cancelled = runner.cancelled /\ runner'.fails = runner.fails
<1>1. runner \in Runners
  BY DEF RunnerOK
<1>2. /\ runner.stage \in {"none", "due", "running"} /\ runner.cancelled \in BOOLEAN
      /\ runner.fails \in [Checks -> 0..Retries]
  BY <1>1 DEF Runners
<1>3. ASSUME NEW c \in Checks, NEW well \in BOOLEAN, Check(c, well)
      PROVE  /\ runner'.stage = runner.stage /\ runner'.cancelled = runner.cancelled
             /\ runner'.looping = runner.looping
             /\ runner'.fails = [runner.fails EXCEPT ![c] =
                   IF well THEN 0
                   ELSE IF runner.fails[c] = Retries THEN Retries ELSE runner.fails[c] + 1]
  <2> DEFINE n == IF well THEN 0
                  ELSE IF runner.fails[c] = Retries THEN Retries ELSE runner.fails[c] + 1
             q == IF n = Retries /\ Len(runner.failures) < FailureCap
                  THEN Append(runner.failures, pid) ELSE runner.failures
  <2>1. runner' = [runner EXCEPT !.fails[c] = n, !.healthy = well, !.failures = q]
    BY <1>3 DEF Check
  <2> HIDE DEF n, q
  <2>2. /\ runner'.stage = runner.stage /\ runner'.cancelled = runner.cancelled
        /\ runner'.looping = runner.looping
        /\ runner'.fails = [runner.fails EXCEPT ![c] = n]
    BY <1>1, <2>1 DEF Runners
  <2> QED BY <2>2 DEF n
<1>4. ASSUME NEW c \in Checks, LoopEnds(c)
      PROVE  /\ runner'.stage = runner.stage /\ runner'.cancelled = runner.cancelled
             /\ runner'.looping = runner.looping \ {c} /\ runner'.fails = runner.fails
  BY <1>1, <1>4 DEF LoopEnds, Runners
<1>5. OnFailure => /\ runner'.stage = runner.stage /\ runner'.cancelled = runner.cancelled
                   /\ runner'.looping = runner.looping /\ runner'.fails = runner.fails
  BY <1>1 DEF OnFailure, Runners
<1>6. Stop => /\ runner'.stage = runner.stage /\ runner'.looping = runner.looping
              /\ runner'.cancelled = (runner.stage = "running")
              /\ runner'.fails = runner.fails
  BY <1>1 DEF Stop, Runners
<1>7. Run => /\ runner'.stage = "running" /\ runner'.looping = env.checks
             /\ runner'.cancelled = runner.cancelled /\ runner'.fails = runner.fails
  BY <1>1 DEF Run, Runners
<1> QED BY <1>2, <1>3, <1>4, <1>5, <1>6, <1>7

LEMMA FreshStages ==
    /\ NoRunner.stage = "none" /\ NewRunner.stage = "due"
    /\ ~NoRunner.cancelled /\ ~NewRunner.cancelled
    /\ NoRunner.looping = {} /\ NewRunner.looping = {}
    /\ NewMonitor.on = TRUE
<1>1. NoRunner \in Runners /\ NoMonitor \in Monitors
  BY NewRunners, NewMonitors
<1>2. NoRunner.stage = "none" /\ ~NoRunner.cancelled /\ NoRunner.looping = {}
  BY DEF NoRunner
<1>3. NewRunner.stage = "due" /\ ~NewRunner.cancelled /\ NewRunner.looping = {}
  BY <1>1, <1>2 DEF NewRunner, Runners
<1>4. NewMonitor.on = TRUE
  BY <1>1 DEF NewMonitor, Monitors
<1> QED BY <1>2, <1>3, <1>4

LEMMA AttendedInit == Init => Attended
BY FreshStages DEF Init, Attended, RunningIsWatched, StopIsTold

\* What a step does to the resource monitor while the service runs.
LEMMA MonitorStays ==
    ASSUME MonitorInv
    PROVE  /\ \A hot \in BOOLEAN, mem \in Memory, lag \in {0, 1} :
                 Sample(hot, mem, lag) => rm'.on = rm.on
           /\ SampleFails \/ OnBreach => rm'.on = rm.on
<1>1. rm \in Monitors /\ Later \in Monitors /\ Later.on = rm.on
  BY LaterKeeps DEF MonitorInv
<1>2. ASSUME NEW hot \in BOOLEAN, NEW mem \in Memory, NEW lag \in {0, 1},
             Sample(hot, mem, lag)
      PROVE  rm'.on = rm.on
  <2> DEFINE quiet == Later.elapsed < Grace
             w == IF quiet \/ "cpu" \notin env.limits THEN Later.window ELSE Window(hot, lag)
             b == IF quiet THEN Later.breaches ELSE Sent(Later.breaches, Broken(hot, mem, lag))
  <2>1. rm' = [Later EXCEPT !.first = FALSE, !.base = Base(mem), !.hotFor = HotFor(hot),
                  !.window = w, !.breaches = b]
    BY <1>2 DEF Sample
  <2> HIDE DEF w, b
  <2>2. rm'.on = Later.on
    BY <1>1, <2>1 DEF Monitors
  <2> QED BY <1>1, <2>2
<1>3. SampleFails \/ OnBreach => rm'.on = rm.on
  BY <1>1 DEF SampleFails, OnBreach, Monitors
<1> QED BY <1>2, <1>3

LEMMA AttendedNext == WatchInv /\ Attended /\ [Next]_vars => Attended'
<1> SUFFICES ASSUME RunnerOK, MonitorInv, Attended, [Next]_vars PROVE Attended'
  BY WatchParts
<1> USE DEF Attended, RunningIsWatched, StopIsTold
<1>1. CASE UNCHANGED vars
  BY <1>1 DEF vars
<1>2. CASE StartService
  BY <1>2, FreshStages DEF StartService
<1>3. CASE Stop
  <2>1. /\ runner'.stage = runner.stage /\ runner'.looping = runner.looping
        /\ runner'.cancelled = (runner.stage = "running")
        /\ runner.stage \in {"none", "due", "running"}
    BY <1>3, RunnerFields
  <2> QED BY <1>3, <2>1 DEF Stop
<1>4. CASE Stopped
  BY <1>4, FreshStages DEF Stopped
<1>5. CASE Run
  <2>1. /\ runner'.stage = "running" /\ runner'.looping = env.checks
        /\ runner'.cancelled = runner.cancelled /\ runner.stage = "due"
    BY <1>5, RunnerFields DEF Run
  <2> QED BY <1>5, <2>1 DEF Run
<1>6. ASSUME NEW c \in Checks, LoopEnds(c)
      PROVE  Attended'
  <2>1. /\ runner'.stage = runner.stage /\ runner'.cancelled = runner.cancelled
        /\ runner'.looping = runner.looping \ {c} /\ runner.cancelled
    BY <1>6, RunnerFields DEF LoopEnds
  <2> QED BY <1>6, <2>1 DEF LoopEnds
<1>7. ASSUME NEW c \in Checks, NEW well \in BOOLEAN, Check(c, well)
      PROVE  Attended'
  <2>1. /\ runner'.stage = runner.stage /\ runner'.cancelled = runner.cancelled
        /\ runner'.looping = runner.looping
    BY <1>7, RunnerFields
  <2> QED BY <1>7, <2>1 DEF Check
<1>8. ASSUME NEW hot \in BOOLEAN, NEW mem \in Memory, NEW lag \in {0, 1},
             Sample(hot, mem, lag)
      PROVE  Attended'
  <2>1. rm'.on = rm.on
    BY <1>8, MonitorStays
  <2> QED BY <1>8, <2>1 DEF Sample
<1>9. CASE SampleFails \/ OnBreach
  <2>1. rm'.on = rm.on
    BY <1>9, MonitorStays
  <2> QED BY <1>9, <2>1 DEF SampleFails, OnBreach
<1>10. CASE Exit \/ OnExit
  BY <1>10 DEF Exit, OnExit
<1>11. CASE OnFailure
  <2>1. /\ runner'.stage = runner.stage /\ runner'.cancelled = runner.cancelled
        /\ runner'.looping = runner.looping
    BY <1>11, RunnerFields
  <2> QED BY <1>11, <2>1 DEF OnFailure
<1>12. CASE Restart \/ RestartFails
  BY <1>12, FreshStages DEF Restart, RestartFails
<1> QED BY <1>1, <1>2, <1>3, <1>4, <1>5, <1>6, <1>7, <1>8, <1>9, <1>10, <1>11, <1>12 DEF Next

\* What AilingIsRestarted rests on, for any checks, limits and capacities, through
\* crashes, restarts, stops and starts: a service that is shown as running is
\* watched, by a goroutine that hears its resource monitor and takes the reports
\* of its runner.
THEOREM RunningWatchedCorrect == Spec => []RunningIsWatched
<1>1. Attended => RunningIsWatched
  BY DEF Attended
<1> QED BY <1>1, WatchInit, WatchNext, AttendedInit, AttendedNext, PTL DEF Spec

\* What StopReturns rests on: stopService waits, with the service locked, for
\* loops that were all told to end, no new one is started meanwhile, and the
\* stop is over when none is left.
THEOREM StopsAreToldCorrect == Spec => []StopIsTold /\ StopCloses
<1>1. Attended => StopIsTold
  BY DEF Attended
<1>2. ASSUME RunnerOK, Attended, [Next]_vars, service = "stopping", ~env.late
      PROVE  \/ service' = "stopping" /\ runner'.looping \subseteq runner.looping
             \/ service' = "stopped" /\ runner.looping = {}
  <2>0. runner.stage # "due" /\ monitor = "off"
    BY <1>2 DEF Attended, StopIsTold, RunnerOK
  <2>1. CASE UNCHANGED vars
    BY <1>2, <2>1 DEF vars
  <2>2. CASE StartService \/ Stop \/ Run
    BY <1>2, <2>0, <2>2 DEF StartService, Stop, Run
  <2>3. CASE Stopped
    BY <2>3 DEF Stopped
  <2>4. ASSUME NEW c \in Checks, LoopEnds(c) \/ \E well \in BOOLEAN : Check(c, well)
        PROVE  service' = "stopping" /\ runner'.looping \subseteq runner.looping
    BY <1>2, <2>4, RunnerFields DEF LoopEnds, Check
  <2>5. CASE SampleFails \/ Exit \/ \E hot \in BOOLEAN, mem \in Memory, lag \in {0, 1} :
                                        Sample(hot, mem, lag)
    BY <1>2, <2>5 DEF SampleFails, Exit, Sample
  <2>6. CASE OnExit \/ OnBreach \/ OnFailure \/ Restart \/ RestartFails
    BY <2>0, <2>6 DEF OnExit, OnBreach, OnFailure, Restart, RestartFails
  <2> QED BY <1>2, <2>1, <2>2, <2>3, <2>4, <2>5, <2>6 DEF Next
<1>3. WatchInv /\ Attended /\ [Next]_vars =>
        [(service = "stopping" /\ ~env.late) =>
            \/ service' = "stopping" /\ runner'.looping \subseteq runner.looping
            \/ service' = "stopped" /\ runner.looping = {}]_vars
  BY <1>2, WatchParts
<1> QED BY <1>1, <1>3, WatchInit, WatchNext, AttendedInit, AttendedNext, PTL
        DEF Spec, StopCloses

\* The other half of what AilingIsRestarted rests on: nothing that happens while
\* the service runs, a restart included, sets back the count of a check that
\* always fails, so that it is reported after at most Retries more of its steps.
THEOREM FailuresCountCorrect == Spec => FailuresCount
<1> DEFINE Kept(c) == runner'.fails[c] >= runner.fails[c]
           Counts(c) == \A well \in BOOLEAN : Check(c, well) =>
                           runner'.fails[c] > runner.fails[c] \/ runner.fails[c] = Retries
<1>1. ASSUME RunnerOK, MonitorInv, [Next]_vars, env.ails = "health", service = "running",
             NEW c \in Checks
      PROVE  Kept(c) /\ Counts(c)
  <2>1. /\ runner.fails \in [Checks -> 0..Retries] /\ Retries \in Nat
        /\ runner.fails[c] \in 0..Retries
    BY <1>1, RunnerFields, WatchersAssumption
  <2>2. ASSUME NEW d \in Checks, NEW well \in BOOLEAN, Check(d, well)
        PROVE  /\ runner'.fails[c] >= runner.fails[c]
               /\ d = c => runner'.fails[c] > runner.fails[c] \/ runner.fails[c] = Retries
    <3>1. ~well
      BY <1>1, <2>2 DEF Check, Results
    <3>2. runner'.fails = [runner.fails EXCEPT ![d] =
              IF runner.fails[d] = Retries THEN Retries ELSE runner.fails[d] + 1]
      BY <1>1, <2>2, <3>1, RunnerFields
    <3>3. runner.fails[d] \in 0..Retries
      BY <2>1
    <3> QED BY <2>1, <3>2, <3>3
  <2>3. Counts(c)
    BY <2>2
  <2>4. Kept(c)
    <3>1. CASE UNCHANGED runner
      BY <2>1, <3>1
    <3>2. CASE StartService \/ Stopped
      BY <1>1, <3>2 DEF StartService, Stopped
    <3>3. CASE Stop \/ Run \/ OnFailure
      BY <1>1, <2>1, <3>3, RunnerFields
    <3>4. ASSUME NEW d \in Checks, LoopEnds(d) PROVE Kept(c)
      BY <1>1, <2>1, <3>4, RunnerFields
    <3>5. ASSUME NEW d \in Checks, NEW well \in BOOLEAN, Check(d, well) PROVE Kept(c)
      BY <2>2, <3>5
    <3>6. SampleFails \/ Exit \/ OnExit \/ OnBreach \/ Restart \/ RestartFails
              \/ (\E hot \in BOOLEAN, mem \in Memory, lag \in {0, 1} : Sample(hot, mem, lag))
              \/ UNCHANGED vars
            => UNCHANGED runner
      BY DEF SampleFails, Exit, OnExit, OnBreach, Restart, RestartFails, Sample, vars
    <3> QED BY <1>1, <3>1, <3>2, <3>3, <3>4, <3>5, <3>6 DEF Next
  <2> QED BY <2>3, <2>4
<1>2. WatchInv /\ [Next]_vars =>
        [(env.ails = "health" /\ service = "running") =>
            \A c \in Checks :
                /\ runner'.fails[c] >= runner.fails[c]
                /\ \A well \in BOOLEAN : Check(c, well) =>
                      runner'.fails[c] > runner.fails[c] \/ runner.fails[c] = Retries]_vars
  BY <1>1, WatchParts
<1> QED BY <1>2, WatchInit, WatchNext, PTL DEF Spec, FailuresCount
=============================================================================

---------------------------- MODULE RegistryProofs ----------------------------
(***************************************************************************)
(* Proofs about Registry, for any services, definitions, installations and *)
(* circumstances.                                                          *)
(***************************************************************************)
EXTENDS Registry, FiniteSetTheorems, WellFoundedInduction, TLAPS

-----------------------------------------------------------------------------
(* The invariants.                                                         *)

\* The types of everything but the sort.
Typed ==
    /\ may \in Circumstances
    /\ stage \in {"down", "loading", "sorting", "up"}
    /\ files \in [Ids -> Files]
    /\ bucket \in SUBSET Ids
    /\ saved \in [Ids -> States]
    /\ held \in SUBSET Ids
    /\ definition \in [Ids -> Definition]
    /\ state \in [Ids -> States]
    /\ jobs \in [Ids -> [Schedules -> {0, 1}]]
    /\ ticking \in BOOLEAN
    /\ op \in [kind : {"none", "add", "update"}, id : Ids \cup {Unknown},
               at : {"idle", "truncate", "fill", "store", "install"},
               new : Definition, state : States]
    /\ found \in SUBSET Ids
    /\ alive \in SUBSET Ids
    /\ astray \in SUBSET Ids

\* An operation needs a Guardian that is up, and knows how far its file is;
\* before the services are loaded there are none, and before the boot is over
\* none is started.
Orderly ==
    /\ ~Idle => stage = "up" /\ op.kind # "none" /\ op.id \in Ids
    /\ op.at \in {"fill", "store", "install"} => op.id \in astray
    /\ op.at \in {"store", "install"} => files[op.id] = File(op.new)
    /\ stage \in {"down", "loading"} => held = {}
    /\ stage # "up" => found = {}

\* What is held is what the file says, or is written as the file, but for a
\* directory that a start filled in.
Agree(d, y) == d \in HeldAs(ToService(y)) \/ Settled(d) \in HeldAs(ToService(y))

\* A service that is held has the jobs of its definition and, unless it is
\* astray, the file; and what is not held has neither.
Matching ==
    /\ \A i \in Ids : jobs[i] = IF i \in held THEN Added(NoJobs, definition[i]) ELSE NoJobs
    /\ \A i \in held \ astray : files[i].kind = "whole" /\ Agree(definition[i], files[i].yaml)
    /\ stage \in {"sorting", "up"} =>
          \A i \in Ids \ (held \cup astray) : files[i].kind = "absent"

\* Where operations and starts do not overlap, state, process and store agree,
\* and an operation has the state that it will install.
Truthful ==
    (~may.overlaps /\ ~may.crashes) =>
        /\ alive \subseteq held /\ found \subseteq held
        /\ \A i \in held : state[i] = "running" <=> i \in alive
        /\ \A i \in Ids : saved[i] = "running" => i \in alive
        /\ ~Idle => /\ op.kind = "update" => op.id \in held /\ op.state = state[op.id]
                    /\ op.kind = "add" => op.id \notin held /\ op.state = "stopped"

DefinitionInv == Typed /\ Orderly /\ Matching /\ Truthful

\* What a sequence holds, each service once.
Members(seq) == {seq[j] : j \in DOMAIN seq}
Once(seq) == \A j, k \in DOMAIN seq : seq[j] = seq[k] => j = k

\* A degree is the number of dependencies that are not sorted yet; the services
\* without any are queued or sorted, each once, and whatever is sorted comes
\* after what it needs.
Counted ==
    /\ sort.degree \in [Ids -> Nat]
    /\ sort.queue \in Seq(held) /\ sort.sorted \in Seq(held)
    /\ Once(sort.queue) /\ Once(sort.sorted)
    /\ Members(sort.queue) \cap Members(sort.sorted) = {}
    /\ \A i \in Ids : sort.degree[i] = IF i \in held
                                       THEN Cardinality(Needs(i) \ Members(sort.sorted))
                                       ELSE 0
    /\ \A i \in held : sort.degree[i] = 0
                         <=> i \in Members(sort.queue) \cup Members(sort.sorted)
    /\ \A k \in DOMAIN sort.sorted : \A n \in Needs(sort.sorted[k]) :
          \E j \in DOMAIN sort.sorted : j < k /\ sort.sorted[j] = n
    /\ sort.result = IF sort.queue # <<>> THEN "none"
                     ELSE IF Len(sort.sorted) = Cardinality(held) THEN "sorted"
                     ELSE "cycle"

SortInv ==
    /\ DOMAIN sort = {"degree", "queue", "sorted", "result"}
    /\ sort = NoSort \/ (stage = "sorting" /\ Counted)

RegistryInv == DefinitionInv /\ SortInv

-----------------------------------------------------------------------------
(* Sizes.                                                                  *)

\* A thousand is more than two.
LEMMA Kilos == Kilo \in Nat /\ Kilo >= 3
BY RegistryAssumption, Z3

\* Products with it grow.
LEMMA Products == ASSUME NEW n \in Nat, n > 0
                  PROVE  Kilo * n \in Nat /\ n * Kilo \in Nat /\ n * Kilo = Kilo * n /\ n * Kilo >= 3 * n
BY Kilos, SMTT(20)

\* Each unit is a thousand times the one before.
LEMMA Units ==
    /\ Unit(0) = 1
    /\ \A u \in 0..4 : Unit(u) \in Nat /\ Unit(u) > 0
    /\ \A u \in 0..3 : Unit(u + 1) = Kilo * Unit(u) /\ Unit(u + 1) >= 3 * Unit(u)
<1> DEFINE mb == Kilo * Kilo
           gb == mb * Kilo
           tb == gb * Kilo
<1>1. Kilo \in Nat /\ Kilo >= 3
  BY Kilos
<1>2. mb \in Nat /\ mb = Kilo * Kilo /\ mb >= 3 * Kilo
  BY <1>1, Products
<1>3. gb \in Nat /\ gb = Kilo * mb /\ gb >= 3 * mb
  BY <1>1, <1>2, Products
<1>4. tb \in Nat /\ tb = Kilo * gb /\ tb >= 3 * gb
  BY <1>1, <1>2, <1>3, Products
<1>5. /\ Unit(0) = 1 /\ Unit(1) = Kilo /\ Unit(2) = mb /\ Unit(3) = gb /\ Unit(4) = tb
  BY DEF Unit
<1> HIDE DEF mb, gb, tb
<1>6. 0..4 = {0, 1, 2, 3, 4} /\ 0..3 = {0, 1, 2, 3}
  OBVIOUS
<1>7. \A u \in 0..4 : Unit(u) \in Nat /\ Unit(u) > 0
  BY <1>1, <1>2, <1>3, <1>4, <1>5, <1>6
<1>8. /\ Unit(0 + 1) = Kilo * Unit(0) /\ Unit(1 + 1) = Kilo * Unit(1)
      /\ Unit(2 + 1) = Kilo * Unit(2) /\ Unit(3 + 1) = Kilo * Unit(3)
  BY <1>1, <1>2, <1>3, <1>4, <1>5
<1>9. /\ Unit(0 + 1) >= 3 * Unit(0) /\ Unit(1 + 1) >= 3 * Unit(1)
      /\ Unit(2 + 1) >= 3 * Unit(2) /\ Unit(3 + 1) >= 3 * Unit(3)
  BY <1>1, <1>2, <1>3, <1>4, <1>5
<1> QED BY <1>5, <1>6, <1>7, <1>8, <1>9

\* A quotient is known by its remainder.
LEMMA Quotient ==
    ASSUME NEW n \in Nat, NEW d \in Nat, d > 0, NEW q \in Nat, NEW r \in Nat,
           n = d * q + r, r < d
    PROVE  n \div d = q /\ n % d = r
<1>1. n \div d = q
  BY SMTT(30)
<1>2. n % d = r
  BY SMTT(30)
<1> QED BY <1>1, <1>2

\* Tenths are whole numbers and a rest.
LEMMA Tenths ==
    ASSUME NEW n \in Nat
    PROVE  /\ n \div 10 \in Nat /\ n % 10 \in 0..9
           /\ n = 10 * (n \div 10) + (n % 10)
<1>1. n \div 10 \in Nat
  BY SMT
<1>2. n % 10 \in 0..9
  BY SMT
<1>3. n = 10 * (n \div 10) + (n % 10)
  BY SMT
<1> QED BY <1>1, <1>2, <1>3

\* Rounding yields the quotient or the next number.
LEMMA RoundedType ==
    ASSUME NEW n \in Nat, NEW d \in Nat, d > 0
    PROVE  Rounded(n, d) \in Nat /\ (n >= d => Rounded(n, d) >= 1)
<1>1. n \div d \in Nat
  BY SMT
<1>2. n >= d => n \div d >= 1
  BY SMTT(30)
<1> DEFINE p == n \div d
<1>3. p \in Nat /\ (n >= d => p >= 1)
  BY <1>1, <1>2
<1>4. Rounded(n, d) = p \/ Rounded(n, d) = p + 1
  BY DEF Rounded
<1> HIDE DEF p
<1> QED BY <1>3, <1>4

\* A size of whole units, and one of tenths that were cut, are rounded to what
\* they were.
LEMMA RoundedWhole ==
    ASSUME NEW d \in Nat, d > 0, NEW q \in Nat
    PROVE  Rounded(d * q, d) = q
<1>1. d * q \in Nat /\ d * q = d * q + 0
  BY SMT
<1>2. (d * q) \div d = q /\ (d * q) % d = 0
  BY <1>1, Quotient
<1> QED BY <1>2 DEF Rounded

LEMMA RoundedTenths ==
    ASSUME NEW d \in Nat, d >= 27, NEW t \in Nat
    PROVE  Rounded(10 * ((t * d) \div 10), d) = t
<1> DEFINE m == (t * d) \div 10
           r == (t * d) % 10
<1>1. t * d \in Nat
  BY SMT
<1>2. m \in Nat /\ r \in 0..9 /\ t * d = 10 * m + r
  BY <1>1, Tenths
<1> HIDE DEF m, r
<1>3. CASE r = 0
  <2>1. 10 * m = d * t
    BY <1>2, <1>3, SMT
  <2>2. Rounded(d * t, d) = t
    BY RoundedWhole
  <2>3. Rounded(10 * m, d) = t
    BY <2>1, <2>2
  <2> QED BY <2>3 DEF m
<1>4. CASE r > 0 /\ t > 0
  <2>1. d * (t - 1) = d * t - d
    BY SMT
  <2>2. 10 * m = d * (t - 1) + (d - r) /\ d - r \in Nat /\ d - r < d /\ t - 1 \in Nat
    BY <1>2, <1>4, <2>1, SMT
  <2>3. (10 * m) \div d = t - 1 /\ (10 * m) % d = d - r
    BY <1>2, <2>2, Quotient
  <2>4. Rounded(10 * m, d) = (t - 1) + 1
    BY <1>2, <1>4, <2>3 DEF Rounded
  <2> QED BY <2>4 DEF m
<1>5. CASE r > 0 /\ t = 0
  <2>1. t * d = 0
    BY <1>5, SMT
  <2> QED BY <1>2, <1>5, <2>1
<1>6. r = 0 \/ (r > 0 /\ (t > 0 \/ t = 0))
  BY <1>2
<1> QED BY <1>3, <1>4, <1>5, <1>6

\* A size has a unit that fits.
LEMMA UnitFound ==
    ASSUME NEW b \in Nat, b > 0
    PROVE  \E u \in 0..4 : /\ Unit(u) <= b
                           /\ u < 4 => b < Unit(u + 1)
<1>1. \/ b < Unit(1) \/ (Unit(1) <= b /\ b < Unit(2)) \/ (Unit(2) <= b /\ b < Unit(3))
      \/ (Unit(3) <= b /\ b < Unit(4)) \/ Unit(4) <= b
  BY Units
<1>2. CASE b < Unit(1)
  <2> WITNESS 0 \in 0..4
  <2> QED BY <1>2, Units
<1>3. CASE Unit(1) <= b /\ b < Unit(2)
  <2> WITNESS 1 \in 0..4
  <2> QED BY <1>3
<1>4. CASE Unit(2) <= b /\ b < Unit(3)
  <2> WITNESS 2 \in 0..4
  <2> QED BY <1>4
<1>5. CASE Unit(3) <= b /\ b < Unit(4)
  <2> WITNESS 3 \in 0..4
  <2> QED BY <1>5
<1>6. CASE Unit(4) <= b
  <2> WITNESS 4 \in 0..4
  <2> QED BY <1>6
<1> QED BY <1>1, <1>2, <1>3, <1>4, <1>5, <1>6

\* The unit is the only one that fits.
LEMMA UnitUnique ==
    ASSUME NEW b \in Nat, NEW u \in 0..4, NEW v \in 0..4,
           Unit(u) <= b, u < 4 => b < Unit(u + 1),
           Unit(v) <= b, v < 4 => b < Unit(v + 1)
    PROVE  u = v
<1>1. \A x, y \in 0..4 : x <= y => Unit(x) <= Unit(y)
  <2>1. /\ Unit(0) <= Unit(1) /\ Unit(1) <= Unit(2) /\ Unit(2) <= Unit(3) /\ Unit(3) <= Unit(4)
        /\ \A x \in 0..4 : Unit(x) \in Nat
    <3>1. \A x \in 0..3 : Unit(x) <= Unit(x + 1)
      BY Units
    <3>2. Unit(0) <= Unit(0 + 1) /\ Unit(1) <= Unit(1 + 1) /\ Unit(2) <= Unit(2 + 1) /\ Unit(3) <= Unit(3 + 1)
      BY <3>1
    <3> QED BY <3>2, Units
  <2>2. 0..4 = {0, 1, 2, 3, 4}
    OBVIOUS
  <2> QED BY <2>1, <2>2
<1>2. u < v => Unit(u + 1) <= Unit(v)
  BY <1>1
<1>3. v < u => Unit(v + 1) <= Unit(u)
  BY <1>1
<1> QED BY <1>2, <1>3, Units

\* What is less than a bound is rounded to no more than it.
LEMMA RoundedBounds ==
    ASSUME NEW n \in Nat, NEW d \in Nat, d > 0, NEW k \in Nat
    PROVE  /\ Rounded(n, d) \in Nat
           /\ n >= d * k => Rounded(n, d) >= k
           /\ n < d * k => Rounded(n, d) <= k
<1> DEFINE p == n \div d
<1>1. p \in Nat
  BY SMT
<1>2. n >= d * k => p >= k
  BY SMTT(30)
<1>3. n < d * k => p < k
  BY SMTT(30)
<1>4. Rounded(n, d) = p \/ Rounded(n, d) = p + 1
  BY DEF Rounded
<1> HIDE DEF p
<1> QED BY <1>1, <1>2, <1>3, <1>4

\* How a size is written in the unit that fits.
LEMMA FormatOf ==
    ASSUME NEW b \in Nat, b > 0, NEW u \in 0..4,
           Unit(u) <= b, u < 4 => b < Unit(u + 1)
    PROVE  FormatByteSize(b) = [tenths |-> IF u >= 3 THEN Rounded(10 * b, Unit(u))
                                                     ELSE 10 * Rounded(b, Unit(u)),
                                unit |-> u]
<1> DEFINE v == CHOOSE v \in 0..4 : /\ Unit(v) <= b
                                    /\ v < 4 => b < Unit(v + 1)
<1>1. v \in 0..4 /\ Unit(v) <= b /\ (v < 4 => b < Unit(v + 1))
  BY UnitFound
<1>2. FormatByteSize(b) = [tenths |-> IF v >= 3 THEN Rounded(10 * b, Unit(v))
                                                ELSE 10 * Rounded(b, Unit(v)),
                           unit |-> v]
  BY DEF FormatByteSize
<1> HIDE DEF v
<1>3. v = u
  BY <1>1, UnitUnique
<1> QED BY <1>2, <1>3

\* Nothing is written and read as nothing.
LEMMA FormatNothing == /\ FormatByteSize(0) = [tenths |-> 0, unit |-> 0]
                       /\ ParseByteSize([tenths |-> 0, unit |-> 0]) = 0
<1>1. FormatByteSize(0) = [tenths |-> 0, unit |-> 0]
  BY DEF FormatByteSize
<1>2. 0 * Unit(0) = 0 /\ 0 \div 10 = 0
  BY Units
<1> QED BY <1>1, <1>2 DEF ParseByteSize

\* What is written in a unit that fits is read, and written again, as it is.
Fits(t, u) == /\ t \in Nat /\ u \in 0..4 /\ t >= 10
              /\ u < 3 => \E q \in Nat : t = 10 * q
              /\ u < 4 => t < 10 * Kilo

\* A whole number of a unit is read as that many.
LEMMA ParseWhole ==
    ASSUME NEW q \in Nat, NEW u \in 0..4
    PROVE  ParseByteSize([tenths |-> 10 * q, unit |-> u]) = Unit(u) * q
<1> DEFINE U == Unit(u)
<1>1. U \in Nat
  BY Units
<1>2. ParseByteSize([tenths |-> 10 * q, unit |-> u]) = ((10 * q) * U) \div 10
  BY DEF ParseByteSize
<1> HIDE DEF U
<1>3. (10 * q) * U = 10 * (U * q) + 0 /\ U * q \in Nat /\ (10 * q) * U \in Nat
  BY <1>1, SMT
<1>4. ((10 * q) * U) \div 10 = U * q
  BY <1>3, Quotient
<1> QED BY <1>2, <1>4 DEF U

LEMMA FormatParsed ==
    ASSUME NEW t, NEW u, Fits(t, u)
    PROVE  /\ ParseByteSize([tenths |-> t, unit |-> u]) \in Nat \ {0}
           /\ FormatByteSize(ParseByteSize([tenths |-> t, unit |-> u]))
                = [tenths |-> t, unit |-> u]
<1> DEFINE U == Unit(u)
           m == ParseByteSize([tenths |-> t, unit |-> u])
<1>1. U \in Nat /\ U > 0 /\ (u < 4 => Unit(u + 1) = Kilo * U)
  BY Units DEF Fits
<1>2. CASE u < 3
  <2>1. PICK q \in Nat : t = 10 * q
    BY <1>2 DEF Fits
  <2>2. q >= 1 /\ q < Kilo
    BY <1>2, <2>1, Kilos DEF Fits
  <2>3. m = U * q
    BY <2>1, ParseWhole DEF Fits
  <2> HIDE DEF U, m
  <2>4. U * q \in Nat /\ U * q >= U /\ U * q < Kilo * U
    <3>1. U * q \in Nat /\ U * q >= U
      BY <1>1, <2>2, SMT
    <3>2. PICK x \in Nat : Kilo = q + 1 + x
      <4>1. Kilo - q - 1 \in Nat /\ Kilo = q + 1 + (Kilo - q - 1)
        BY <2>2, Kilos
      <4> QED BY <4>1
    <3>3. Kilo * U = U * q + U + x * U /\ x * U \in Nat
      BY <1>1, <3>2, SMT
    <3> QED BY <1>1, <3>1, <3>3
  <2>5. Rounded(m, U) = q
    BY <1>1, <2>3, RoundedWhole
  <2>6. u \in 0..4 /\ m \in Nat /\ m > 0 /\ Unit(u) <= m /\ (u < 4 => m < Unit(u + 1))
    BY <1>1, <2>3, <2>4 DEF U, Fits
  <2>7. FormatByteSize(m) = [tenths |-> 10 * Rounded(m, U), unit |-> u]
    BY <1>2, <2>6, FormatOf DEF U
  <2> QED BY <2>1, <2>5, <2>6, <2>7 DEF m
<1>3. CASE u >= 3
  <2>1. U >= 27
    <3>1. Unit(0) = 1 /\ Unit(1) >= 3 /\ Unit(2) >= 9 /\ Unit(3) >= 27 /\ Unit(4) >= 27
      <4>1. /\ Unit(0 + 1) >= 3 * Unit(0) /\ Unit(1 + 1) >= 3 * Unit(1)
            /\ Unit(2 + 1) >= 3 * Unit(2) /\ Unit(3 + 1) >= 3 * Unit(3)
        BY Units
      <4>2. Unit(1) \in Nat /\ Unit(2) \in Nat /\ Unit(3) \in Nat /\ Unit(4) \in Nat
        BY Units
      <4> QED BY <4>1, <4>2, Units
    <3>2. u = 3 \/ u = 4
      BY <1>3 DEF Fits
    <3> QED BY <3>1, <3>2
  <2>2. m = (t * U) \div 10
    BY DEF ParseByteSize
  <2>3. t \in Nat /\ t >= 10 /\ u \in 0..4 /\ (u < 4 => t < 10 * Kilo)
    BY DEF Fits
  <2>4. Rounded(10 * m, U) = t
    <3> HIDE DEF U, m
    <3>1. Rounded(10 * ((t * U) \div 10), U) = t
      BY <1>1, <2>1, <2>3, RoundedTenths
    <3> QED BY <2>2, <3>1
  <2> HIDE DEF U, m
  <2>5. t * U \in Nat /\ t * U >= 10 * U
    BY <1>1, <2>3, SMT
  <2>6. m \in Nat /\ t * U = 10 * m + ((t * U) % 10) /\ (t * U) % 10 \in 0..9
    BY <2>2, <2>5, Tenths
  <2>7. m >= U
    BY <1>1, <2>5, <2>6
  <2>8. u < 4 => m < Kilo * U
    <3>1. SUFFICES ASSUME u < 4 PROVE m < Kilo * U
      OBVIOUS
    <3>2. PICK x \in Nat : 10 * Kilo = t + 1 + x
      <4>1. 10 * Kilo - t - 1 \in Nat /\ 10 * Kilo = t + 1 + (10 * Kilo - t - 1)
        BY <2>3, <3>1, Kilos
      <4> QED BY <4>1
    <3>3. 10 * (Kilo * U) = t * U + U + x * U /\ x * U \in Nat
      <4>1. 10 * (Kilo * U) = (10 * Kilo) * U
        BY <1>1, Kilos, SMT
      <4>2. (t + 1 + x) * U = t * U + U + x * U /\ x * U \in Nat
        BY <1>1, <2>3, SMT
      <4> QED BY <3>2, <4>1, <4>2
    <3> DEFINE A == t * U
               B == Kilo * U
               C == x * U
    <3>4. B \in Nat /\ C \in Nat /\ A \in Nat /\ 10 * B = A + U + C
      BY <1>1, <2>5, <3>3, Kilos, SMT
    <3>5. A = 10 * m + (A % 10) /\ A % 10 \in 0..9
      BY <2>6
    <3> HIDE DEF A, B, C
    <3>6. m < B
      BY <1>1, <2>6, <3>4, <3>5
    <3> QED BY <3>6 DEF B
  <2>9. m > 0 /\ Unit(u) <= m /\ (u < 4 => m < Unit(u + 1))
    BY <1>1, <2>6, <2>7, <2>8 DEF U
  <2>10. FormatByteSize(m) = [tenths |-> Rounded(10 * m, U), unit |-> u]
    BY <1>3, <2>3, <2>6, <2>9, FormatOf DEF U
  <2> QED BY <2>4, <2>6, <2>9, <2>10 DEF m
<1>4. u < 3 \/ u >= 3
  BY DEF Fits
<1> QED BY <1>2, <1>3, <1>4

\* A size that was rounded up to the next unit.
LEMMA FormatCarried ==
    ASSUME NEW u \in 0..3
    PROVE  /\ ParseByteSize([tenths |-> 10 * Kilo, unit |-> u])
                = ParseByteSize([tenths |-> 10, unit |-> u + 1])
           /\ Fits(10, u + 1)
<1>0. \A q \in Nat, v \in 0..4 : ParseByteSize([tenths |-> 10 * q, unit |-> v]) = Unit(v) * q
  BY ParseWhole
<1>1. ParseByteSize([tenths |-> 10 * Kilo, unit |-> u]) = Unit(u) * Kilo
  <2>1. Kilo \in Nat /\ u \in 0..4
    BY Kilos
  <2> QED BY <1>0, <2>1, Zenon
<1>2. ParseByteSize([tenths |-> 10 * 1, unit |-> u + 1]) = Unit(u + 1) * 1
  <2>1. 1 \in Nat /\ u + 1 \in 0..4
    OBVIOUS
  <2> QED BY <1>0, <2>1, Zenon
<1>3. Unit(u) * Kilo = Unit(u + 1) * 1
  BY Units, Kilos, SMT
<1>4. 10 * 1 = 10
  OBVIOUS
<1>5. Fits(10, u + 1)
  BY Kilos DEF Fits
<1> QED BY <1>1, <1>2, <1>3, <1>4, <1>5

\* What a size is written as fits, or was carried.
LEMMA FormatFits ==
    ASSUME NEW b \in Nat, b > 0
    PROVE  \E t \in Nat, u \in 0..4 :
              /\ FormatByteSize(b) = [tenths |-> t, unit |-> u]
              /\ Fits(t, u) \/ (u < 4 /\ t = 10 * Kilo)
<1>1. PICK u \in 0..4 : Unit(u) <= b /\ (u < 4 => b < Unit(u + 1))
  BY UnitFound
<1> DEFINE U == Unit(u)
<1>2. U \in Nat /\ U > 0 /\ U <= b /\ (u < 4 => b < Kilo * U)
  BY <1>1, Units
<1>3. FormatByteSize(b) = [tenths |-> IF u >= 3 THEN Rounded(10 * b, U)
                                                ELSE 10 * Rounded(b, U),
                           unit |-> u]
  BY <1>1, FormatOf
<1> HIDE DEF U
<1>4. CASE u < 3
  <2> DEFINE q == Rounded(b, U)
  <2>1. q \in Nat /\ q >= 1
    BY <1>2, RoundedType
  <2>2. b < U * Kilo
    BY <1>2, <1>4, Kilos, SMT
  <2>3. q <= Kilo
    BY <1>2, <2>2, Kilos, RoundedBounds
  <2>4. FormatByteSize(b) = [tenths |-> 10 * q, unit |-> u]
    BY <1>3, <1>4
  <2> HIDE DEF q
  <2>5. Fits(10 * q, u) \/ (u < 4 /\ 10 * q = 10 * Kilo)
    BY <1>4, <2>1, <2>3, Kilos DEF Fits
  <2> QED BY <2>1, <2>4, <2>5
<1>5. CASE u >= 3
  <2> DEFINE t == Rounded(10 * b, U)
  <2>1. 10 * b \in Nat /\ 10 * b >= U * 10
    BY <1>2
  <2>2. t \in Nat /\ t >= 10
    BY <1>2, <2>1, RoundedBounds
  <2>3. u < 4 => 10 * b < U * (10 * Kilo)
    BY <1>2, Kilos, SMT
  <2>4. u < 4 => t <= 10 * Kilo
    <3>1. 10 * Kilo \in Nat
      BY Kilos
    <3> QED BY <1>2, <2>1, <2>3, <3>1, RoundedBounds
  <2>5. FormatByteSize(b) = [tenths |-> t, unit |-> u]
    BY <1>3, <1>5
  <2> HIDE DEF t
  <2>6. Fits(t, u) \/ (u < 4 /\ t = 10 * Kilo)
    BY <1>5, <2>2, <2>4, Kilos DEF Fits
  <2> QED BY <2>2, <2>5, <2>6
<1> QED BY <1>4, <1>5

\* A size that was written and read is written and read as it is.
LEMMA SizesSettle ==
    ASSUME NEW b \in Nat
    PROVE  /\ ParseByteSize(FormatByteSize(b)) \in Nat
           /\ b > 0 => ParseByteSize(FormatByteSize(b)) > 0
           /\ ParseByteSize(FormatByteSize(ParseByteSize(FormatByteSize(b))))
                = ParseByteSize(FormatByteSize(b))
<1>1. CASE b = 0
  BY <1>1, FormatNothing
<1>2. CASE b > 0
  <2>1. PICK t \in Nat, u \in 0..4 : /\ FormatByteSize(b) = [tenths |-> t, unit |-> u]
                                     /\ Fits(t, u) \/ (u < 4 /\ t = 10 * Kilo)
    BY <1>2, FormatFits
  <2>2. CASE Fits(t, u)
    BY <2>1, <2>2, FormatParsed
  <2>3. CASE u < 4 /\ t = 10 * Kilo
    <3>1. u \in 0..3
      BY <2>3
    <3>2. ParseByteSize(FormatByteSize(b)) = ParseByteSize([tenths |-> 10, unit |-> u + 1])
      BY <2>1, <2>3, <3>1, FormatCarried
    <3>3. Fits(10, u + 1)
      BY <3>1, FormatCarried
    <3> QED BY <3>2, <3>3, FormatParsed
  <2> QED BY <2>1, <2>2, <2>3
<1> QED BY <1>1, <1>2

-----------------------------------------------------------------------------
(* Definitions.                                                            *)

\* What YAML does to limits.
SettledLimits(l) ==
    IF HasAnyLimit(l)
    THEN [l EXCEPT !.memory = ParseByteSize(FormatByteSize(@))]
    ELSE [threshold |-> 0, interval |-> 0, memory |-> 0]

\* Limits that were written and read are written and read as they are.
LEMMA LimitsSettle ==
    ASSUME NEW l \in Limits
    PROVE  /\ SettledLimits(l) \in Limits
           /\ SettledLimits(SettledLimits(l)) = SettledLimits(l)
<1> DEFINE m == ParseByteSize(FormatByteSize(l.memory))
<1>1. /\ m \in Nat /\ (l.memory > 0 => m > 0) /\ (l.memory = 0 => m = 0)
      /\ ParseByteSize(FormatByteSize(m)) = m
  BY SizesSettle, FormatNothing DEF Limits
<1> HIDE DEF m
<1>2. l = [threshold |-> l.threshold, interval |-> l.interval, memory |-> l.memory]
      /\ l.threshold \in {0, 1} /\ l.interval \in {0, 1} /\ l.memory \in Nat
  BY DEF Limits
<1>3. CASE HasAnyLimit(l)
  <2> DEFINE s == [threshold |-> l.threshold, interval |-> l.interval, memory |-> m]
  <2>1. SettledLimits(l) = s
    BY <1>2, <1>3 DEF SettledLimits, m
  <2>2. HasAnyLimit(s)
    BY <1>1, <1>2, <1>3 DEF HasAnyLimit
  <2>3. SettledLimits(s) = [s EXCEPT !.memory = ParseByteSize(FormatByteSize(m))]
    BY <2>2 DEF SettledLimits
  <2>4. SettledLimits(s) = s
    BY <1>1, <2>3
  <2> QED BY <1>1, <1>2, <2>1, <2>4 DEF Limits
<1>4. CASE ~HasAnyLimit(l)
  <2> DEFINE s == [threshold |-> 0, interval |-> 0, memory |-> 0]
  <2>1. SettledLimits(l) = s
    BY <1>4 DEF SettledLimits
  <2>2. ~HasAnyLimit(s)
    BY DEF HasAnyLimit
  <2> QED BY <2>1, <2>2 DEF SettledLimits, Limits
<1> QED BY <1>3, <1>4

\* The fields of a definition that was written and read.
LEMMA SettledIs ==
    ASSUME NEW d
    PROVE  Settled(d) =
             [password    |-> d.password,
              interpreter |-> "",
              delay       |-> IF d.delay <= 0 THEN 0 ELSE d.delay,
              hook        |-> IF d.hook = "" THEN "continue" ELSE d.hook,
              limits      |-> SettledLimits(d.limits), dir |-> d.dir,
              schedules   |-> d.schedules, needs |-> d.needs, auto |-> d.auto]
<1> DEFINE y == ServiceToYAML(d)
<1>1. /\ y.password = d.password /\ y.delay = (IF d.delay <= 0 THEN 0 ELSE d.delay)
      /\ y.hook = d.hook /\ y.dir = d.dir /\ y.schedules = d.schedules /\ y.needs = d.needs /\ y.auto = d.auto
      /\ y.limits = IF HasAnyLimit(d.limits)
                    THEN [d.limits EXCEPT !.memory = FormatByteSize(@)]
                    ELSE NoLimits
  BY DEF ServiceToYAML
<1>2. [y.limits EXCEPT !.memory = ParseByteSize(@)] = SettledLimits(d.limits)
  <2>1. CASE HasAnyLimit(d.limits)
    <3> DEFINE l == d.limits
               w == [l EXCEPT !.memory = FormatByteSize(@)]
    <3>1. DOMAIN w = DOMAIN l
      OBVIOUS
    <3>2. "memory" \in DOMAIN l => w.memory = FormatByteSize(l.memory)
      OBVIOUS
    <3>3. [w EXCEPT !.memory = ParseByteSize(@)] = [l EXCEPT !.memory = ParseByteSize(FormatByteSize(@))]
      BY <3>1, <3>2
    <3> QED BY <1>1, <2>1, <3>3 DEF SettledLimits
  <2>2. CASE ~HasAnyLimit(d.limits)
    <3>1. y.limits = [threshold |-> 0, interval |-> 0, memory |-> [tenths |-> 0, unit |-> 0]]
      BY <1>1, <2>2 DEF NoLimits
    <3>2. [y.limits EXCEPT !.memory = ParseByteSize(@)]
            = [threshold |-> 0, interval |-> 0, memory |-> ParseByteSize([tenths |-> 0, unit |-> 0])]
      BY <3>1
    <3> QED BY <2>2, <3>2, FormatNothing DEF SettledLimits
  <2> QED BY <2>1, <2>2
<1> HIDE DEF y
<1>3. Settled(d) = ToService(y)
  BY DEF Settled, y
<1> QED BY <1>1, <1>2, <1>3 DEF ToService

\* A definition is made of its fields.
LEMMA Fields ==
    ASSUME NEW d \in Definition
    PROVE  /\ d = [password |-> d.password, interpreter |-> d.interpreter,
                   delay |-> d.delay, hook |-> d.hook, limits |-> d.limits, dir |-> d.dir,
                   schedules |-> d.schedules, needs |-> d.needs, auto |-> d.auto]
           /\ d.password \in Nat /\ d.interpreter \in {"", "cmd"}
           /\ d.delay \in Int /\ d.hook \in Hooks /\ d.limits \in Limits
           /\ d.dir \in Dirs /\ d.schedules \in SUBSET Schedules
           /\ d.needs \in SUBSET (Ids \cup {Unknown}) /\ d.auto \in BOOLEAN
BY DEF Definition

LEMMA MadeOf ==
    ASSUME NEW password \in Nat, NEW interpreter \in {"", "cmd"}, NEW delay \in Int,
           NEW hook \in Hooks, NEW limits \in Limits, NEW dir \in Dirs,
           NEW schedules \in SUBSET Schedules, NEW needs \in SUBSET (Ids \cup {Unknown}), NEW auto \in BOOLEAN
    PROVE  [password |-> password, interpreter |-> interpreter, delay |-> delay,
            hook |-> hook, limits |-> limits, dir |-> dir, schedules |-> schedules,
            needs |-> needs, auto |-> auto] \in Definition
BY DEF Definition

\* A definition without its interpreter.
LEMMA Emptied ==
    ASSUME NEW d \in Definition
    PROVE  /\ [d EXCEPT !.interpreter = ""] =
                [password |-> d.password, interpreter |-> "", delay |-> d.delay,
                 hook |-> d.hook, limits |-> d.limits, dir |-> d.dir,
                 schedules |-> d.schedules, needs |-> d.needs, auto |-> d.auto]
           /\ d.interpreter = "" => [d EXCEPT !.interpreter = ""] = d
<1> DEFINE x == [d EXCEPT !.interpreter = ""]
<1>1. /\ x \in Definition
      /\ x.password = d.password /\ x.interpreter = "" /\ x.delay = d.delay
      /\ x.hook = d.hook /\ x.limits = d.limits /\ x.dir = d.dir
      /\ x.schedules = d.schedules /\ x.needs = d.needs /\ x.auto = d.auto
  BY DEF Definition
<1> HIDE DEF x
<1>2. x = [password |-> d.password, interpreter |-> "", delay |-> d.delay,
           hook |-> d.hook, limits |-> d.limits, dir |-> d.dir,
           schedules |-> d.schedules, needs |-> d.needs, auto |-> d.auto]
  BY <1>1, Fields
<1>3. d.interpreter = "" => x = d
  BY <1>2, Fields
<1> QED BY <1>2, <1>3 DEF x

\* The fields that are written otherwise than they are.
LEMMA Adjusted ==
    ASSUME NEW delay \in Int, NEW hook \in Hooks
    PROVE  /\ (IF delay <= 0 THEN 0 ELSE delay) \in Nat
           /\ delay >= 0 => (IF delay <= 0 THEN 0 ELSE delay) = delay
           /\ (IF hook = "" THEN "continue" ELSE hook) \in Hooks \ {""}
           /\ hook # "" => (IF hook = "" THEN "continue" ELSE hook) = hook
<1>1. (IF delay <= 0 THEN 0 ELSE delay) \in Nat /\ (delay >= 0 => (IF delay <= 0 THEN 0 ELSE delay) = delay)
  OBVIOUS
<1>2. (IF hook = "" THEN "continue" ELSE hook) \in Hooks \ {""}
  BY DEF Hooks
<1>3. hook # "" => (IF hook = "" THEN "continue" ELSE hook) = hook
  OBVIOUS
<1> QED BY <1>1, <1>2, <1>3

\* A definition that was written and read is written and read as it is.
LEMMA DefinitionSettles ==
    ASSUME NEW d \in Definition
    PROVE  /\ Settled(d) \in Definition
           /\ Settled(Settled(d)) = Settled(d)
           /\ Settled(d).password = d.password
           /\ Settled(d).needs = d.needs
<1> DEFINE delay == IF d.delay <= 0 THEN 0 ELSE d.delay
           hook == IF d.hook = "" THEN "continue" ELSE d.hook
           limits == SettledLimits(d.limits)
           s == [password |-> d.password, interpreter |-> "", delay |-> delay,
                 hook |-> hook, limits |-> limits, dir |-> d.dir,
                 schedules |-> d.schedules, needs |-> d.needs, auto |-> d.auto]
<1>1. Settled(d) = s
  BY SettledIs
<1>2. hook \in Hooks \ {""}
  BY Fields, Adjusted
<1>3. delay \in Nat
  BY Fields, Adjusted
<1>4. limits \in Limits /\ SettledLimits(limits) = limits
  BY Fields, LimitsSettle
<1> HIDE DEF delay, hook, limits
<1>5. delay \in Int /\ delay >= 0 /\ hook \in Hooks /\ hook # "" /\ "" \in {"", "cmd"}
  <2>1. delay \in Int /\ delay >= 0
    BY <1>3
  <2>2. hook \in Hooks /\ hook # "" /\ "" \in {"", "cmd"}
    BY <1>2, Zenon
  <2> QED BY <2>1, <2>2
<1>6. s \in Definition
  BY <1>4, <1>5, Fields, MadeOf
<1>7. Settled(s) = s
  <2>1. Settled(s) = [password |-> d.password, interpreter |-> "",
                      delay |-> IF delay <= 0 THEN 0 ELSE delay,
                      hook |-> IF hook = "" THEN "continue" ELSE hook,
                      limits |-> SettledLimits(limits), dir |-> d.dir,
                      schedules |-> d.schedules, needs |-> d.needs, auto |-> d.auto]
    BY SettledIs
  <2>2. (IF delay <= 0 THEN 0 ELSE delay) = delay /\ (IF hook = "" THEN "continue" ELSE hook) = hook
    BY <1>5, Adjusted
  <2> QED BY <1>4, <2>1, <2>2
<1>8. s.password = d.password /\ s.needs = d.needs
  OBVIOUS
<1> HIDE DEF s
<1> QED BY <1>1, <1>6, <1>7, <1>8

\* An expressible definition is loaded as it was saved, without the interpreter.
LEMMA ExpressibleSettles ==
    ASSUME NEW d \in Definition, Expressible(d)
    PROVE  Settled(d) = [d EXCEPT !.interpreter = ""]
<1> DEFINE l == d.limits
<1>1. l \in Limits /\ l = [threshold |-> l.threshold, interval |-> l.interval, memory |-> l.memory]
  BY Fields DEF Limits
<1>2. ParseByteSize(FormatByteSize(l.memory)) = l.memory
  <2>1. PICK t \in 0..(10 * Kilo - 1), u \in 0..4 :
              /\ IF u < 3 THEN t % 10 = 0 ELSE t >= 10
              /\ l.memory = ParseByteSize([tenths |-> t, unit |-> u])
    BY DEF Expressible
  <2>2. t \in Nat /\ t < 10 * Kilo
    BY <2>1, Kilos
  <2>3. CASE t >= 10
    <3>1. t \div 10 \in Nat /\ t = 10 * (t \div 10) + (t % 10)
      BY <2>2, Tenths
    <3>2. u < 3 => t = 10 * (t \div 10)
      BY <2>1, <3>1
    <3>3. Fits(t, u)
      BY <2>2, <2>3, <3>1, <3>2 DEF Fits
    <3> QED BY <2>1, <3>3, FormatParsed
  <2>4. CASE t < 10
    <3>1. u < 3 /\ t % 10 = 0
      BY <2>1, <2>2, <2>4
    <3>2. t = 10 * 0
      BY <2>2, <2>4, <3>1
    <3>3. ParseByteSize([tenths |-> 10 * 0, unit |-> u]) = Unit(u) * 0
      BY ParseWhole
    <3>4. l.memory = 0
      BY <2>1, <3>2, <3>3, Units
    <3> QED BY <3>4, FormatNothing
  <2> QED BY <2>2, <2>3, <2>4
<1>3. SettledLimits(l) = l
  <2>1. CASE HasAnyLimit(l)
    BY <1>1, <1>2, <2>1 DEF SettledLimits
  <2>2. CASE ~HasAnyLimit(l)
    <3>1. ~(l.interval > 0) /\ ~(l.threshold > 0) /\ ~(l.memory > 0)
      BY <2>2 DEF Expressible, HasAnyLimit
    <3>2. l.interval \in {0, 1} /\ l.threshold \in {0, 1} /\ l.memory \in Nat
      BY <1>1 DEF Limits
    <3>3. l.interval = 0 /\ l.threshold = 0 /\ l.memory = 0
      BY <3>1, <3>2
    <3> QED BY <1>1, <2>2, <3>3 DEF SettledLimits
  <2> QED BY <2>1, <2>2
<1> HIDE DEF l
<1>4. /\ (IF d.delay <= 0 THEN 0 ELSE d.delay) = d.delay
      /\ (IF d.hook = "" THEN "continue" ELSE d.hook) = d.hook
  <2>1. d.delay >= 0 /\ d.hook # ""
    BY DEF Expressible
  <2>2. d.delay \in Int /\ d.hook \in Hooks
    BY Fields
  <2> QED BY <2>1, <2>2, Adjusted
<1>5. [d EXCEPT !.interpreter = ""] = [password |-> d.password, interpreter |-> "",
           delay |-> d.delay, hook |-> d.hook, limits |-> d.limits, dir |-> d.dir,
           schedules |-> d.schedules, needs |-> d.needs, auto |-> d.auto]
  BY Emptied
<1>6. Settled(d) = [password    |-> d.password,
              interpreter |-> "",
              delay       |-> IF d.delay <= 0 THEN 0 ELSE d.delay,
              hook        |-> IF d.hook = "" THEN "continue" ELSE d.hook,
              limits      |-> SettledLimits(d.limits), dir |-> d.dir,
              schedules   |-> d.schedules, needs |-> d.needs, auto |-> d.auto]
  BY SettledIs
<1> QED BY <1>3, <1>4, <1>5, <1>6 DEF l

\* A start fills in the directory of a definition and nothing else.
LEMMA FilledIs ==
    ASSUME NEW d \in Definition
    PROVE  /\ Filled(d) \in Definition
           /\ Filled(d).schedules = d.schedules
           /\ Filled(d) = d \/ (d.dir = "" /\ Filled(d) = [d EXCEPT !.dir = "exe"])
<1>1. CASE d.dir = ""
  <2>1. Filled(d) = [d EXCEPT !.dir = "exe"]
    BY <1>1 DEF Filled
  <2>2. [d EXCEPT !.dir = "exe"] \in Definition /\ [d EXCEPT !.dir = "exe"].schedules = d.schedules
    BY DEF Definition, Dirs
  <2> QED BY <1>1, <2>1, <2>2
<1>2. CASE d.dir # ""
  <2>1. Filled(d) = d
    BY <1>2 DEF Filled, Definition
  <2> QED BY <2>1
<1> QED BY <1>1, <1>2

\* What was filled in is not lost in YAML.
LEMMA FilledSettles ==
    ASSUME NEW d \in Definition
    PROVE  /\ Settled(d).dir = d.dir
           /\ Settled([d EXCEPT !.dir = "exe"]) = [Settled(d) EXCEPT !.dir = "exe"]
<1> DEFINE f == [d EXCEPT !.dir = "exe"]
           s == Settled(d)
           e == [s EXCEPT !.dir = "exe"]
<1>1. /\ f \in Definition
      /\ f.password = d.password /\ f.delay = d.delay /\ f.hook = d.hook
      /\ f.limits = d.limits /\ f.dir = "exe" /\ f.schedules = d.schedules
      /\ f.needs = d.needs /\ f.auto = d.auto
  BY DEF Definition, Dirs
<1> HIDE DEF f, s
<1>2. s \in Definition /\ Settled(f) \in Definition
  BY <1>1, DefinitionSettles DEF s
<1>3. /\ e \in Definition
      /\ e.password = s.password /\ e.interpreter = s.interpreter /\ e.delay = s.delay
      /\ e.hook = s.hook /\ e.limits = s.limits /\ e.dir = "exe"
      /\ e.schedules = s.schedules /\ e.needs = s.needs /\ e.auto = s.auto
  BY <1>2 DEF Definition, Dirs
<1> HIDE DEF e
<1>4. s.dir = d.dir
  BY SettledIs DEF s
<1> DEFINE g == Settled(f)
<1>5. /\ g.password = s.password /\ g.interpreter = s.interpreter /\ g.delay = s.delay
      /\ g.hook = s.hook /\ g.limits = s.limits /\ g.dir = "exe"
      /\ g.schedules = s.schedules /\ g.needs = s.needs /\ g.auto = s.auto
  BY <1>1, SettledIs DEF s
<1>6. g \in Definition
  BY <1>2
<1> HIDE DEF g
<1>7. g = e
  BY <1>3, <1>5, <1>6, Fields
<1> QED BY <1>4, <1>7 DEF f, s, e, g

\* What a file may be held as when it says something about a directory, and when
\* it says nothing.
LEMMA HeldAsIs ==
    ASSUME NEW r, NEW d
    PROVE  d \in HeldAs(r) <=> (d = r \/ (r.dir = "" /\ d = [r EXCEPT !.dir = "exe"]))
<1>1. CASE r.dir = ""
  BY <1>1 DEF HeldAs
<1>2. CASE r.dir # ""
  BY <1>2 DEF HeldAs
<1> QED BY <1>1, <1>2

\* A start leaves what is held in agreement with the file.
LEMMA FilledAgrees ==
    ASSUME NEW d \in Definition, NEW y, Agree(d, y)
    PROVE  Agree(Filled(d), y)
<1> DEFINE r == ToService(y)
<1>1. CASE Filled(d) = d
  BY <1>1
<1>2. CASE d.dir = "" /\ Filled(d) = [d EXCEPT !.dir = "exe"]
  <2>1. ASSUME NEW s, s.dir = "", s \in HeldAs(r), s = d \/ s = Settled(d)
        PROVE  [s EXCEPT !.dir = "exe"] \in HeldAs(r)
    <3>1. s = r \/ (r.dir = "" /\ s = [r EXCEPT !.dir = "exe"])
      BY <2>1, HeldAsIs
    <3>2. CASE s = r
      BY <2>1, <3>2, HeldAsIs
    <3>3. CASE r.dir = "" /\ s = [r EXCEPT !.dir = "exe"]
      <4>1. [s EXCEPT !.dir = "exe"] = [r EXCEPT !.dir = "exe"]
        BY <3>3
      <4> QED BY <3>3, <4>1, HeldAsIs
    <3> QED BY <3>1, <3>2, <3>3
  <2>2. d \in HeldAs(r) => [d EXCEPT !.dir = "exe"] \in HeldAs(r)
    BY <1>2, <2>1
  <2>3. Settled(d) \in HeldAs(r) => Settled([d EXCEPT !.dir = "exe"]) \in HeldAs(r)
    <3> DEFINE s == Settled(d)
    <3>1. s.dir = "" /\ Settled([d EXCEPT !.dir = "exe"]) = [s EXCEPT !.dir = "exe"]
      BY <1>2, FilledSettles
    <3>2. s = Settled(d)
      OBVIOUS
    <3> HIDE DEF s
    <3>3. s \in HeldAs(r) => [s EXCEPT !.dir = "exe"] \in HeldAs(r)
      BY <2>1, <3>1, <3>2
    <3> QED BY <3>1, <3>2, <3>3
  <2>4. \/ [d EXCEPT !.dir = "exe"] \in HeldAs(r)
        \/ Settled([d EXCEPT !.dir = "exe"]) \in HeldAs(r)
    <3>1. d \in HeldAs(r) \/ Settled(d) \in HeldAs(r)
      BY DEF Agree
    <3> QED BY <3>1, <2>2, <2>3
  <2>5. Agree([d EXCEPT !.dir = "exe"], y)
    BY <2>4 DEF Agree
  <2> QED BY <1>2, <2>5
<1> QED BY <1>1, <1>2, FilledIs

\* What is held of an expressible definition is in its file, without the
\* interpreter.
LEMMA ExpressibleAgrees ==
    ASSUME NEW d \in Definition, Expressible(d), NEW y, Agree(d, y)
    PROVE  [d EXCEPT !.interpreter = ""] \in HeldAs(ToService(y))
<1> DEFINE r == ToService(y)
<1>1. CASE Settled(d) \in HeldAs(r)
  BY <1>1, ExpressibleSettles
<1>2. CASE d \in HeldAs(r)
  <2>1. r.interpreter = ""
    BY DEF ToService
  <2>2. d.interpreter = ""
    <3>1. [r EXCEPT !.dir = "exe"].interpreter = ""
      BY DEF ToService
    <3>2. d = r \/ d = [r EXCEPT !.dir = "exe"]
      BY <1>2, HeldAsIs
    <3> HIDE DEF r
    <3> QED BY <2>1, <3>1, <3>2
  <2>3. [d EXCEPT !.interpreter = ""] = d
    BY <2>2, Emptied
  <2> QED BY <1>2, <2>3
<1> QED BY <1>1, <1>2 DEF Agree

\* What a client sends, with the password the service had if it brings none.
LEMMA Merged ==
    ASSUME NEW d \in Sent, NEW e \in Definition
    PROVE  /\ d \in Definition
           /\ [d EXCEPT !.password = IF @ = 0 THEN e.password ELSE @] \in Definition
<1>1. d \in Definition
  BY RegistryAssumption
<1>2. e.password \in Nat /\ d.password \in Nat
  BY <1>1 DEF Definition
<1>3. (IF d.password = 0 THEN e.password ELSE d.password) \in Nat
  BY <1>2
<1> QED BY <1>1, <1>3 DEF Definition

-----------------------------------------------------------------------------
(* Files and jobs.                                                         *)

\* What is read of a file is a definition.
LEMMA Loaded ==
    ASSUME NEW y \in Yaml
    PROVE  ToService(y) \in Definition
<1>1. /\ y.password \in Nat /\ y.delay \in Int /\ y.hook \in Hooks /\ y.dir \in Dirs
      /\ y.schedules \in SUBSET Schedules /\ y.needs \in SUBSET (Ids \cup {Unknown})
      /\ y.auto \in BOOLEAN
      /\ y.limits \in [threshold : {0, 1}, interval : {0, 1}, memory : Sizes]
  BY DEF Yaml
<1>2. ParseByteSize(y.limits.memory) \in Nat
  <2> DEFINE t == y.limits.memory.tenths
             u == y.limits.memory.unit
  <2>1. t \in Nat /\ u \in 0..4
    BY <1>1 DEF Sizes
  <2> HIDE DEF t, u
  <2>2. Unit(u) \in Nat
    BY <2>1, Units
  <2>3. t * Unit(u) \in Nat
    BY <2>1, <2>2, SMT
  <2>4. (t * Unit(u)) \div 10 \in Nat
    BY <2>3, Tenths
  <2> QED BY <2>4 DEF ParseByteSize, t, u
<1>3. [y.limits EXCEPT !.memory = ParseByteSize(@)] \in Limits
  BY <1>1, <1>2 DEF Limits
<1>4. (IF y.hook = "" THEN "continue" ELSE y.hook) \in Hooks
  BY <1>1 DEF Hooks
<1> DEFINE hook == IF y.hook = "" THEN "continue" ELSE y.hook
           limits == [y.limits EXCEPT !.memory = ParseByteSize(@)]
<1>5. ToService(y) =
        [password |-> y.password, interpreter |-> "", delay |-> y.delay, hook |-> hook,
         limits |-> limits, dir |-> y.dir, schedules |-> y.schedules,
         needs |-> y.needs, auto |-> y.auto]
  BY DEF ToService
<1>6. hook \in Hooks /\ limits \in Limits /\ "" \in {"", "cmd"}
  BY <1>3, <1>4
<1> HIDE DEF hook, limits
<1>7. [password |-> y.password, interpreter |-> "", delay |-> y.delay, hook |-> hook,
       limits |-> limits, dir |-> y.dir, schedules |-> y.schedules,
       needs |-> y.needs, auto |-> y.auto] \in Definition
  BY <1>1, <1>6, MadeOf, Zenon
<1> QED BY <1>5, <1>7

\* What is written of a definition can be read.
LEMMA Stored ==
    ASSUME NEW d \in Definition
    PROVE  ServiceToYAML(d) \in Yaml
<1> DEFINE delay == IF d.delay <= 0 THEN 0 ELSE d.delay
           limits == IF HasAnyLimit(d.limits)
                     THEN [d.limits EXCEPT !.memory = FormatByteSize(@)]
                     ELSE NoLimits
<1>1. FormatByteSize(d.limits.memory) \in Sizes
  <2>1. d.limits.memory \in Nat
    BY Fields DEF Limits
  <2>2. CASE d.limits.memory = 0
    BY <2>2, FormatNothing DEF Sizes
  <2>3. CASE d.limits.memory > 0
    BY <2>1, <2>3, FormatFits DEF Sizes
  <2> QED BY <2>1, <2>2, <2>3
<1>2. limits \in [threshold : {0, 1}, interval : {0, 1}, memory : Sizes]
  <2>1. CASE HasAnyLimit(d.limits)
    <3>1. d.limits \in Limits
      BY Fields
    <3>2. [d.limits EXCEPT !.memory = FormatByteSize(@)]
            \in [threshold : {0, 1}, interval : {0, 1}, memory : Sizes]
      BY <1>1, <3>1 DEF Limits
    <3> QED BY <2>1, <3>2
  <2>2. CASE ~HasAnyLimit(d.limits)
    BY <2>2 DEF NoLimits, Sizes
  <2> QED BY <2>1, <2>2
<1>3. delay \in Int
  <2>1. d.delay \in Int
    BY Fields
  <2> QED BY <2>1
<1>4. ServiceToYAML(d) =
        [password |-> d.password, delay |-> delay, hook |-> d.hook, limits |-> limits,
         dir |-> d.dir, schedules |-> d.schedules, needs |-> d.needs, auto |-> d.auto]
  BY DEF ServiceToYAML
<1> HIDE DEF delay, limits
<1>5. /\ d.password \in Nat /\ d.hook \in Hooks /\ d.dir \in Dirs
      /\ d.schedules \in SUBSET Schedules /\ d.needs \in SUBSET (Ids \cup {Unknown})
      /\ d.auto \in BOOLEAN
  BY Fields
<1> QED BY <1>2, <1>3, <1>4, <1>5 DEF Yaml

\* Nothing is read as nothing.
LEMMA NothingIs == NoYaml \in Yaml /\ NoDefinition \in Definition
<1>1. NoYaml \in Yaml
  BY DEF NoYaml, NoLimits, Yaml, Sizes, Hooks, Dirs
<1> QED BY <1>1, Loaded DEF NoDefinition

\* The kinds of files.
LEMMA FileIs ==
    /\ \A f \in Torn : f \in Files /\ f.kind \in {"empty", "part", "broken"} /\ f.yaml = NoYaml
    /\ Absent \in Files /\ Absent.kind = "absent" /\ Absent.yaml = NoYaml
    /\ \A d \in Definition : /\ File(d) \in Files /\ File(d).kind = "whole"
                             /\ ToService(File(d).yaml) = Settled(d)
<1>1. \A f \in Torn : f \in Files
  BY DEF Files
<1>2. \A f \in Torn : f.kind \in {"empty", "part", "broken"} /\ f.yaml = NoYaml
  BY DEF Torn
<1>3. Absent \in Files /\ Absent.kind = "absent" /\ Absent.yaml = NoYaml
  BY DEF Files, Absent
<1>4. \A d \in Definition : File(d) \in Files
  BY Stored DEF Files, File
<1>5. \A d : File(d).kind = "whole" /\ ToService(File(d).yaml) = Settled(d)
  BY DEF File, Settled
<1> QED BY <1>1, <1>2, <1>3, <1>4, <1>5

\* What a file is loaded as.
LEMMA FileLoads ==
    ASSUME NEW f \in Files
    PROVE  /\ ToService(f.yaml) \in Definition
           /\ f.kind \in {"absent", "empty", "part", "broken", "whole"}
           /\ f \notin Torn /\ f.kind # "absent" => f.kind = "whole"
<1>1. f = Absent \/ f \in Torn \/ f \in [kind : {"whole"}, yaml : Yaml]
  BY DEF Files
<1>2. CASE f = Absent \/ f \in Torn
  <2>1. f.yaml = NoYaml /\ f.kind \in {"absent", "empty", "part", "broken"}
    BY <1>2, FileIs
  <2>2. f = Absent => f.kind = "absent"
    BY FileIs
  <2>3. ToService(f.yaml) \in Definition
    BY <2>1, NothingIs, Loaded
  <2> QED BY <1>2, <2>1, <2>2, <2>3
<1>3. CASE f \in [kind : {"whole"}, yaml : Yaml]
  <2>1. f.kind = "whole" /\ f.yaml \in Yaml
    BY <1>3
  <2> QED BY <2>1, Loaded
<1> QED BY <1>1, <1>2, <1>3

\* What was just read, or written, agrees with the file.
LEMMA Agreeing ==
    /\ \A y : Agree(ToService(y), y)
    /\ \A d \in Definition : Agree(d, File(d).yaml)
<1>1. \A y : Agree(ToService(y), y)
  BY HeldAsIs DEF Agree
<1>2. ASSUME NEW d \in Definition PROVE Agree(d, File(d).yaml)
  BY FileIs, HeldAsIs DEF Agree
<1> QED BY <1>1, <1>2

\* A service has at most one cron entry for a schedule.
LEMMA JobsAre ==
    /\ NoJobs \in [Schedules -> {0, 1}]
    /\ \A d : Added(NoJobs, d) \in [Schedules -> {0, 1}]
BY DEF NoJobs, Added

-----------------------------------------------------------------------------
(* The services and their files.                                           *)

\* The invariant holds when the Guardian was never started.
LEMMA DefinitionStart == RegistryInit => DefinitionInv
<1> SUFFICES ASSUME RegistryInit PROVE DefinitionInv
  OBVIOUS
<1>1. files \in [Ids -> Files]
  BY InstallationAssumption DEF RegistryInit
<1>2. NoOp.kind = "none" /\ NoOp.id = Unknown /\ NoOp.at = "idle"
      /\ NoOp.new = NoDefinition /\ NoOp.state = "none"
  BY DEF NoOp
<1>3. op \in [kind : {"none", "add", "update"}, id : Ids \cup {Unknown},
               at : {"idle", "truncate", "fill", "store", "install"},
               new : Definition, state : States]
  BY NothingIs DEF RegistryInit, NoOp, States
<1>4. Typed
  BY <1>1, <1>3, NothingIs, JobsAre DEF Typed, RegistryInit, States
<1>5. Orderly /\ Matching
  BY <1>2 DEF Orderly, Matching, RegistryInit, Idle
<1>6. Truthful
  BY <1>2 DEF Truthful, RegistryInit, Idle
<1> QED BY <1>4, <1>5, <1>6 DEF DefinitionInv

\* A service that an operation is about.
LEMMA OpFields ==
    ASSUME Typed
    PROVE  /\ op = [kind |-> op.kind, id |-> op.id, at |-> op.at, new |-> op.new,
                    state |-> op.state]
           /\ op.kind \in {"none", "add", "update"} /\ op.id \in Ids \cup {Unknown}
           /\ op.at \in {"idle", "truncate", "fill", "store", "install"}
           /\ op.new \in Definition /\ op.state \in States
BY DEF Typed

\* No operation holds the lock.
LEMMA NoOpIs ==
    /\ NoOp \in [kind : {"none", "add", "update"}, id : Ids \cup {Unknown},
                 at : {"idle", "truncate", "fill", "store", "install"},
                 new : Definition, state : States]
    /\ NoOp.at = "idle" /\ NoOp.kind = "none"
BY NothingIs DEF NoOp, States

\* An operation begins.
LEMMA BeginKeeps ==
    ASSUME DefinitionInv, NEW i \in Ids, NEW d \in Sent, Add(i, d) \/ Update(i, d)
    PROVE  DefinitionInv'
<1>1. Typed /\ Orderly /\ Matching /\ Truthful
  BY DEF DefinitionInv
<1>2. /\ stage = "up" /\ op.at = "idle"
      /\ UNCHANGED <<runtime, files, bucket, held, definition, state, jobs, astray>>
  BY DEF Add, Update, Idle
<1>3. definition[i] \in Definition /\ state[i] \in States
  BY <1>1 DEF Typed
<1>4. /\ op'.at = "truncate" /\ op'.id = i /\ op'.kind \in {"add", "update"}
      /\ op' \in [kind : {"none", "add", "update"}, id : Ids \cup {Unknown},
                  at : {"idle", "truncate", "fill", "store", "install"},
                  new : Definition, state : States]
  <2>1. CASE Add(i, d)
    BY <1>3, <2>1, Merged DEF Add, States
  <2>2. CASE Update(i, d)
    BY <1>3, <2>2, Merged DEF Update
  <2> QED BY <2>1, <2>2
<1>5. Typed'
  BY <1>1, <1>2, <1>4 DEF Typed, runtime
<1>6. Orderly'
  BY <1>1, <1>2, <1>4 DEF Orderly, Idle, runtime
<1>7. Matching'
  BY <1>1, <1>2 DEF Matching, runtime
<1>8. Truthful'
  <2>1. op'.kind = "update" => i \in held /\ op'.state = state[i]
    BY DEF Add, Update
  <2>2. op'.kind = "add" => i \notin held /\ op'.state = "stopped"
    BY DEF Add, Update
  <2> QED BY <1>1, <1>2, <1>4, <2>1, <2>2 DEF Truthful, Idle, runtime
<1> QED BY <1>5, <1>6, <1>7, <1>8 DEF DefinitionInv

\* An operation goes on, or is given up.
LEMMA WriteKeeps ==
    ASSUME DefinitionInv, TruncateFile \/ FillFile \/ SaveService \/ WriteFails
    PROVE  DefinitionInv'
<1>1. Typed /\ Orderly /\ Matching /\ Truthful
  BY DEF DefinitionInv
<1>2. UNCHANGED <<runtime, held, definition, state, jobs>> /\ ~Idle
  BY DEF TruncateFile, FillFile, SaveService, WriteFails, Idle
<1>3. stage = "up" /\ op.id \in Ids /\ op.kind # "none"
  BY <1>1, <1>2 DEF Orderly
<1>4. CASE TruncateFile
  <2>1. PICK torn \in Torn : files' = [files EXCEPT ![op.id] = torn]
    BY <1>4 DEF TruncateFile
  <2>2. files' \in [Ids -> Files] /\ \A i \in Ids \ {op.id} : files'[i] = files[i]
    BY <1>1, <1>3, <2>1, FileIs DEF Typed
  <2>3. /\ op' = [op EXCEPT !.at = "fill"] /\ astray' = astray \cup {op.id}
        /\ UNCHANGED bucket
    BY <1>4 DEF TruncateFile
  <2>4. /\ op'.kind = op.kind /\ op'.id = op.id /\ op'.at = "fill" /\ op'.new = op.new
        /\ op'.state = op.state
    BY <1>1, <2>3, OpFields
  <2>5. Typed'
    BY <1>1, <1>2, <1>3, <2>2, <2>3 DEF Typed, runtime
  <2>6. Orderly'
    BY <1>1, <1>2, <1>3, <2>3, <2>4 DEF Orderly, Idle, runtime
  <2>7. Matching'
    BY <1>1, <1>2, <2>2, <2>3 DEF Matching, Typed, runtime
  <2>8. Truthful'
    BY <1>1, <1>2, <2>4 DEF Truthful, Idle, runtime
  <2> QED BY <2>5, <2>6, <2>7, <2>8 DEF DefinitionInv
<1>5. CASE FillFile
  <2>1. /\ files' = [files EXCEPT ![op.id] = File(op.new)] /\ op' = [op EXCEPT !.at = "store"]
        /\ op.at = "fill" /\ UNCHANGED <<bucket, astray>>
    BY <1>5 DEF FillFile
  <2>2. op.new \in Definition
    BY <1>1 DEF Typed
  <2>3. /\ files' \in [Ids -> Files] /\ files'[op.id] = File(op.new)
        /\ \A i \in Ids \ {op.id} : files'[i] = files[i]
    BY <1>1, <1>3, <2>1, <2>2, FileIs DEF Typed
  <2>4. /\ op'.kind = op.kind /\ op'.id = op.id /\ op'.at = "store" /\ op'.new = op.new
        /\ op'.state = op.state
    BY <1>1, <2>1, OpFields
  <2>5. Typed'
    BY <1>1, <1>2, <1>3, <2>1, <2>3 DEF Typed, runtime
  <2>6. File(op.new)' = File(op.new)
    BY <2>4 DEF File, ServiceToYAML, HasAnyLimit, NoLimits, FormatByteSize
  <2>7. Orderly'
    BY <1>1, <1>2, <1>3, <2>1, <2>3, <2>4 DEF Orderly, Idle, runtime
  <2>8. op.id \in astray
    BY <1>1, <2>1 DEF Orderly
  <2>9. Matching'
    BY <1>1, <1>2, <2>1, <2>3, <2>8 DEF Matching, Typed, runtime
  <2>10. Truthful'
    BY <1>1, <1>2, <2>4 DEF Truthful, Idle, runtime
  <2> QED BY <2>5, <2>7, <2>9, <2>10 DEF DefinitionInv
<1>6. CASE SaveService
  <2>1. /\ bucket' = bucket \cup {op.id} /\ op' = [op EXCEPT !.at = "install"]
        /\ op.at = "store" /\ UNCHANGED <<files, astray>>
    BY <1>6 DEF SaveService
  <2>2. /\ op'.kind = op.kind /\ op'.id = op.id /\ op'.at = "install" /\ op'.new = op.new
        /\ op'.state = op.state
    BY <1>1, <2>1, OpFields
  <2>3. Typed'
    BY <1>1, <1>2, <1>3, <2>1 DEF Typed, runtime
  <2>4. Orderly'
    BY <1>1, <1>2, <1>3, <2>1, <2>2 DEF Orderly, Idle, runtime
  <2>5. Matching'
    BY <1>1, <1>2, <2>1 DEF Matching, runtime
  <2>6. Truthful'
    BY <1>1, <1>2, <2>2 DEF Truthful, Idle, runtime
  <2> QED BY <2>3, <2>4, <2>5, <2>6 DEF DefinitionInv
<1>7. CASE WriteFails
  <2>1. op' = NoOp /\ UNCHANGED <<files, bucket, astray>>
    BY <1>7 DEF WriteFails
  <2>2. Typed'
    BY <1>1, <1>2, <2>1, NoOpIs DEF Typed, runtime
  <2>3. Orderly'
    BY <1>1, <1>2, <2>1, NoOpIs DEF Orderly, Idle, runtime
  <2>4. Matching'
    BY <1>1, <1>2, <2>1 DEF Matching, runtime
  <2>5. Truthful'
    BY <1>1, <1>2, <2>1, NoOpIs DEF Truthful, Idle, runtime
  <2> QED BY <2>2, <2>3, <2>4, <2>5 DEF DefinitionInv
<1> QED BY <1>4, <1>5, <1>6, <1>7

\* An operation ends: the map has what the file has.
LEMMA InstallKeeps ==
    ASSUME DefinitionInv, Install
    PROVE  DefinitionInv'
<1>1. Typed /\ Orderly /\ Matching /\ Truthful
  BY DEF DefinitionInv
<1>2. /\ op.at = "install" /\ op' = NoOp
      /\ held' = held \cup {op.id} /\ astray' = astray \ {op.id}
      /\ definition' = [definition EXCEPT ![op.id] = op.new]
      /\ state' = [state EXCEPT ![op.id] = op.state]
      /\ jobs' = [jobs EXCEPT ![op.id] = Added(NoJobs, op.new)]
      /\ UNCHANGED <<runtime, files, bucket>>
  BY DEF Install, UpdateService
<1>3. /\ stage = "up" /\ op.id \in Ids /\ op.kind \in {"add", "update"}
      /\ files[op.id] = File(op.new) /\ op.new \in Definition /\ op.state \in States
  <2>1. op.kind \in {"none", "add", "update"} /\ op.new \in Definition /\ op.state \in States
    BY <1>1, OpFields
  <2> QED BY <1>1, <1>2, <2>1 DEF Orderly, Idle
<1>4. /\ definition' \in [Ids -> Definition] /\ definition'[op.id] = op.new
      /\ state' \in [Ids -> States] /\ state'[op.id] = op.state
      /\ jobs' \in [Ids -> [Schedules -> {0, 1}]] /\ jobs'[op.id] = Added(NoJobs, op.new)
      /\ \A i \in Ids \ {op.id} : /\ definition'[i] = definition[i] /\ state'[i] = state[i]
                                  /\ jobs'[i] = jobs[i]
  BY <1>1, <1>2, <1>3, JobsAre DEF Typed
<1>5. Typed'
  BY <1>1, <1>2, <1>3, <1>4, NoOpIs DEF Typed, runtime
<1>6. Orderly'
  BY <1>1, <1>2, <1>3, NoOpIs DEF Orderly, Idle, runtime
<1>7. Matching'
  <2>1. \A i \in Ids : jobs'[i] = IF i \in held' THEN Added(NoJobs, definition'[i]) ELSE NoJobs
    BY <1>1, <1>2, <1>4 DEF Matching
  <2>2. files[op.id].kind = "whole" /\ Agree(op.new, files[op.id].yaml)
    BY <1>3, FileIs, Agreeing
  <2>3. \A i \in held' \ astray' : files'[i].kind = "whole" /\ Agree(definition'[i], files'[i].yaml)
    <3> SUFFICES ASSUME NEW i \in held' \ astray'
                 PROVE  files'[i].kind = "whole" /\ Agree(definition'[i], files'[i].yaml)
      OBVIOUS
    <3>1. CASE i = op.id
      BY <1>2, <1>4, <2>2, <3>1
    <3>2. CASE i # op.id
      <4>1. i \in held \ astray /\ i \in Ids /\ definition'[i] = definition[i] /\ files' = files
        BY <1>1, <1>2, <1>4, <3>2 DEF Typed
      <4>2. files[i].kind = "whole" /\ Agree(definition[i], files[i].yaml)
        BY <1>1, <4>1 DEF Matching
      <4> QED BY <4>1, <4>2
    <3> QED BY <3>1, <3>2
  <2>4. \A i \in Ids \ (held' \cup astray') : files'[i].kind = "absent"
    BY <1>1, <1>2, <1>3 DEF Matching
  <2> QED BY <2>1, <2>3, <2>4 DEF Matching
<1>8. Truthful'
  <2> SUFFICES ASSUME ~may.overlaps, ~may.crashes
               PROVE  /\ alive \subseteq held' /\ found \subseteq held'
                      /\ \A i \in held' : state'[i] = "running" <=> i \in alive
                      /\ \A i \in Ids : saved[i] = "running" => i \in alive
    BY <1>2, NoOpIs DEF Truthful, Idle, runtime
  <2>1. /\ alive \subseteq held /\ found \subseteq held
        /\ \A i \in held : state[i] = "running" <=> i \in alive
        /\ \A i \in Ids : saved[i] = "running" => i \in alive
        /\ op.kind = "update" => op.id \in held /\ op.state = state[op.id]
        /\ op.kind = "add" => op.id \notin held /\ op.state = "stopped"
    BY <1>1, <1>2 DEF Truthful, Idle
  <2>2. op.state = "running" <=> op.id \in alive
    BY <1>3, <2>1
  <2> QED BY <1>1, <1>2, <1>4, <2>1, <2>2 DEF Typed
<1> QED BY <1>5, <1>6, <1>7, <1>8 DEF DefinitionInv

\* A service is removed, and its file is astray.
LEMMA RemoveKeeps ==
    ASSUME DefinitionInv, NEW i \in Ids, Remove(i)
    PROVE  DefinitionInv'
<1>1. Typed /\ Orderly /\ Matching /\ Truthful
  BY DEF DefinitionInv
<1>2. /\ stage = "up" /\ Idle /\ i \in held /\ state[i] # "running"
      /\ ~may.overlaps => i \notin found
      /\ bucket' \in {bucket \ {i}} \cup (IF may.fails THEN {bucket} ELSE {})
      /\ held' = held \ {i} /\ astray' = astray \cup {i}
      /\ definition' = [definition EXCEPT ![i] = NoDefinition]
      /\ state' = [state EXCEPT ![i] = "none"]
      /\ jobs' = [jobs EXCEPT ![i] = NoJobs]
      /\ UNCHANGED <<runtime, files, op>>
  BY DEF Remove, RemoveJobs
<1>3. /\ definition' \in [Ids -> Definition]
      /\ state' \in [Ids -> States]
      /\ jobs' \in [Ids -> [Schedules -> {0, 1}]] /\ jobs'[i] = NoJobs
      /\ \A j \in Ids \ {i} : /\ definition'[j] = definition[j] /\ state'[j] = state[j]
                              /\ jobs'[j] = jobs[j]
  BY <1>1, <1>2, JobsAre, NothingIs DEF Typed, States
<1>4. bucket' \in SUBSET Ids
  <2>1. bucket' = bucket \ {i} \/ bucket' = bucket
    BY <1>2
  <2> QED BY <1>1, <2>1 DEF Typed
<1>5. Typed'
  BY <1>1, <1>2, <1>3, <1>4 DEF Typed, runtime
<1>6. Orderly'
  BY <1>1, <1>2 DEF Orderly, Idle, runtime
<1>7. Matching'
  BY <1>1, <1>2, <1>3 DEF Matching, Typed, runtime
<1>8. Truthful'
  BY <1>1, <1>2, <1>3 DEF Truthful, Typed, Idle, runtime
<1> QED BY <1>5, <1>6, <1>7, <1>8 DEF DefinitionInv

\* Services are started and end.
LEMMA RunningKeeps ==
    ASSUME DefinitionInv, NEW i \in Ids, Lookup(i) \/ StartService(i) \/ End(i)
    PROVE  DefinitionInv'
<1>1. Typed /\ Orderly /\ Matching /\ Truthful
  BY DEF DefinitionInv
<1>2. UNCHANGED <<may, stage, files, bucket, held, jobs, ticking, op, astray>>
  BY DEF Lookup, StartService, End
<1>3. /\ Orderly'
      /\ definition' = definition => Matching'
  <2>1. stage = "up" \/ found' \subseteq found
    BY DEF Lookup, StartService, End
  <2> QED BY <1>1, <1>2, <2>1 DEF Orderly, Matching, Idle
<1>4. CASE Lookup(i)
  <2>1. i \in held /\ found' = found \cup {i} /\ UNCHANGED <<saved, definition, state, alive>>
    BY <1>4 DEF Lookup
  <2>2. Typed'
    BY <1>1, <1>2, <2>1 DEF Typed
  <2>3. Truthful'
    BY <1>1, <1>2, <2>1 DEF Truthful, Idle
  <2> QED BY <1>3, <2>1, <2>2, <2>3 DEF DefinitionInv
<1>5. CASE StartService(i)
  <2>1. i \in found /\ found' = found \ {i} /\ (~may.overlaps => Idle)
    BY <1>5 DEF StartService
  <2>2. CASE UNCHANGED <<definition, state, saved, alive>>
    <3>1. Typed'
      BY <1>1, <1>2, <2>1, <2>2 DEF Typed
    <3>2. Truthful'
      BY <1>1, <1>2, <2>1, <2>2 DEF Truthful, Idle
    <3> QED BY <1>3, <2>2, <3>1, <3>2 DEF DefinitionInv
  <2>3. CASE /\ state[i] # "running"
             /\ definition' = OfHeld(i, definition, Filled(definition[i]))
    <3>1. /\ definition' \in [Ids -> Definition]
          /\ \A j \in Ids : definition'[j] = definition[j]
                            \/ (j \in held /\ definition'[j] = Filled(definition[j]))
      <4>1. definition[i] \in Definition /\ Filled(definition[i]) \in Definition
        BY <1>1, FilledIs DEF Typed
      <4>2. CASE i \in held
        <5>1. definition' = [definition EXCEPT ![i] = Filled(definition[i])]
          BY <2>3, <4>2 DEF OfHeld
        <5> QED BY <1>1, <4>1, <4>2, <5>1 DEF Typed
      <4>3. CASE i \notin held
        <5>1. definition' = definition
          BY <2>3, <4>3 DEF OfHeld
        <5> QED BY <1>1, <5>1 DEF Typed
      <4> QED BY <4>2, <4>3
    <3>2. Matching'
      <4>1. \A j \in Ids : Added(NoJobs, definition'[j]) = Added(NoJobs, definition[j])
        <5> SUFFICES ASSUME NEW j \in Ids
                     PROVE  Added(NoJobs, definition'[j]) = Added(NoJobs, definition[j])
          OBVIOUS
        <5>1. definition'[j].schedules = definition[j].schedules
          BY <1>1, <3>1, FilledIs DEF Typed
        <5> QED BY <5>1 DEF Added
      <4>2. \A j \in Ids : jobs'[j] = IF j \in held' THEN Added(NoJobs, definition'[j]) ELSE NoJobs
        BY <1>1, <1>2, <4>1 DEF Matching
      <4>3. ASSUME NEW j \in held' \ astray'
            PROVE  files'[j].kind = "whole" /\ Agree(definition'[j], files'[j].yaml)
        <5>1. /\ j \in held \ astray /\ j \in Ids /\ definition[j] \in Definition
              /\ files[j].kind = "whole" /\ Agree(definition[j], files[j].yaml)
          BY <1>1, <1>2, <4>3 DEF Typed, Matching
        <5>2. Agree(Filled(definition[j]), files[j].yaml)
          BY <5>1, FilledAgrees
        <5> QED BY <1>2, <3>1, <5>1, <5>2
      <4>4. stage' \in {"sorting", "up"} =>
               \A j \in Ids \ (held' \cup astray') : files'[j].kind = "absent"
        BY <1>1, <1>2 DEF Matching
      <4> QED BY <4>2, <4>3, <4>4 DEF Matching
    <3>3. CASE /\ alive' = alive \cup {i} /\ state' = OfHeld(i, state, "running")
               /\ saved' = [saved EXCEPT ![i] = "running"]
      <4>1. /\ saved' \in [Ids -> States] /\ state' \in [Ids -> States]
            /\ i \in held => state'[i] = "running"
            /\ \A j \in Ids \ {i} : saved'[j] = saved[j] /\ state'[j] = state[j]
        BY <1>1, <3>3 DEF Typed, States, OfHeld
      <4>2. Typed'
        BY <1>1, <1>2, <2>1, <3>1, <3>3, <4>1 DEF Typed
      <4>3. Truthful'
        BY <1>1, <1>2, <2>1, <3>3, <4>1 DEF Truthful, Typed, Idle
      <4> QED BY <1>3, <3>2, <4>2, <4>3 DEF DefinitionInv
    <3>4. CASE /\ state' = OfHeld(i, state, "stopped")
               /\ saved' \in {saved, [saved EXCEPT ![i] = "stopped"]}
               /\ UNCHANGED alive
      <4>1. /\ saved' \in [Ids -> States] /\ state' \in [Ids -> States]
            /\ \A j \in Ids : saved'[j] = saved[j] \/ saved'[j] = "stopped"
            /\ i \in held => state'[i] = "stopped"
            /\ \A j \in Ids \ {i} : state'[j] = state[j]
        <5>1. saved' = saved \/ saved' = [saved EXCEPT ![i] = "stopped"]
          BY <3>4
        <5>2. saved' \in [Ids -> States] /\ \A j \in Ids : saved'[j] = saved[j] \/ saved'[j] = "stopped"
          BY <1>1, <5>1 DEF Typed, States
        <5>3. /\ state' \in [Ids -> States] /\ (i \in held => state'[i] = "stopped")
              /\ \A j \in Ids \ {i} : state'[j] = state[j]
          BY <1>1, <3>4 DEF Typed, States, OfHeld
        <5> QED BY <5>2, <5>3
      <4>2. Typed'
        BY <1>1, <1>2, <2>1, <3>1, <3>4, <4>1 DEF Typed
      <4>3. Truthful'
        <5> SUFFICES ASSUME ~may.overlaps, ~may.crashes PROVE Truthful'
          BY <1>2 DEF Truthful
        <5>1. /\ alive' \subseteq held' /\ found' \subseteq held' /\ Idle'
          BY <1>1, <1>2, <2>1, <3>4 DEF Truthful, Idle
        <5>2. i \in held => i \notin alive
          BY <1>1, <2>3 DEF Truthful
        <5>3. \A j \in held' : state'[j] = "running" <=> j \in alive'
          BY <1>1, <1>2, <3>4, <4>1, <5>2 DEF Truthful, Typed
        <5>4. \A j \in Ids : saved'[j] = "running" => j \in alive'
          BY <1>1, <3>4, <4>1 DEF Truthful
        <5> QED BY <5>1, <5>3, <5>4 DEF Truthful
      <4> QED BY <1>3, <3>2, <4>2, <4>3 DEF DefinitionInv
    <3> QED BY <1>5, <2>3, <3>3, <3>4 DEF StartService
  <2> QED BY <1>5, <2>2, <2>3 DEF StartService
<1>6. CASE End(i)
  <2>1. /\ i \in alive /\ alive' = alive \ {i} /\ (~may.overlaps => Idle)
        /\ saved' = [saved EXCEPT ![i] = "stopped"] /\ UNCHANGED <<definition, found>>
        /\ state' = OfHeld(i, state, "stopped")
    BY <1>6 DEF End
  <2>2. /\ saved' \in [Ids -> States] /\ state' \in [Ids -> States]
        /\ saved'[i] = "stopped" /\ (i \in held => state'[i] = "stopped")
        /\ \A j \in Ids \ {i} : saved'[j] = saved[j] /\ state'[j] = state[j]
    BY <1>1, <2>1 DEF Typed, States, OfHeld
  <2>3. Typed'
    BY <1>1, <1>2, <2>1, <2>2 DEF Typed
  <2>4. Truthful'
    BY <1>1, <1>2, <2>1, <2>2 DEF Truthful, Typed, Idle
  <2> QED BY <1>3, <2>1, <2>3, <2>4 DEF DefinitionInv
<1> QED BY <1>4, <1>5, <1>6

\* The boot.
LEMMA LoadAllKeeps ==
    ASSUME DefinitionInv, LoadAll
    PROVE  DefinitionInv'
<1>1. Typed /\ Orderly /\ Matching /\ Truthful
  BY DEF DefinitionInv
<1>2. /\ stage = "loading" /\ stage' = "sorting"
      /\ UNCHANGED <<may, files, bucket, saved, op, found, alive, sort>>
  BY DEF LoadAll
<1>3. held = {} /\ found = {} /\ Idle
  BY <1>1, <1>2 DEF Orderly
<1>4. files \in [Ids -> Files] /\ NoDefinition \in Definition
  BY <1>1, NothingIs DEF Typed
<1>5. CASE \A i \in Ids : files[i].kind # "broken"
  <2> DEFINE read == [i \in Ids |-> ToService(files[i].yaml)]
  <2>1. /\ held' = Readable
        /\ definition' = [i \in Ids |-> IF i \in Readable THEN read[i] ELSE NoDefinition]
        /\ state' = [i \in Ids |-> IF i \in Readable THEN saved[i] ELSE "none"]
        /\ jobs' = [i \in Ids |-> IF i \in Readable THEN Added(NoJobs, read[i]) ELSE NoJobs]
        /\ ticking' = TRUE
        /\ astray' = {i \in Ids : files[i] \in Torn}
    BY <1>5 DEF LoadAll
  <2>2. Readable \subseteq Ids
    BY DEF Readable
  <2>3. \A i \in Ids : read[i] = ToService(files[i].yaml) /\ read[i] \in Definition
    BY <1>4, FileLoads
  <2> HIDE DEF read
  <2>4. definition' \in [Ids -> Definition]
    BY <1>4, <2>1, <2>3
  <2>5. state' \in [Ids -> States] /\ jobs' \in [Ids -> [Schedules -> {0, 1}]]
    BY <1>1, <2>1, JobsAre DEF Typed, States
  <2>6. Typed'
    BY <1>1, <1>2, <2>1, <2>2, <2>4, <2>5 DEF Typed
  <2>7. Orderly'
    BY <1>2, <1>3 DEF Orderly, Idle
  <2>8. Matching'
    <3>1. \A i \in Ids : jobs'[i] = IF i \in held' THEN Added(NoJobs, definition'[i]) ELSE NoJobs
      BY <2>1, <2>2
    <3>2. ASSUME NEW i \in held' \ astray'
          PROVE  files'[i].kind = "whole" /\ Agree(definition'[i], files'[i].yaml)
      <4>1. i \in Ids /\ i \in Readable /\ files[i] \notin Torn /\ files[i] \in Files
        BY <1>4, <2>1, <2>2, <3>2
      <4>2. files[i].kind \in {"part", "whole"}
        BY <4>1 DEF Readable
      <4>3. files[i].kind = "whole"
        BY <4>1, <4>2, FileLoads
      <4>4. definition'[i] = ToService(files[i].yaml)
        BY <2>1, <2>3, <4>1
      <4>5. Agree(ToService(files[i].yaml), files[i].yaml)
        BY Agreeing
      <4> QED BY <1>2, <4>3, <4>4, <4>5
    <3>3. ASSUME NEW i \in Ids \ (held' \cup astray')
          PROVE  files'[i].kind = "absent"
      <4>1. files[i] \notin Torn /\ files[i] \in Files /\ i \notin Readable
        BY <1>4, <2>1, <3>3
      <4>2. files[i].kind # "whole"
        BY <4>1 DEF Readable
      <4> QED BY <1>2, <4>1, <4>2, FileLoads
    <3> QED BY <3>1, <3>2, <3>3 DEF Matching
  <2>9. Truthful'
    <3> SUFFICES ASSUME ~may.overlaps, ~may.crashes PROVE Truthful'
      BY <1>2 DEF Truthful
    <3>1. alive = {} /\ found = {} /\ \A i \in Ids : saved[i] # "running"
      BY <1>1, <1>3 DEF Truthful
    <3>2. \A i \in held' : state'[i] # "running"
      BY <2>1, <2>2, <3>1
    <3> QED BY <1>2, <1>3, <3>1, <3>2 DEF Truthful, Idle
  <2> QED BY <2>6, <2>7, <2>8, <2>9 DEF DefinitionInv
<1>6. CASE ~ \A i \in Ids : files[i].kind # "broken"
  <2>1. /\ astray' = {i \in Ids : files[i] # Absent}
        /\ UNCHANGED <<held, definition, state, jobs, ticking>>
    BY <1>6, Zenon DEF LoadAll
  <2>2. Typed'
    BY <1>1, <1>2, <2>1 DEF Typed
  <2>3. Orderly'
    BY <1>2, <1>3 DEF Orderly, Idle
  <2>4. Matching'
    BY <1>1, <1>2, <1>3, <2>1, FileIs DEF Matching
  <2>5. Truthful'
    BY <1>1, <1>2, <2>1 DEF Truthful, Idle
  <2> QED BY <2>2, <2>3, <2>4, <2>5 DEF DefinitionInv
<1> QED BY <1>5, <1>6

\* The rest of the boot.
LEMMA BootKeeps ==
    ASSUME DefinitionInv, StartUp \/ CountDegrees \/ Pop \/ AutoStart
    PROVE  DefinitionInv'
<1>1. Typed /\ Orderly /\ Matching /\ Truthful
  BY DEF DefinitionInv
<1>2. UNCHANGED <<may, files, bucket, saved, held, definition, state, jobs, ticking, op,
                  alive, astray>>
  BY DEF StartUp, CountDegrees, Pop, AutoStart
<1>3. /\ found' \in SUBSET Ids /\ (found' = found \/ found' \subseteq held)
      /\ \/ stage = "down" /\ stage' = "loading" /\ found' = found
         \/ stage = "sorting" /\ stage' = "sorting" /\ found' = found
         \/ stage = "sorting" /\ stage' = "up"
  <2>1. CASE StartUp
    BY <1>1, <2>1 DEF StartUp, Typed
  <2>2. CASE CountDegrees
    BY <1>1, <2>2 DEF CountDegrees, Typed
  <2>3. CASE Pop
    BY <1>1, <2>3 DEF Pop, Typed
  <2>4. CASE AutoStart
    BY <1>1, <2>4 DEF AutoStart, Typed
  <2> QED BY <2>1, <2>2, <2>3, <2>4
<1>4. Typed'
  BY <1>1, <1>2, <1>3 DEF Typed
<1>5. Orderly'
  BY <1>1, <1>2, <1>3 DEF Orderly, Idle
<1>6. Matching'
  BY <1>1, <1>2, <1>3 DEF Matching
<1>7. Truthful'
  BY <1>1, <1>2, <1>3 DEF Truthful, Idle
<1> QED BY <1>4, <1>5, <1>6, <1>7 DEF DefinitionInv

\* The Guardian is gone.
LEMMA GoneKeepsRegistry ==
    ASSUME DefinitionInv, NEW killed \in BOOLEAN, MayGo(killed), Gone(killed)
    PROVE  DefinitionInv'
<1>1. Typed /\ Orderly /\ Matching /\ Truthful
  BY DEF DefinitionInv
<1>2. /\ stage' = "down" /\ held' = {} /\ definition' = [i \in Ids |-> NoDefinition]
      /\ saved' = IF killed THEN saved
                  ELSE [i \in Ids |-> IF i \in alive THEN "stopped" ELSE saved[i]]
      /\ state' = [i \in Ids |-> "none"] /\ jobs' = [i \in Ids |-> NoJobs]
      /\ ticking' = FALSE /\ op' = NoOp /\ found' = {} /\ alive' = {}
      /\ UNCHANGED <<may, files, bucket, astray>>
  BY DEF Gone
<1>3. saved' \in [Ids -> States]
  BY <1>1, <1>2 DEF Typed, States
<1>4. Typed'
  BY <1>1, <1>2, <1>3, NoOpIs, NothingIs, JobsAre DEF Typed, States
<1>5. Orderly' /\ Matching'
  BY <1>2, NoOpIs DEF Orderly, Matching, Idle
<1>6. Truthful'
  <2> SUFFICES ASSUME ~may.overlaps, ~may.crashes PROVE Truthful'
    BY <1>2 DEF Truthful
  <2>1. killed = FALSE
    BY DEF MayGo
  <2>2. \A i \in Ids : saved'[i] # "running"
    BY <1>1, <1>2, <2>1 DEF Truthful
  <2> QED BY <1>2, <2>2, NoOpIs DEF Truthful, Idle
<1> QED BY <1>4, <1>5, <1>6 DEF DefinitionInv

\* Every step keeps the invariant of the definitions.
LEMMA DefinitionNext == DefinitionInv /\ [RegistryNext]_registryVars => DefinitionInv'
<1> SUFFICES ASSUME DefinitionInv, [RegistryNext]_registryVars PROVE DefinitionInv'
  OBVIOUS
<1>1. ASSUME RegistryStep PROVE DefinitionInv'
  <2>1. ASSUME NEW i \in Ids, NEW d \in Sent, Add(i, d) \/ Update(i, d) PROVE DefinitionInv'
    BY <2>1, BeginKeeps
  <2>2. ASSUME NEW i \in Ids, Remove(i) PROVE DefinitionInv'
    BY <2>2, RemoveKeeps
  <2>3. ASSUME NEW i \in Ids, Lookup(i) \/ StartService(i) \/ End(i) PROVE DefinitionInv'
    BY <2>3, RunningKeeps
  <2>4. CASE TruncateFile \/ FillFile \/ SaveService \/ WriteFails
    BY <2>4, WriteKeeps
  <2>5. CASE Install
    BY <2>5, InstallKeeps
  <2>6. CASE LoadAll
    BY <2>6, LoadAllKeeps
  <2>7. CASE CountDegrees \/ Pop \/ AutoStart
    BY <2>7, BootKeeps
  <2> QED BY <1>1, <2>1, <2>2, <2>3, <2>4, <2>5, <2>6, <2>7 DEF RegistryStep
<1>2. CASE StartUp
  BY <1>2, BootKeeps
<1>3. ASSUME NEW killed \in BOOLEAN, MayGo(killed), Gone(killed) PROVE DefinitionInv'
  BY <1>3, GoneKeepsRegistry
<1>4. CASE UNCHANGED registryVars
  <2>1. Typed' /\ Orderly' /\ Matching' /\ Truthful'
    BY <1>4 DEF DefinitionInv, Typed, Orderly, Matching, Truthful, Idle, registryVars
  <2> QED BY <2>1 DEF DefinitionInv
<1> QED BY <1>1, <1>2, <1>3, <1>4 DEF RegistryNext

-----------------------------------------------------------------------------
(* The sort.                                                               *)

\* Sets of services are finite.
LEMMA Finite ==
    /\ IsFiniteSet(Ids)
    /\ \A S \in SUBSET Ids : /\ IsFiniteSet(S) /\ Cardinality(S) \in Nat
                             /\ Cardinality(S) <= Cardinality(Ids)
    /\ \A S \in SUBSET (Ids \cup {Unknown}) : /\ IsFiniteSet(S) /\ Cardinality(S) \in Nat
                                              /\ Cardinality(S) <= Cardinality(Ids) + 1
<1>1. IsFiniteSet(Ids)
  BY RegistryAssumption
<1>2. /\ IsFiniteSet(Ids \cup {Unknown})
      /\ Cardinality(Ids \cup {Unknown}) = Cardinality(Ids) + 1
  BY <1>1, RegistryAssumption, FS_AddElement
<1> QED BY <1>1, <1>2, FS_Subset, FS_CardinalityType

\* A service needs services and the unknown name.
LEMMA NeedsAre ==
    ASSUME Typed, NEW i \in Ids
    PROVE  Needs(i) \in SUBSET (Ids \cup {Unknown})
<1>1. definition[i] \in Definition
  BY Fields DEF Typed
<1> QED BY <1>1, Fields DEF Needs

\* An order of a set is a sequence of its members, each once.
LEMMA OrderIs ==
    ASSUME NEW S, IsFiniteSet(S), NEW q \in InSomeOrder(S)
    PROVE  /\ q \in Seq(S) /\ Len(q) = Cardinality(S) /\ DOMAIN q = 1..Cardinality(S)
           /\ Once(q) /\ Members(q) = S
<1> DEFINE n == Cardinality(S)
<1>1. n \in Nat
  BY FS_CardinalityType
<1>2. q \in [1..n -> S] /\ \A j, k \in 1..n : q[j] = q[k] => j = k
  BY DEF InSomeOrder
<1> HIDE DEF n
<1>3. q \in Seq(S) /\ Len(q) = n /\ DOMAIN q = 1..n
  BY <1>1, <1>2
<1>4. IsFiniteSet(1..n) /\ Cardinality(1..n) = n
  BY <1>1, FS_Interval
<1>5. q \in Injection(1..n, S)
  BY <1>2 DEF Injection, IsInjective
<1>6. q \in Surjection(1..n, S)
  BY <1>4, <1>5, FS_Injection DEF n
<1>7. Members(q) = S
  BY <1>3, <1>6 DEF Members, Surjection
<1> QED BY <1>2, <1>3, <1>7 DEF Once, n

\* A sequence of services, each once, has as many as there are services only if
\* it has them all.
LEMMA AllMembers ==
    ASSUME NEW S, IsFiniteSet(S), NEW q \in Seq(S), Once(q)
    PROVE  /\ Len(q) <= Cardinality(S)
           /\ Len(q) = Cardinality(S) <=> Members(q) = S
<1> DEFINE n == Len(q)
<1>1. n \in Nat /\ q \in [1..n -> S] /\ DOMAIN q = 1..n
  OBVIOUS
<1>2. q \in Injection(1..n, S)
  BY <1>1 DEF Injection, IsInjective, Once
<1>3. Cardinality(1..n) = n
  BY <1>1, FS_Interval
<1>4. n <= Cardinality(S) /\ (n = Cardinality(S) <=> q \in Surjection(1..n, S))
  BY <1>2, <1>3, FS_Injection
<1>5. q \in Surjection(1..n, S) <=> Members(q) = S
  BY <1>1 DEF Members, Surjection
<1> QED BY <1>4, <1>5

\* The head of the queue is sorted, and what is due is queued.
LEMMA QueueMoves ==
    ASSUME NEW H, NEW queue \in Seq(H), NEW sorted \in Seq(H), NEW q \in Seq(H),
           Once(queue), Once(sorted), Once(q), queue # <<>>,
           Members(queue) \cap Members(sorted) = {},
           Members(q) \cap (Members(queue) \cup Members(sorted)) = {}
    PROVE  /\ Head(queue) \in Members(queue) /\ Head(queue) \in H
           /\ Tail(queue) \o q \in Seq(H) /\ Once(Tail(queue) \o q)
           /\ Members(Tail(queue) \o q) = (Members(queue) \ {Head(queue)}) \cup Members(q)
           /\ Append(sorted, Head(queue)) \in Seq(H) /\ Once(Append(sorted, Head(queue)))
           /\ Members(Append(sorted, Head(queue))) = Members(sorted) \cup {Head(queue)}
<1> DEFINE n == Len(queue)
           tail == Tail(queue)
           node == Head(queue)
           rest == tail \o q
           done == Append(sorted, node)
<1>1. /\ n \in Nat /\ n >= 1 /\ DOMAIN queue = 1..n /\ node = queue[1]
      /\ \A j \in 1..n : queue[j] \in H
  OBVIOUS
<1>2. node \in Members(queue) /\ node \in H
  BY <1>1 DEF Members
<1>3. /\ tail \in Seq(H) /\ Len(tail) = n - 1 /\ DOMAIN tail = 1..(n - 1)
      /\ \A j \in 1..(n - 1) : tail[j] = queue[j + 1]
  BY <1>1
<1>4. Members(tail) = Members(queue) \ {node}
  <2>1. \A j \in 1..(n - 1) : tail[j] \in Members(queue) \ {node}
    <3> SUFFICES ASSUME NEW j \in 1..(n - 1) PROVE tail[j] \in Members(queue) \ {node}
      OBVIOUS
    <3>1. j + 1 \in 1..n /\ 1 \in 1..n /\ j + 1 # 1 /\ tail[j] = queue[j + 1]
      BY <1>1, <1>3
    <3>2. queue[j + 1] # queue[1]
      BY <1>1, <3>1 DEF Once
    <3> QED BY <1>1, <3>1, <3>2 DEF Members
  <2>2. \A k \in 1..n : queue[k] # node => queue[k] \in Members(tail)
    <3> SUFFICES ASSUME NEW k \in 1..n, queue[k] # node PROVE queue[k] \in Members(tail)
      OBVIOUS
    <3>1. k - 1 \in 1..(n - 1) /\ tail[k - 1] = queue[k]
      BY <1>1, <1>3
    <3> QED BY <1>3, <3>1 DEF Members
  <2> QED BY <1>1, <1>3, <2>1, <2>2 DEF Members
<1>5. Once(tail)
  <2> SUFFICES ASSUME NEW j \in 1..(n - 1), NEW k \in 1..(n - 1), tail[j] = tail[k]
               PROVE  j = k
    BY <1>3 DEF Once
  <2>1. j + 1 \in 1..n /\ k + 1 \in 1..n /\ queue[j + 1] = queue[k + 1]
    BY <1>1, <1>3
  <2>2. j + 1 = k + 1
    BY <1>1, <2>1 DEF Once
  <2> QED BY <2>2
<1> HIDE DEF tail
<1> DEFINE m == Len(tail)
           p == Len(q)
<1>6. /\ rest \in Seq(H) /\ DOMAIN rest = 1..(m + p)
      /\ \A j \in 1..m : rest[j] = tail[j]
      /\ \A j \in 1..p : rest[j + m] = q[j]
      /\ m \in Nat /\ p \in Nat /\ DOMAIN tail = 1..m /\ DOMAIN q = 1..p
  <2>1. m \in Nat /\ p \in Nat /\ DOMAIN tail = 1..m /\ DOMAIN q = 1..p
    BY <1>3
  <2>2. rest \in Seq(H) /\ Len(rest) = m + p
    BY <1>3
  <2>3. \A j \in 1..(m + p) : rest[j] = IF j <= m THEN tail[j] ELSE q[j - m]
    BY <1>3
  <2>4. \A j \in 1..m : rest[j] = tail[j]
    BY <2>1, <2>3
  <2>5. \A j \in 1..p : rest[j + m] = q[j]
    <3> SUFFICES ASSUME NEW j \in 1..p PROVE rest[j + m] = q[j]
      OBVIOUS
    <3>1. j + m \in 1..(m + p) /\ ~(j + m <= m) /\ (j + m) - m = j
      BY <2>1
    <3> QED BY <2>3, <3>1
  <2> QED BY <2>1, <2>2, <2>4, <2>5
<1> HIDE DEF m, p
<1> HIDE DEF rest
<1>7. Members(rest) = Members(tail) \cup Members(q)
  <2>1. \A j \in DOMAIN rest : j \in 1..m \/ (j - m \in 1..p /\ rest[j] = q[j - m])
    <3> SUFFICES ASSUME NEW j \in 1..(m + p), j \notin 1..m
                 PROVE  j - m \in 1..p /\ rest[j] = q[j - m]
      BY <1>6
    <3>1. j - m \in 1..p /\ (j - m) + m = j
      BY <1>6
    <3> QED BY <1>6, <3>1
  <2>2. \A j \in DOMAIN rest : rest[j] \in Members(tail) \cup Members(q)
    BY <1>6, <2>1 DEF Members
  <2>3. \A j \in DOMAIN tail : tail[j] \in Members(rest)
    BY <1>6 DEF Members
  <2>4. \A j \in DOMAIN q : q[j] \in Members(rest)
    <3> SUFFICES ASSUME NEW j \in DOMAIN q PROVE q[j] \in Members(rest)
      OBVIOUS
    <3>1. j + m \in DOMAIN rest /\ rest[j + m] = q[j]
      BY <1>6
    <3> QED BY <3>1 DEF Members
  <2> QED BY <2>2, <2>3, <2>4 DEF Members
<1>8. Once(rest)
  <2>1. \A j \in DOMAIN rest : \/ (j \in 1..m /\ rest[j] = tail[j])
                               \/ (j - m \in 1..p /\ rest[j] = q[j - m])
    <3> SUFFICES ASSUME NEW j \in 1..(m + p), j \notin 1..m
                 PROVE  j - m \in 1..p /\ rest[j] = q[j - m]
      BY <1>6
    <3>1. j - m \in 1..p /\ (j - m) + m = j
      BY <1>6
    <3> QED BY <1>6, <3>1
  <2>2. \A a \in 1..m, b \in 1..p : tail[a] # q[b]
    <3>1. \A a \in 1..m : tail[a] \in Members(queue)
      BY <1>4, <1>6 DEF Members
    <3>2. \A b \in 1..p : q[b] \in Members(q)
      BY <1>6 DEF Members
    <3> QED BY <3>1, <3>2
  <2>3. \A a, b \in 1..m : tail[a] = tail[b] => a = b
    BY <1>5, <1>6 DEF Once
  <2>4. \A a, b \in 1..p : q[a] = q[b] => a = b
    BY <1>6 DEF Once
  <2> SUFFICES ASSUME NEW j \in 1..(m + p), NEW k \in 1..(m + p), rest[j] = rest[k]
               PROVE  j = k
    BY <1>6 DEF Once
  <2>5. CASE j \in 1..m /\ k \in 1..m
    BY <1>6, <2>3, <2>5
  <2>6. CASE j \notin 1..m /\ k \notin 1..m
    <3>1. j \in DOMAIN rest /\ k \in DOMAIN rest
      BY <1>6
    <3>2. j - m \in 1..p /\ k - m \in 1..p /\ q[j - m] = q[k - m]
      BY <2>1, <2>6, <3>1
    <3>3. j - m = k - m
      BY <2>4, <3>2
    <3> QED BY <1>6, <3>3
  <2>7. CASE j \in 1..m /\ k \notin 1..m
    <3>1. j \in DOMAIN rest /\ k \in DOMAIN rest
      BY <1>6
    <3>2. rest[j] = tail[j] /\ k - m \in 1..p /\ rest[k] = q[k - m]
      BY <1>6, <2>1, <2>7, <3>1
    <3> QED BY <2>2, <2>7, <3>2
  <2>8. CASE j \notin 1..m /\ k \in 1..m
    <3>1. j \in DOMAIN rest /\ k \in DOMAIN rest
      BY <1>6
    <3>2. rest[k] = tail[k] /\ j - m \in 1..p /\ rest[j] = q[j - m]
      BY <1>6, <2>1, <2>8, <3>1
    <3> QED BY <2>2, <2>8, <3>2
  <2> QED BY <2>5, <2>6, <2>7, <2>8
<1>9. /\ done \in Seq(H) /\ DOMAIN done = 1..(Len(sorted) + 1) /\ Len(sorted) \in Nat
      /\ DOMAIN sorted = 1..Len(sorted) /\ done[Len(sorted) + 1] = node
      /\ \A j \in 1..Len(sorted) : done[j] = sorted[j]
  BY <1>2
<1> HIDE DEF done
<1>10. Members(done) = Members(sorted) \cup {node}
  <2>1. \A j \in DOMAIN done : j \in 1..Len(sorted) \/ j = Len(sorted) + 1
    BY <1>9
  <2>2. \A j \in DOMAIN done : done[j] \in Members(sorted) \cup {node}
    BY <1>9, <2>1 DEF Members
  <2>3. \A j \in DOMAIN sorted : sorted[j] \in Members(done)
    BY <1>9 DEF Members
  <2>4. node \in Members(done)
    <3>1. Len(sorted) + 1 \in DOMAIN done
      BY <1>9
    <3> QED BY <1>9, <3>1 DEF Members
  <2> QED BY <2>2, <2>3, <2>4 DEF Members
<1>11. Once(done)
  <2>1. \A j \in 1..Len(sorted) : sorted[j] # node
    <3>1. \A j \in 1..Len(sorted) : sorted[j] \in Members(sorted)
      BY <1>9 DEF Members
    <3> QED BY <1>2, <3>1
  <2> SUFFICES ASSUME NEW j \in 1..(Len(sorted) + 1), NEW k \in 1..(Len(sorted) + 1), done[j] = done[k]
               PROVE  j = k
    BY <1>9 DEF Once
  <2>2. CASE j \in 1..Len(sorted) /\ k \in 1..Len(sorted)
    BY <1>9, <2>2 DEF Once
  <2>3. CASE j = Len(sorted) + 1 /\ k \in 1..Len(sorted)
    <3>1. done[j] = node /\ done[k] = sorted[k]
      BY <1>9, <2>3
    <3> QED BY <2>1, <2>3, <3>1
  <2>4. CASE k = Len(sorted) + 1 /\ j \in 1..Len(sorted)
    <3>1. done[k] = node /\ done[j] = sorted[j]
      BY <1>9, <2>4
    <3> QED BY <2>1, <2>4, <3>1
  <2> QED BY <1>9, <2>2, <2>3, <2>4
<1> QED BY <1>2, <1>4, <1>6, <1>7, <1>8, <1>9, <1>10, <1>11 DEF tail, rest, done

\* The sort before it begins.
LEMMA SortFields ==
    /\ NoSort.degree = [i \in Ids |-> 0] /\ NoSort.queue = <<>> /\ NoSort.sorted = <<>>
    /\ NoSort.result = "none"
    /\ DOMAIN NoSort = {"degree", "queue", "sorted", "result"}
BY DEF NoSort

\* What is counted when the sort begins.
LEMMA CountKeeps ==
    ASSUME DefinitionInv, SortInv, CountDegrees
    PROVE  SortInv'
<1>1. Typed
  BY DEF DefinitionInv
<1> DEFINE free == {i \in held : Needs(i) = {}}
           degree == [i \in Ids |-> IF i \in held THEN Cardinality(Needs(i)) ELSE 0]
<1>2. PICK q \in InSomeOrder(free) :
          sort' = [NoSort EXCEPT !.queue = q, !.degree = degree,
                     !.result = IF held = {} THEN "sorted"
                                ELSE IF q = <<>> THEN "cycle" ELSE "none"]
  BY DEF CountDegrees
<1>3. stage = "sorting" /\ UNCHANGED <<stage, held, definition>>
  BY DEF CountDegrees
<1>4. held \in SUBSET Ids /\ IsFiniteSet(held) /\ IsFiniteSet(free) /\ free \subseteq held
  BY <1>1, Finite DEF Typed
<1>5. /\ q \in Seq(free) /\ Len(q) = Cardinality(free) /\ Once(q) /\ Members(q) = free
      /\ q = <<>> <=> free = {}
  <2>1. /\ q \in Seq(free) /\ Len(q) = Cardinality(free) /\ Once(q) /\ Members(q) = free
    BY <1>4, OrderIs
  <2>2. Cardinality(free) = 0 <=> free = {}
    BY <1>4, FS_EmptySet
  <2> QED BY <2>1, <2>2
<1>6. \A i \in held : /\ Cardinality(Needs(i)) \in Nat
                      /\ Cardinality(Needs(i)) = 0 <=> Needs(i) = {}
  BY <1>1, <1>4, NeedsAre, Finite, FS_EmptySet
<1> HIDE DEF free, degree
<1>7. /\ sort'.degree = degree /\ sort'.queue = q /\ sort'.sorted = <<>>
      /\ sort'.result = IF held = {} THEN "sorted" ELSE IF q = <<>> THEN "cycle" ELSE "none"
      /\ DOMAIN sort' = {"degree", "queue", "sorted", "result"}
  BY <1>2 DEF NoSort
<1>8. /\ degree \in [Ids -> Nat]
      /\ \A i \in Ids : degree[i] = IF i \in held THEN Cardinality(Needs(i)) ELSE 0
  BY <1>6 DEF degree
<1>9. Members(<<>>) = {} /\ Once(<<>>) /\ <<>> \in Seq(held) /\ Len(<<>>) = 0 /\ DOMAIN <<>> = {}
  BY DEF Members, Once
<1>10. q \in Seq(held)
  BY <1>4, <1>5
<1>11. \A i \in Ids : Needs(i)' = Needs(i)
  BY <1>3 DEF Needs
<1>12. \A i \in held : degree[i] = 0 <=> i \in Members(q) \cup {}
  BY <1>4, <1>5, <1>6, <1>8 DEF free
<1>13. sort'.result = IF q # <<>> THEN "none"
                      ELSE IF 0 = Cardinality(held) THEN "sorted" ELSE "cycle"
  <2>1. Cardinality(held) = 0 <=> held = {}
    BY <1>4, FS_EmptySet
  <2>2. held = {} => q = <<>>
    BY <1>4, <1>5
  <2> QED BY <1>7, <2>1, <2>2
<1>14. Counted'
  <2>1. sort'.degree \in [Ids -> Nat] /\ sort'.queue \in Seq(held') /\ sort'.sorted \in Seq(held')
    BY <1>3, <1>7, <1>8, <1>9, <1>10
  <2>2. /\ Once(sort'.queue) /\ Once(sort'.sorted)
        /\ Members(sort'.queue) \cap Members(sort'.sorted) = {}
    BY <1>5, <1>7, <1>9
  <2>3. \A i \in Ids : sort'.degree[i] = IF i \in held'
                                         THEN Cardinality(Needs(i)' \ Members(sort'.sorted))
                                         ELSE 0
    BY <1>3, <1>7, <1>8, <1>9, <1>11
  <2>4. \A i \in held' : sort'.degree[i] = 0
                           <=> i \in Members(sort'.queue) \cup Members(sort'.sorted)
    BY <1>3, <1>7, <1>9, <1>12
  <2>5. DOMAIN sort'.sorted = {} /\ Len(sort'.sorted) = 0
    BY <1>7, <1>9
  <2>6. sort'.result = IF sort'.queue # <<>> THEN "none"
                       ELSE IF Len(sort'.sorted) = Cardinality(held') THEN "sorted"
                       ELSE "cycle"
    BY <1>3, <1>7, <1>13, <2>5
  <2> QED BY <2>1, <2>2, <2>3, <2>4, <2>5, <2>6 DEF Counted
<1> QED BY <1>3, <1>7, <1>14 DEF SortInv

\* One dependency less for the dependents of a service that is sorted.
LEMMA OneLess ==
    ASSUME NEW N, IsFiniteSet(N), NEW M, NEW node, node \notin M
    PROVE  /\ Cardinality(N \ M) \in Nat
           /\ Cardinality(N \ (M \cup {node}))
                = IF node \in N THEN Cardinality(N \ M) - 1 ELSE Cardinality(N \ M)
           /\ node \in N => Cardinality(N \ M) > 0
<1>1. IsFiniteSet(N \ M)
  BY FS_Difference
<1>2. N \ (M \cup {node}) = (N \ M) \ {node}
  OBVIOUS
<1>3. node \in N <=> node \in N \ M
  OBVIOUS
<1>4. Cardinality(N \ M) \in Nat /\ (N \ M # {} => Cardinality(N \ M) # 0)
  BY <1>1, FS_CardinalityType, FS_EmptySet
<1>5. Cardinality((N \ M) \ {node}) = IF node \in N \ M THEN Cardinality(N \ M) - 1
                                                        ELSE Cardinality(N \ M)
  BY <1>1, FS_RemoveElement
<1>6. Cardinality(N \ (M \cup {node})) = Cardinality((N \ M) \ {node})
  BY <1>2
<1>7. node \in N => Cardinality(N \ M) # 0
  BY <1>3, <1>4
<1>8. node \in N => Cardinality(N \ M) > 0
  BY <1>4, <1>7
<1> QED BY <1>3, <1>4, <1>5, <1>6, <1>8, Zenon

\* The next service of the queue is sorted.
LEMMA PopKeeps ==
    ASSUME DefinitionInv, SortInv, Pop
    PROVE  SortInv'
<1> DEFINE S == Members(sort.sorted)
           Q == Members(sort.queue)
           node == Head(sort.queue)
           less == [i \in Ids |-> IF i \in Dependents(node) THEN sort.degree[i] - 1
                                                            ELSE sort.degree[i]]
           due  == {i \in Dependents(node) : less[i] = 0}
<1>1. Typed
  BY DEF DefinitionInv
<1>2. stage = "sorting" /\ sort.queue # <<>> /\ UNCHANGED <<stage, held, definition>>
  BY DEF Pop
<1>3. Counted
  BY <1>2, SortFields DEF SortInv
<1>4. PICK q \in InSomeOrder(due) :
          sort' = [degree |-> less, queue |-> Tail(sort.queue) \o q,
                   sorted |-> Append(sort.sorted, node),
                   result |-> IF Tail(sort.queue) \o q # <<>> THEN "none"
                              ELSE IF Len(Append(sort.sorted, node)) = Cardinality(held) THEN "sorted"
                              ELSE "cycle"]
  BY DEF Pop
<1> DEFINE queue == Tail(sort.queue) \o q
           done  == Append(sort.sorted, node)
<1>5. /\ sort'.degree = less /\ sort'.queue = queue /\ sort'.sorted = done
      /\ sort'.result = IF queue # <<>> THEN "none"
                        ELSE IF Len(done) = Cardinality(held) THEN "sorted" ELSE "cycle"
      /\ DOMAIN sort' = {"degree", "queue", "sorted", "result"}
  BY <1>4
<1>6. held \in SUBSET Ids /\ \A i \in Ids : Needs(i)' = Needs(i)
  BY <1>1, <1>2 DEF Typed, Needs
<1>7. /\ sort.degree \in [Ids -> Nat] /\ sort.queue \in Seq(held) /\ sort.sorted \in Seq(held)
      /\ Once(sort.queue) /\ Once(sort.sorted) /\ Q \cap S = {}
      /\ \A i \in Ids : sort.degree[i] = IF i \in held THEN Cardinality(Needs(i) \ S) ELSE 0
      /\ \A i \in held : sort.degree[i] = 0 <=> i \in Q \cup S
      /\ \A k \in DOMAIN sort.sorted : \A n \in Needs(sort.sorted[k]) :
            \E j \in DOMAIN sort.sorted : j < k /\ sort.sorted[j] = n
  BY <1>3 DEF Counted
<1>8. node \in Q /\ node \in held
  <2>1. sort.queue[1] = node /\ 1 \in DOMAIN sort.queue /\ node \in held
    BY <1>2, <1>7
  <2> QED BY <2>1 DEF Members
<1>9. node \notin S
  BY <1>7, <1>8
<1>10. \A i \in held : /\ IsFiniteSet(Needs(i))
                       /\ i \in Dependents(node) <=> node \in Needs(i)
  BY <1>1, <1>6, NeedsAre, Finite, RegistryAssumption, FS_Subset, FS_AddElement DEF Dependents
<1>11. Dependents(node) \subseteq held
  BY DEF Dependents
<1>12. /\ less = [i \in Ids |-> less[i]]
       /\ \A i \in Ids : less[i] = IF i \in Dependents(node) THEN sort.degree[i] - 1
                                                             ELSE sort.degree[i]
  OBVIOUS
<1>13. \A i : i \in due <=> i \in Dependents(node) /\ less[i] = 0
  OBVIOUS
<1> HIDE DEF S, Q, node, less, due, queue, done
<1>14. ASSUME NEW i \in held
       PROVE  /\ less[i] = Cardinality(Needs(i) \ (S \cup {node}))
              /\ less[i] \in Nat
              /\ i \in Dependents(node) => sort.degree[i] # 0
  <2>1. /\ Cardinality(Needs(i) \ S) \in Nat
        /\ Cardinality(Needs(i) \ (S \cup {node}))
             = IF node \in Needs(i) THEN Cardinality(Needs(i) \ S) - 1 ELSE Cardinality(Needs(i) \ S)
        /\ node \in Needs(i) => Cardinality(Needs(i) \ S) > 0
    BY <1>9, <1>10, OneLess
  <2>2. i \in Ids
    BY <1>6
  <2>3. less[i] = IF i \in Dependents(node) THEN sort.degree[i] - 1 ELSE sort.degree[i]
    BY <1>12, <2>2
  <2>4. sort.degree[i] = Cardinality(Needs(i) \ S)
    BY <1>7, <2>2
  <2>5. i \in Dependents(node) <=> node \in Needs(i)
    BY <1>10
  <2> QED BY <2>1, <2>3, <2>4, <2>5
<1>15. \A i \in Ids \ held : less[i] = 0
  BY <1>7, <1>11, <1>12
<1>16. less \in [Ids -> Nat]
  <2>1. \A i \in held : less[i] \in Nat
    BY <1>14
  <2>2. \A i \in Ids : less[i] \in Nat
    BY <1>15, <2>1
  <2> QED BY <1>12, <2>2
<1>17. due \subseteq held /\ due \cap (Q \cup S) = {}
  <2>1. \A i \in due : i \in held /\ sort.degree[i] # 0
    BY <1>11, <1>13, <1>14
  <2> QED BY <1>7, <2>1
<1>18. q \in Seq(due) /\ Once(q) /\ Members(q) = due
  <2>1. IsFiniteSet(due)
    BY <1>6, <1>17, Finite
  <2> QED BY <2>1, OrderIs
<1>19. q \in Seq(held)
  BY <1>17, <1>18
<1>20. /\ queue \in Seq(held) /\ Once(queue) /\ Members(queue) = (Q \ {node}) \cup due
       /\ done \in Seq(held) /\ Once(done) /\ Members(done) = S \cup {node}
  <2>1. Members(q) \cap (Members(sort.queue) \cup Members(sort.sorted)) = {}
    BY <1>17, <1>18 DEF Q, S
  <2>2. Members(sort.queue) \cap Members(sort.sorted) = {}
    BY <1>7 DEF Q, S
  <2> QED BY <1>2, <1>7, <1>18, <1>19, <2>1, <2>2, QueueMoves DEF Q, S, node, queue, done
<1>21. Members(queue) \cap Members(done) = {}
  BY <1>7, <1>8, <1>17, <1>20
<1>22. ASSUME NEW i \in held
       PROVE  less[i] = 0 <=> i \in Members(queue) \cup Members(done)
  <2>1. i \in Ids
    BY <1>6
  <2>2. CASE i \in Dependents(node)
    <3>1. i \notin Q \cup S
      BY <1>7, <1>14, <2>2
    <3>2. i \in due <=> less[i] = 0
      BY <1>13, <2>2
    <3> QED BY <1>8, <1>20, <3>1, <3>2
  <2>3. CASE i \notin Dependents(node)
    <3>1. less[i] = sort.degree[i] /\ i \notin due
      BY <1>12, <1>13, <2>1, <2>3
    <3>2. sort.degree[i] = 0 <=> i \in Q \cup S
      BY <1>7
    <3> QED BY <1>8, <1>20, <3>1, <3>2
  <2> QED BY <2>2, <2>3
<1>23. \A k \in DOMAIN done : \A n \in Needs(done[k]) :
            \E j \in DOMAIN done : j < k /\ done[j] = n
  <2> DEFINE m == Len(sort.sorted)
  <2>1. /\ m \in Nat /\ DOMAIN sort.sorted = 1..m /\ DOMAIN done = 1..(m + 1)
        /\ done[m + 1] = node /\ \A j \in 1..m : done[j] = sort.sorted[j]
    BY <1>7, <1>8 DEF done
  <2> HIDE DEF m
  <2> SUFFICES ASSUME NEW k \in DOMAIN done, NEW n \in Needs(done[k])
               PROVE  \E j \in DOMAIN done : j < k /\ done[j] = n
    OBVIOUS
  <2>2. CASE k \in 1..m
    <3>1. n \in Needs(sort.sorted[k])
      BY <2>1, <2>2
    <3>2. PICK j \in DOMAIN sort.sorted : j < k /\ sort.sorted[j] = n
      BY <1>7, <2>1, <2>2, <3>1
    <3> QED BY <2>1, <3>2
  <2>3. CASE k = m + 1
    <3>1. Cardinality(Needs(node) \ S) = 0
      BY <1>6, <1>7, <1>8
    <3>2. IsFiniteSet(Needs(node) \ S)
      BY <1>8, <1>10, FS_Difference
    <3>3. Needs(node) \ S = {}
      BY <3>1, <3>2, FS_EmptySet
    <3>4. n \in S
      BY <2>1, <2>3, <3>3
    <3>5. PICK j \in DOMAIN sort.sorted : sort.sorted[j] = n
      BY <3>4 DEF S, Members
    <3> QED BY <2>1, <2>3, <3>5
  <2> QED BY <2>1, <2>2, <2>3
<1>24. Counted'
  <2>1. sort'.degree \in [Ids -> Nat] /\ sort'.queue \in Seq(held') /\ sort'.sorted \in Seq(held')
    BY <1>2, <1>5, <1>16, <1>20
  <2>2. /\ Once(sort'.queue) /\ Once(sort'.sorted)
        /\ Members(sort'.queue) \cap Members(sort'.sorted) = {}
    BY <1>5, <1>20, <1>21
  <2>3. \A i \in Ids : sort'.degree[i] = IF i \in held'
                                         THEN Cardinality(Needs(i)' \ Members(sort'.sorted))
                                         ELSE 0
    BY <1>2, <1>5, <1>6, <1>14, <1>15, <1>20
  <2>4. \A i \in held' : sort'.degree[i] = 0
                           <=> i \in Members(sort'.queue) \cup Members(sort'.sorted)
    BY <1>2, <1>5, <1>22
  <2>5. \A k \in DOMAIN sort'.sorted : \A n \in definition'[sort'.sorted[k]].needs :
            \E j \in DOMAIN sort'.sorted : j < k /\ sort'.sorted[j] = n
    BY <1>2, <1>5, <1>23 DEF Needs
  <2>6. sort'.result = IF sort'.queue # <<>> THEN "none"
                       ELSE IF Len(sort'.sorted) = Cardinality(held') THEN "sorted"
                       ELSE "cycle"
    BY <1>2, <1>5
  <2> QED BY <2>1, <2>2, <2>3, <2>4, <2>5, <2>6 DEF Counted, Needs
<1> QED BY <1>2, <1>5, <1>24 DEF SortInv

\* Only the sort changes the sort; what it counts stays as it is meanwhile.
LEMMA SortNext == RegistryInv /\ [RegistryNext]_registryVars => SortInv'
<1> SUFFICES ASSUME DefinitionInv, SortInv, [RegistryNext]_registryVars PROVE SortInv'
  BY DEF RegistryInv
<1>1. Typed /\ Orderly
  BY DEF DefinitionInv
<1>2. ASSUME UNCHANGED <<stage, held, definition, sort>> PROVE SortInv'
  BY <1>2 DEF SortInv, Counted, Needs, NoSort
<1>3. ASSUME sort' = NoSort PROVE SortInv'
  BY <1>3, SortFields DEF SortInv, NoSort
<1>4. ASSUME stage # "sorting", sort' = sort PROVE SortInv'
  BY <1>3, <1>4 DEF SortInv
<1>5. CASE RegistryStep
  <2>1. ASSUME NEW i \in Ids, NEW d \in Sent, Add(i, d) \/ Update(i, d) PROVE SortInv'
    BY <1>4, <2>1 DEF Add, Update, runtime
  <2>2. ASSUME NEW i \in Ids, Remove(i) PROVE SortInv'
    BY <1>4, <2>2 DEF Remove, runtime
  <2>3. ASSUME NEW i \in Ids, Lookup(i) \/ StartService(i) \/ End(i) PROVE SortInv'
    <3>1. CASE Lookup(i) \/ End(i)
      BY <1>2, <3>1 DEF Lookup, End
    <3>2. CASE StartService(i)
      BY <1>1, <1>4, <3>2 DEF StartService, Orderly
    <3> QED BY <2>3, <3>1, <3>2
  <2>4. CASE TruncateFile \/ FillFile \/ SaveService \/ WriteFails
    BY <1>2, <2>4 DEF TruncateFile, FillFile, SaveService, WriteFails, runtime
  <2>5. CASE Install
    BY <1>1, <1>4, <2>5 DEF Install, runtime, Orderly, Idle
  <2>6. CASE LoadAll
    BY <1>4, <2>6 DEF LoadAll
  <2>7. CASE CountDegrees
    BY <2>7, CountKeeps
  <2>8. CASE Pop
    BY <2>8, PopKeeps
  <2>9. CASE AutoStart
    BY <1>3, <2>9 DEF AutoStart
  <2> QED BY <1>5, <2>1, <2>2, <2>3, <2>4, <2>5, <2>6, <2>7, <2>8, <2>9 DEF RegistryStep
<1>6. CASE StartUp
  BY <1>4, <1>6 DEF StartUp
<1>7. ASSUME NEW killed \in BOOLEAN, Gone(killed) PROVE SortInv'
  BY <1>3, <1>7 DEF Gone
<1>8. CASE UNCHANGED registryVars
  BY <1>2, <1>8 DEF registryVars
<1> QED BY <1>5, <1>6, <1>7, <1>8 DEF RegistryNext

\* The invariant holds.
LEMMA Registered == RegistrySpec => []RegistryInv
<1>1. RegistryInit => RegistryInv
  BY DefinitionStart, SortFields DEF RegistryInit, RegistryInv, SortInv
<1>2. RegistryInv /\ [RegistryNext]_registryVars => RegistryInv'
  BY DefinitionNext, SortNext DEF RegistryInv
<1> QED BY <1>1, <1>2, PTL DEF RegistrySpec

-----------------------------------------------------------------------------
(* The theorems.                                                           *)

\* No degree exceeds the services and the one unknown name, and neither queue
\* nor order has a service twice.
LEMMA SortTypes ==
    ASSUME RegistryInv
    PROVE  /\ sort.degree \in [Ids -> 0..(Cardinality(Ids) + 1)]
           /\ Len(sort.queue) <= Cardinality(Ids) /\ Len(sort.sorted) <= Cardinality(Ids)
           /\ sort.result \in {"none", "sorted", "cycle"}
<1>1. Typed /\ SortInv /\ Cardinality(Ids) \in Nat
  BY Finite DEF RegistryInv, DefinitionInv
<1>2. CASE sort = NoSort
  BY <1>1, <1>2, SortFields
<1>3. CASE Counted
  <2>1. /\ sort.degree \in [Ids -> Nat]
        /\ sort.queue \in Seq(held) /\ sort.sorted \in Seq(held)
        /\ Once(sort.queue) /\ Once(sort.sorted)
        /\ \A i \in Ids : sort.degree[i] = IF i \in held
                                           THEN Cardinality(Needs(i) \ Members(sort.sorted))
                                           ELSE 0
    BY <1>3 DEF Counted
  <2>2. \A i \in Ids : sort.degree[i] \in 0..(Cardinality(Ids) + 1)
    <3> SUFFICES ASSUME NEW i \in Ids PROVE sort.degree[i] \in 0..(Cardinality(Ids) + 1)
      OBVIOUS
    <3>1. Needs(i) \ Members(sort.sorted) \in SUBSET (Ids \cup {Unknown})
      BY <1>1, NeedsAre
    <3>2. /\ Cardinality(Needs(i) \ Members(sort.sorted)) \in Nat
          /\ Cardinality(Needs(i) \ Members(sort.sorted)) <= Cardinality(Ids) + 1
      BY <3>1, Finite
    <3>3. sort.degree[i] \in Nat
      BY <2>1
    <3>4. \/ sort.degree[i] = 0
          \/ sort.degree[i] = Cardinality(Needs(i) \ Members(sort.sorted))
      BY <2>1
    <3>5. sort.degree[i] <= Cardinality(Ids) + 1
      BY <1>1, <3>2, <3>4
    <3> QED BY <1>1, <3>3, <3>5
  <2>3. held \in SUBSET Ids
    BY <1>1 DEF Typed
  <2>4. /\ IsFiniteSet(held) /\ Cardinality(held) \in Nat
        /\ Cardinality(held) <= Cardinality(Ids)
    BY <2>3, Finite
  <2>5. Len(sort.queue) <= Cardinality(held) /\ Len(sort.sorted) <= Cardinality(held)
    BY <2>1, <2>4, AllMembers
  <2>6. Len(sort.queue) \in Nat /\ Len(sort.sorted) \in Nat
    BY <2>1
  <2>7. sort.result \in {"none", "sorted", "cycle"}
    BY <1>3 DEF Counted
  <2> QED BY <1>1, <2>1, <2>2, <2>4, <2>5, <2>6, <2>7
<1> QED BY <1>1, <1>2, <1>3 DEF SortInv

\* The registry's variables have their types in every reachable state: in
\* particular the files that can be found are those a definition is written as
\* and those of an interrupted write, and there is at most one cron entry for a
\* service's schedule.
THEOREM RegistryTypes == RegistrySpec => []RegistryTypeOK
<1>1. RegistryInv => RegistryTypeOK
  <2> SUFFICES ASSUME RegistryInv PROVE RegistryTypeOK
    OBVIOUS
  <2>1. Typed
    BY DEF RegistryInv, DefinitionInv
  <2> QED BY <2>1, SortTypes DEF RegistryTypeOK, Typed
<1> QED BY <1>1, Registered, PTL

\* Between operations the manager, the files and the scheduler agree on the
\* services (SaveServiceConfig, ToService, updateServiceJobs and startService's
\* directory): a service is held as its file says or written as its file, but for
\* a directory that a start filled in, and an expressible one has lost nothing in
\* the file but the interpreter.
THEOREM DefinitionsCorrect == RegistrySpec => []DefinitionsMatch
<1>1. RegistryInv => DefinitionsMatch
  <2> SUFFICES ASSUME RegistryInv, stage = "up", Idle PROVE DefinitionsMatch
    BY DEF DefinitionsMatch
  <2>1. Typed /\ Matching
    BY DEF RegistryInv, DefinitionInv
  <2>2. ASSUME NEW i \in held \ astray, Expressible(definition[i])
        PROVE  [definition[i] EXCEPT !.interpreter = ""] \in HeldAs(ToService(files[i].yaml))
    <3>1. definition[i] \in Definition /\ Agree(definition[i], files[i].yaml)
      BY <2>1 DEF Typed, Matching
    <3> QED BY <2>2, <3>1, ExpressibleAgrees
  <2>3. \A i \in held \ astray : files[i].kind = "whole" /\ Agree(definition[i], files[i].yaml)
    BY <2>1 DEF Matching
  <2>4. \A i \in Ids : /\ jobs[i] = IF i \in held THEN Added(NoJobs, definition[i]) ELSE NoJobs
                       /\ i \notin held \cup astray => files[i].kind = "absent"
    BY <2>1 DEF Matching
  <2> QED BY <2>2, <2>3, <2>4 DEF DefinitionsMatch, Agree
<1> QED BY <1>1, Registered, PTL

\* What the manager shows of a service is what its process does, whatever is
\* added, updated and removed (Update installs the state it copied).
THEOREM StatusCorrect == RegistrySpec => []StatusTrue
<1>1. RegistryInv => StatusTrue
  BY DEF RegistryInv, DefinitionInv, Truthful, StatusTrue
<1> QED BY <1>1, Registered, PTL

\* A set of positions has a first.
LEMMA Earliest ==
    ASSUME NEW T \in SUBSET Nat, T # {}
    PROVE  \E n \in T : \A m \in T : n <= m
<1>1. PICK n \in T : \A m \in T : ~ (<<m, n>> \in OpToRel(<, Nat))
  BY WFMin, NatLessThanWellFounded
<1>2. \A m \in T : ~ (m < n)
  BY <1>1, Zenon DEF OpToRel
<1>3. n \in Nat /\ \A m \in T : m \in Nat
  BY <1>1
<1> QED BY <1>2, <1>3

\* While a service is not sorted and none is queued, each unsorted one needs
\* something unsorted; so no order has a first unsorted service, when all that
\* services need are services.
LEMMA NoOrder ==
    ASSUME Typed, Counted, sort.queue = <<>>, Len(sort.sorted) # Cardinality(held),
           ~NeedsStranger, NEW seq \in InSomeOrder(held), IsOrder(seq)
    PROVE  FALSE
<1>1. IsFiniteSet(held) /\ held \in SUBSET Ids
  BY Finite DEF Typed
<1>2. /\ Members(seq) = held /\ Once(seq) /\ Cardinality(held) \in Nat
      /\ DOMAIN seq = 1..Cardinality(held)
  BY <1>1, Finite, OrderIs
<1> DEFINE S == Members(sort.sorted)
           T == {k \in DOMAIN seq : seq[k] \notin S}
<1>3. S \subseteq held /\ S # held
  <2>1. sort.sorted \in Seq(held) /\ Once(sort.sorted)
    BY DEF Counted
  <2>2. S # held
    BY <1>1, <2>1, AllMembers
  <2>3. \A j \in DOMAIN sort.sorted : sort.sorted[j] \in held
    BY <2>1
  <2> QED BY <2>2, <2>3 DEF Members
<1>4. T \in SUBSET Nat /\ T # {}
  <2>1. PICK i \in held : i \notin S
    BY <1>3
  <2>2. PICK k \in DOMAIN seq : seq[k] = i
    BY <1>2, <2>1 DEF Members
  <2>3. k \in T
    BY <2>1, <2>2
  <2>4. \A j \in DOMAIN seq : j \in Nat
    BY <1>2
  <2> QED BY <2>3, <2>4
<1>5. PICK k \in T : \A j \in T : k <= j
  BY <1>4, Earliest
<1>6. k \in DOMAIN seq /\ seq[k] \notin S /\ seq[k] \in held
  BY <1>2, <1>5 DEF Members
<1> DEFINE i == seq[k]
<1>7. \E n \in Needs(i) : n \notin S
  <2>1. sort.degree[i] # 0
    <3>1. Members(sort.queue) = {}
      BY DEF Members
    <3> QED BY <1>6, <3>1 DEF Counted
  <2>2. sort.degree[i] = Cardinality(Needs(i) \ S)
    BY <1>1, <1>6 DEF Counted
  <2>3. Needs(i) \ S # {}
    BY <2>1, <2>2, FS_EmptySet
  <2> QED BY <2>3
<1>8. PICK n \in Needs(i) : n \notin S
  BY <1>7
<1>9a. n \in held
  BY <1>6, <1>8 DEF NeedsStranger
<1>9. PICK a \in DOMAIN seq, b \in DOMAIN seq : a < b /\ seq[a] = n /\ seq[b] = i
  BY <1>6, <1>8, <1>9a DEF IsOrder
<1>10. b = k
  BY <1>2, <1>6, <1>9 DEF Once
<1>11. a \in T
  BY <1>8, <1>9
<1>12. k <= a /\ a < k /\ a \in Nat /\ k \in Nat
  BY <1>4, <1>5, <1>9, <1>10, <1>11
<1> QED BY <1>12

\* TopologicalSort yields an order of all services, each after those it needs, and
\* reports a cycle when there is none, in whatever order Go walks its maps; it
\* also reports one when a service needs an unknown name, with a cycle or without.
THEOREM OrderCorrect == RegistrySpec => []StartOrder
<1>1. RegistryInv => StartOrder
  <2> SUFFICES ASSUME RegistryInv PROVE StartOrder
    OBVIOUS
  <2>1. Typed /\ SortInv
    BY DEF RegistryInv, DefinitionInv
  <2>2. ASSUME sort.result # "none" PROVE Counted
    BY <2>1, <2>2, SortFields DEF SortInv
  <2>3. ASSUME sort.result = "sorted"
        PROVE  IsOrder(sort.sorted) /\ ~NeedsStranger
    <3>1. /\ Counted /\ sort.sorted \in Seq(held) /\ Once(sort.sorted)
          /\ Len(sort.sorted) = Cardinality(held)
      BY <2>2, <2>3 DEF Counted
    <3>2. IsFiniteSet(held)
      BY <2>1, Finite DEF Typed
    <3>3. Members(sort.sorted) = held
      BY <3>1, <3>2, AllMembers
    <3>4. ASSUME NEW i \in held, NEW n \in Needs(i)
          PROVE  \E j, k \in DOMAIN sort.sorted :
                    j < k /\ sort.sorted[j] = n /\ sort.sorted[k] = i
      <4>1. PICK k \in DOMAIN sort.sorted : sort.sorted[k] = i
        BY <3>3, <3>4 DEF Members
      <4>2. PICK j \in DOMAIN sort.sorted : j < k /\ sort.sorted[j] = n
        BY <3>1, <3>4, <4>1 DEF Counted
      <4> QED BY <4>1, <4>2
    <3>5. ASSUME NEW i \in held, NEW n \in Needs(i) PROVE n \in held
      <4>1. PICK j \in DOMAIN sort.sorted : sort.sorted[j] = n
        BY <3>4, <3>5
      <4> QED BY <3>3, <4>1 DEF Members
    <3> QED BY <3>1, <3>3, <3>4, <3>5 DEF IsOrder, NeedsStranger, Members
  <2>4. ASSUME sort.result = "cycle", ~NeedsStranger, NEW seq \in InSomeOrder(held) PROVE ~IsOrder(seq)
    <3>1. Counted /\ sort.queue = <<>> /\ Len(sort.sorted) # Cardinality(held)
      BY <2>2, <2>4 DEF Counted
    <3> QED BY <2>1, <2>4, <3>1, NoOrder
  <2> QED BY <2>3, <2>4 DEF StartOrder
<1> QED BY <1>1, Registered, PTL
-----------------------------------------------------------------------------
(* What a restart makes of a definition, and of a sort.                    *)

\* Rounding is off by half a unit at most.
LEMMA RoundedNear ==
    ASSUME NEW n \in Nat, NEW d \in Nat, d > 0
    PROVE  /\ Rounded(n, d) \in Nat
           /\ 2 * (d * Rounded(n, d)) <= 2 * n + d
           /\ 2 * n <= 2 * (d * Rounded(n, d)) + d
<1> DEFINE q == n \div d
           r == n % d
<1>1. q \in Nat /\ r \in Nat /\ r < d
  BY SMTT(30)
<1>2. n = d * q + r
  BY SMTT(30)
<1>3. Rounded(n, d) = IF 2 * r > d \/ (2 * r = d /\ q % 2 = 1) THEN q + 1 ELSE q
  BY DEF Rounded
<1> HIDE DEF q, r
<1>4. d * (q + 1) = d * q + d /\ d * q \in Nat
  BY <1>1, SMTT(30)
<1>5. CASE Rounded(n, d) = q + 1 /\ 2 * r >= d
  BY <1>1, <1>2, <1>4, <1>5
<1>6. CASE Rounded(n, d) = q /\ 2 * r <= d
  BY <1>1, <1>2, <1>4, <1>6
<1>7. (2 * r > d \/ (2 * r = d /\ q % 2 = 1)) => 2 * r >= d
  BY <1>1
<1>8. ~(2 * r > d \/ (2 * r = d /\ q % 2 = 1)) => 2 * r <= d
  <2>1. CASE 2 * r < d
    BY <1>1, <2>1
  <2>2. CASE 2 * r = d
    BY <1>1, <2>2
  <2>3. CASE 2 * r > d
    BY <2>3
  <2> QED BY <1>1, <2>1, <2>2, <2>3
<1> QED BY <1>3, <1>5, <1>6, <1>7, <1>8

\* A memory limit that was written to YAML and read again is off by half a unit
\* at most below a gigabyte, by half a tenth and the byte that is cut above; it
\* is still a limit, and from then on it stays as it is (formatByteSize,
\* parseByteSize).
THEOREM SizesAreKept ==
    ASSUME NEW b \in Nat, b > 0, NEW u \in 0..4,
           Unit(u) <= b, u < 4 => b < Unit(u + 1)
    PROVE  LET m == ParseByteSize(FormatByteSize(b)) IN
           /\ m \in Nat /\ m > 0
           /\ u < 3 => 2 * m <= 2 * b + Unit(u) /\ 2 * b <= 2 * m + Unit(u)
           /\ u >= 3 => 20 * m <= 20 * b + Unit(u) /\ 20 * b <= 20 * m + Unit(u) + 20
           /\ ParseByteSize(FormatByteSize(m)) = m
<1> DEFINE U == Unit(u)
           m == ParseByteSize(FormatByteSize(b))
<1>1. U \in Nat /\ U > 0
  BY Units
<1>2. m \in Nat /\ m > 0 /\ ParseByteSize(FormatByteSize(m)) = m
  BY SizesSettle
<1>3. FormatByteSize(b) = [tenths |-> IF u >= 3 THEN Rounded(10 * b, U)
                                                ELSE 10 * Rounded(b, U),
                           unit |-> u]
  BY FormatOf
<1> HIDE DEF U
<1>4. CASE u < 3
  <2> DEFINE q == Rounded(b, U)
  <2>1. /\ q \in Nat
        /\ 2 * (U * q) <= 2 * b + U /\ 2 * b <= 2 * (U * q) + U
    BY <1>1, RoundedNear
  <2>2. FormatByteSize(b) = [tenths |-> 10 * q, unit |-> u]
    BY <1>3, <1>4
  <2> HIDE DEF q
  <2>3. m = U * q
    BY <2>1, <2>2, ParseWhole DEF U
  <2> HIDE DEF m
  <2> QED BY <1>2, <1>4, <2>1, <2>3 DEF m, U
<1>5. CASE u >= 3
  <2> DEFINE t == Rounded(10 * b, U)
  <2>1. /\ t \in Nat
        /\ 2 * (U * t) <= 2 * (10 * b) + U /\ 2 * (10 * b) <= 2 * (U * t) + U
    <3>1. 10 * b \in Nat
      OBVIOUS
    <3> QED BY <1>1, <3>1, RoundedNear
  <2>2. FormatByteSize(b) = [tenths |-> t, unit |-> u]
    BY <1>3, <1>5
  <2> HIDE DEF t
  <2>3. m = (t * U) \div 10
    BY <2>2 DEF ParseByteSize, U
  <2>4. t * U \in Nat /\ t * U = U * t
    BY <1>1, <2>1, SMT
  <2> DEFINE x == t * U
  <2>5. x \in Nat /\ m = x \div 10 /\ 2 * x <= 20 * b + U /\ 20 * b <= 2 * x + U
    BY <2>1, <2>3, <2>4
  <2> HIDE DEF x
  <2>6. x = 10 * (x \div 10) + (x % 10) /\ x % 10 \in 0..9
    BY <2>5, Tenths
  <2> HIDE DEF m
  <2>7. 20 * m <= 20 * b + U /\ 20 * b <= 20 * m + U + 20
    BY <1>1, <1>2, <2>5, <2>6
  <2> QED BY <1>2, <1>5, <2>7 DEF m, U
<1> QED BY <1>4, <1>5

\* What is lost of a definition is lost with the first restart: what was loaded
\* is saved and loaded again as it is, and neither the password nor whether and
\* after what the service starts by itself is lost at all (ServiceToYAML,
\* ToService).
THEOREM SettlingIsFinal ==
    ASSUME NEW d \in Definition
    PROVE  /\ Settled(d) \in Definition /\ Settled(Settled(d)) = Settled(d)
           /\ Settled(d).password = d.password /\ Settled(d).needs = d.needs
           /\ Settled(d).schedules = d.schedules /\ Settled(d).auto = d.auto
<1>1. Settled(d).schedules = d.schedules /\ Settled(d).auto = d.auto
  BY SettledIs
<1> QED BY <1>1, DefinitionSettles

\* A sort that has no verdict yet has a service to sort next, and a service is
\* sorted at most once.
SortGoesOn ==
    (stage = "sorting" /\ sort # NoSort /\ sort.result = "none") =>
        sort.queue # <<>> /\ Len(sort.sorted) < Cardinality(held)

\* TopologicalSort comes to a verdict after as many rounds as there are services
\* at most, with or without a cycle: it never waits with an empty queue, and what
\* is queued is not sorted yet.
THEOREM SortEnds == RegistrySpec => []SortGoesOn
<1>1. RegistryInv => SortGoesOn
  <2> SUFFICES ASSUME RegistryInv, Counted, sort.result = "none"
               PROVE  sort.queue # <<>> /\ Len(sort.sorted) < Cardinality(held)
    BY DEF SortGoesOn, RegistryInv, SortInv
  <2>1. /\ sort.queue # <<>>
        /\ sort.queue \in Seq(held) /\ sort.sorted \in Seq(held) /\ Once(sort.sorted)
        /\ Members(sort.queue) \cap Members(sort.sorted) = {}
    BY DEF Counted
  <2>2. IsFiniteSet(held) /\ Cardinality(held) \in Nat
    BY Finite DEF RegistryInv, DefinitionInv, Typed
  <2>3. Len(sort.sorted) <= Cardinality(held) /\ Len(sort.sorted) \in Nat
    BY <2>1, <2>2, AllMembers
  <2>4. Head(sort.queue) \in held /\ Head(sort.queue) \notin Members(sort.sorted)
    <3>1. 1 \in DOMAIN sort.queue /\ Head(sort.queue) = sort.queue[1]
      BY <2>1
    <3>2. sort.queue[1] \in Members(sort.queue) /\ sort.queue[1] \in held
      BY <2>1, <3>1 DEF Members
    <3> QED BY <2>1, <3>1, <3>2
  <2>5. Len(sort.sorted) # Cardinality(held)
    <3> SUFFICES ASSUME Len(sort.sorted) = Cardinality(held) PROVE FALSE
      OBVIOUS
    <3>1. Members(sort.sorted) = held
      BY <2>1, <2>2, AllMembers
    <3> QED BY <2>4, <3>1
  <2> QED BY <2>1, <2>2, <2>3, <2>5
<1> QED BY <1>1, Registered, PTL
=============================================================================

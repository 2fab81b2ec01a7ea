-------------------------- MODULE LogStreamerProofs --------------------------
(***************************************************************************)
(* Proofs about LogStreamer, for any finite number of connections, any     *)
(* limit, capacity and number of requests admitted at a time.              *)
(***************************************************************************)
EXTENDS LogStreamer, FiniteSetTheorems, TLAPS

-----------------------------------------------------------------------------
(* Type correctness.                                                       *)

LEMMA UnregisterType ==
    ASSUME TypeOK, NEW c \in Conns, Unregister(c)
    PROVE  /\ clients' \in SUBSET Conns /\ closed' \in SUBSET Conns
           /\ panicked' \in BOOLEAN
<1>1. CASE c \in clients
  BY <1>1 DEF TypeOK, Unregister
<1>2. CASE c \notin clients
  BY <1>2 DEF TypeOK, Unregister
<1> QED BY <1>1, <1>2

LEMMA TypeNext == TypeOK /\ [Next]_vars => TypeOK'
<1> SUFFICES ASSUME TypeOK, [Next]_vars PROVE TypeOK'
  OBVIOUS
<1> USE DEF TypeOK
<1>1. CASE UNCHANGED vars
  BY <1>1 DEF vars
<1>2. ASSUME NEW src \in Sources, Broadcast(src)
      PROVE  TypeOK'
  BY <1>2, StreamerAssumption DEF Broadcast
<1>3. ASSUME NEW c \in Conns, Admit(c) \/ Register(c) \/ Disconnect(c)
      PROVE  TypeOK'
  BY <1>3 DEF Admit, Check, UpgradeFails, Count, Register, Disconnect
<1>4. ASSUME NEW c \in Conns, Writer(c)
      PROVE  TypeOK'
  <2>1. CASE WriterTakes(c) \/ WriterDrained(c) \/ WriterCloses(c)
    BY <2>1, StreamerAssumption DEF WriterTakes, WriterDrained, WriterCloses
  <2>2. CASE WriterUnregisters(c)
    BY <2>2 DEF WriterUnregisters
  <2> QED BY <1>4, <2>1, <2>2 DEF Writer
<1>5. ASSUME NEW c \in Conns, Reader(c)
      PROVE  TypeOK'
  BY <1>5 DEF Reader, ReaderFails, ReaderUnregisters
<1>6. ASSUME NEW c \in Conns, HubServes(c)
      PROVE  TypeOK'
  <2>1. clients' \in SUBSET Conns /\ closed' \in SUBSET Conns /\ panicked' \in BOOLEAN
    BY <1>6, UnregisterType DEF HubServes
  <2> QED BY <1>6, <2>1 DEF HubServes
<1> QED BY <1>1, <1>2, <1>3, <1>4, <1>5, <1>6 DEF Next

LEMMA TypeInit == Init => TypeOK
<1> SUFFICES ASSUME Init PROVE TypeOK OBVIOUS
<1>1. 0 \in 0..Capacity /\ 0 \in Int
  BY StreamerAssumption
<1> QED BY <1>1 DEF Init, TypeOK

\* The hub, the handlers and the goroutines of the clients keep every variable
\* in its type: in particular no channel holds more lines than its capacity.
THEOREM TypeCorrect == Spec => []TypeOK
<1> QED BY TypeInit, TypeNext, PTL DEF Spec

-----------------------------------------------------------------------------
(* Clients and their channels.                                             *)

\* A connection that was not handed to the hub has no client, no channel that
\* could be closed, and no goroutines.
Unhanded ==
    \A c \in Conns :
      handler[c] # "over" => /\ c \notin clients /\ c \notin closed
                             /\ writer[c] = "none" /\ reader[c] = "none"

\* What the hub broadcasts to is open.
ClientsOpen == clients \cap closed = {}

\* What the hub has received and not done yet concerns a client that was handed
\* to it; one that is to be added was never in the set, and neither of its
\* goroutines has got past a send to the hub.
InHand ==
    \A c \in Conns :
      /\ received[c] # "none" => handler[c] = "over"
      /\ received[c] = "register" => /\ c \notin clients /\ c \notin closed
                                     /\ writer[c] \in {"range", "unregister"}
                                     /\ reader[c] \in {"read", "unregister"}

ClientInv == TypeOK /\ Unhanded /\ InHand /\ ClientsOpen /\ NoPanic /\ NoStaleClient

LEMMA ClientNext == ClientInv /\ [Next]_vars => ClientInv'
<1> SUFFICES ASSUME ClientInv, [Next]_vars PROVE ClientInv'
  OBVIOUS
<1>0. TypeOK'
  BY TypeNext DEF ClientInv
<1> USE DEF ClientInv, Unhanded, InHand, ClientsOpen, NoPanic, NoStaleClient
<1>1. CASE UNCHANGED vars
  BY <1>0, <1>1 DEF vars
<1>2. ASSUME NEW src \in Sources, Broadcast(src)
      PROVE  ClientInv'
  BY <1>0, <1>2 DEF Broadcast
<1>3. ASSUME NEW c \in Conns, Admit(c) \/ Register(c) \/ Disconnect(c)
      PROVE  ClientInv'
  <2>1. CASE Admit(c) \/ Disconnect(c)
    BY <1>0, <2>1 DEF Admit, Check, UpgradeFails, Count, Disconnect, TypeOK
  <2>2. CASE Register(c)
    BY <1>0, <2>2 DEF Register, AtSelect, TypeOK
  <2> QED BY <1>3, <2>1, <2>2
<1>4. ASSUME NEW c \in Conns, Writer(c)
      PROVE  ClientInv'
  <2>1. CASE WriterTakes(c) \/ WriterDrained(c) \/ WriterCloses(c)
    BY <1>0, <2>1 DEF WriterTakes, WriterDrained, WriterCloses, TypeOK
  <2>2. CASE WriterUnregisters(c)
    BY <1>0, <2>2 DEF WriterUnregisters, AtSelect, TypeOK
  <2> QED BY <1>4, <2>1, <2>2 DEF Writer
<1>5. ASSUME NEW c \in Conns, Reader(c)
      PROVE  ClientInv'
  <2>1. CASE ReaderFails(c)
    BY <1>0, <2>1 DEF ReaderFails, TypeOK
  <2>2. CASE ReaderUnregisters(c)
    BY <1>0, <2>2 DEF ReaderUnregisters, AtSelect, TypeOK
  <2> QED BY <1>5, <2>1, <2>2 DEF Reader
<1>6. ASSUME NEW c \in Conns, HubServes(c)
      PROVE  ClientInv'
  <2>1. CASE received[c] = "register"
    BY <1>0, <1>6, <2>1 DEF HubServes, TypeOK
  <2>2. CASE received[c] = "unregister"
    BY <1>0, <1>6, <2>2 DEF HubServes, Unregister, TypeOK
  <2> QED BY <1>6, <2>1, <2>2 DEF HubServes
<1> QED BY <1>1, <1>2, <1>3, <1>4, <1>5, <1>6 DEF Next

LEMMA ClientAlways == Spec => []ClientInv
<1>1. Init => ClientInv
  BY TypeInit
  DEF Init, ClientInv, Unhanded, InHand, ClientsOpen, NoPanic, NoStaleClient
<1> QED BY <1>1, ClientNext, PTL DEF Spec

\* No channel is closed twice or sent to once closed, although both goroutines
\* of a client unregister it and captures broadcast at any time.
THEOREM NeverPanics == Spec => []NoPanic
<1>1. ClientInv => NoPanic
  BY DEF ClientInv
<1> QED BY <1>1, ClientAlways, PTL

\* A client whose writer has gone is in the hub's set only as long as the hub has
\* its removal in hand: no line is sent to it once that is done (Streamer.run, the
\* writer in Register).
THEOREM NoStaleClients == Spec => []NoStaleClient
<1>1. ClientInv => NoStaleClient
  BY DEF ClientInv
<1> QED BY <1>1, ClientAlways, PTL

-----------------------------------------------------------------------------
(* Counting connections.                                                   *)

LEMMA SubsetsFinite ==
    ASSUME NEW S \in SUBSET Conns
    PROVE  IsFiniteSet(S) /\ Cardinality(S) \in Nat
<1> QED BY StreamerAssumption, FS_Subset, FS_CardinalityType

\* Adding and removing one connection.
LEMMA CountOne ==
    ASSUME NEW S \in SUBSET Conns, NEW c \in Conns
    PROVE  /\ c \notin S => Cardinality(S \cup {c}) = Cardinality(S) + 1
           /\ c \in S => Cardinality(S \ {c}) = Cardinality(S) - 1
<1> QED BY SubsetsFinite, FS_AddElement, FS_RemoveElement

\* The requests that passed the check together overshoot the limit by less than
\* their number: those not counted yet are counted in advance.
Advance == /\ active + Cardinality(Admitted) < Limit + Handlers
           /\ Cardinality(InFlight) <= Handlers

SlotInv == ClientInv /\ SlotsCounted /\ Advance

\* Where a connection may be among the sets that are counted.
LEMMA CountedSets ==
    TypeOK => /\ Holders \in SUBSET Conns /\ Admitted \in SUBSET Conns
              /\ InFlight \in SUBSET Conns
              /\ Cardinality(Admitted) <= Cardinality(InFlight)
<1>1. Admitted \subseteq InFlight /\ InFlight \in SUBSET Conns
  BY DEF Admitted, InFlight
<1>2. Cardinality(Admitted) <= Cardinality(InFlight)
  BY <1>1, SubsetsFinite, FS_Subset
<1> QED BY <1>1, <1>2 DEF Holders

LEMMA SlotNext == SlotInv /\ [Next]_vars => SlotInv'
<1> SUFFICES ASSUME SlotInv, [Next]_vars PROVE SlotInv'
  OBVIOUS
<1> USE DEF SlotInv, SlotsCounted, Advance
<1>0. TypeOK /\ TypeOK' /\ ClientInv'
  BY ClientNext DEF ClientInv
<1>c. /\ Cardinality(Holders) \in Nat /\ Cardinality(Admitted) \in Nat
      /\ Cardinality(InFlight) \in Nat
      /\ Cardinality(Admitted) <= Cardinality(InFlight)
      /\ active \in Int /\ Limit \in Int /\ Handlers \in Int
  BY <1>0, CountedSets, SubsetsFinite, StreamerAssumption DEF TypeOK
\* Most steps move nobody from one set to another.
<1>s. ASSUME Holders' = Holders, Admitted' = Admitted, InFlight' = InFlight,
             active' = active
      PROVE  SlotInv'
  BY <1>0, <1>s
<1>1. CASE UNCHANGED vars
  BY <1>1, <1>s DEF vars, Holders, Admitted, InFlight
<1>2. ASSUME NEW src \in Sources, Broadcast(src)
      PROVE  SlotInv'
  BY <1>2, <1>s DEF Broadcast, Holders, Admitted, InFlight
<1>3. ASSUME NEW c \in Conns, Disconnect(c) \/ Reader(c) \/ HubServes(c)
      PROVE  SlotInv'
  BY <1>3, <1>s
  DEF Disconnect, Reader, ReaderFails, ReaderUnregisters, HubServes, Holders,
      Admitted, InFlight
<1>4. ASSUME NEW c \in Conns, Check(c)
      PROVE  SlotInv'
  <2>1. Holders' = Holders
    BY <1>0, <1>4 DEF Check, Holders, TypeOK
  <2>2. CASE active >= Limit
    <3>1. Admitted' = Admitted /\ InFlight' = InFlight
      BY <1>0, <1>4, <2>2 DEF Check, Admitted, InFlight, TypeOK
    <3> QED BY <1>4, <1>s, <2>1, <3>1 DEF Check
  <2>3. CASE ~(active >= Limit)
    <3>1. /\ Admitted' = Admitted \cup {c} /\ c \notin Admitted
          /\ InFlight' = InFlight \cup {c} /\ c \notin InFlight
      BY <1>0, <1>4, <2>3 DEF Check, Admitted, InFlight, TypeOK
    <3>2. /\ Cardinality(Admitted') = Cardinality(Admitted) + 1
          /\ Cardinality(InFlight') = Cardinality(InFlight) + 1
      BY <1>0, <3>1, CountOne, CountedSets
    <3>3. active' = active /\ Cardinality(InFlight) < Handlers
      BY <1>4 DEF Check
    <3>4. active + Cardinality(Admitted') < Limit + Handlers
      BY <1>c, <2>3, <3>2, <3>3
    <3>5. Cardinality(InFlight') <= Handlers
      BY <1>c, <3>2, <3>3
    <3> QED BY <1>0, <2>1, <3>3, <3>4, <3>5
  <2> QED BY <2>2, <2>3
<1>5. ASSUME NEW c \in Conns, UpgradeFails(c)
      PROVE  SlotInv'
  <2>1. /\ Holders' = Holders /\ active' = active
        /\ Admitted' = Admitted \ {c} /\ c \in Admitted
        /\ InFlight' = InFlight \ {c} /\ c \in InFlight
    BY <1>0, <1>5 DEF UpgradeFails, Holders, Admitted, InFlight, TypeOK
  <2>2. /\ Cardinality(Admitted') = Cardinality(Admitted) - 1
        /\ Cardinality(InFlight') = Cardinality(InFlight) - 1
    BY <1>0, <2>1, CountOne, CountedSets
  <2> QED BY <1>0, <1>c, <2>1, <2>2
<1>6. ASSUME NEW c \in Conns, Count(c)
      PROVE  SlotInv'
  <2>1. /\ Holders' = Holders \cup {c} /\ c \notin Holders
        /\ Admitted' = Admitted \ {c} /\ c \in Admitted
        /\ InFlight' = InFlight
    BY <1>0, <1>6
    DEF Count, Holders, Admitted, InFlight, TypeOK, ClientInv, Unhanded
  <2>2. /\ Cardinality(Holders') = Cardinality(Holders) + 1
        /\ Cardinality(Admitted') = Cardinality(Admitted) - 1
    BY <1>0, <2>1, CountOne, CountedSets
  <2>3. active' = active + 1
    BY <1>6 DEF Count
  <2> QED BY <1>0, <1>c, <2>1, <2>2, <2>3
<1>7. ASSUME NEW c \in Conns, Register(c)
      PROVE  SlotInv'
  <2>1. /\ Holders' = Holders /\ Admitted' = Admitted /\ active' = active
        /\ InFlight' = InFlight \ {c} /\ c \in InFlight
    BY <1>0, <1>7 DEF Register, Holders, Admitted, InFlight, TypeOK
  <2>2. Cardinality(InFlight') = Cardinality(InFlight) - 1
    BY <1>0, <2>1, CountOne, CountedSets
  <2> QED BY <1>0, <1>c, <2>1, <2>2
<1>8. ASSUME NEW c \in Conns,
             WriterTakes(c) \/ WriterDrained(c) \/ WriterUnregisters(c)
      PROVE  SlotInv'
  <2>1. Holders' = Holders
    BY <1>0, <1>8
    DEF WriterTakes, WriterDrained, WriterUnregisters, Holders, TypeOK
  <2>2. Admitted' = Admitted /\ InFlight' = InFlight /\ active' = active
    BY <1>8
    DEF WriterTakes, WriterDrained, WriterUnregisters, Admitted, InFlight
  <2> QED BY <1>s, <2>1, <2>2
<1>9. ASSUME NEW c \in Conns, WriterCloses(c)
      PROVE  SlotInv'
  <2>1. /\ Holders' = Holders \ {c} /\ c \in Holders
        /\ Admitted' = Admitted /\ InFlight' = InFlight
    BY <1>0, <1>9
    DEF WriterCloses, Holders, Admitted, InFlight, TypeOK, ClientInv, Unhanded
  <2>2. Cardinality(Holders') = Cardinality(Holders) - 1
    BY <1>0, <2>1, CountOne, CountedSets
  <2>3. active' = active - 1
    BY <1>9 DEF WriterCloses
  <2> QED BY <1>0, <1>c, <2>1, <2>2, <2>3
<1> QED
  BY <1>1, <1>2, <1>3, <1>4, <1>5, <1>6, <1>7, <1>8, <1>9
  DEF Next, Admit, Writer

LEMMA SlotInit == Init => SlotInv
<1> SUFFICES ASSUME Init PROVE SlotInv OBVIOUS
<1>1. ClientInv
  BY TypeInit
  DEF Init, ClientInv, Unhanded, InHand, ClientsOpen, NoPanic, NoStaleClient
<1>2. Holders = {} /\ Admitted = {} /\ InFlight = {} /\ active = 0
  BY DEF Init, Holders, Admitted, InFlight
<1> QED
  BY <1>1, <1>2, FS_EmptySet, StreamerAssumption
  DEF SlotInv, SlotsCounted, Advance

LEMMA SlotAlways == Spec => []SlotInv
<1> QED BY SlotInit, SlotNext, PTL DEF Spec

\* A slot is taken once and given back once: the counter is the number of
\* connections that hold one.
THEOREM SlotsCountedOnce == Spec => []SlotsCounted
<1>1. SlotInv => SlotsCounted
  BY DEF SlotInv
<1> QED BY <1>1, SlotAlways, PTL

\* The check-then-count race admits fewer than Handlers connections too many,
\* whatever the limit and the number of requests.
THEOREM OvershootBounded == Spec => []StreamsBounded
<1>1. SlotInv => StreamsBounded
  <2> SUFFICES ASSUME SlotInv PROVE StreamsBounded OBVIOUS
  <2>1. Cardinality(Admitted) \in Nat /\ active \in Int
    BY CountedSets, SubsetsFinite DEF SlotInv, ClientInv, TypeOK
  <2> QED BY <2>1, StreamerAssumption DEF SlotInv, Advance, StreamsBounded
<1> QED BY <1>1, SlotAlways, PTL

-----------------------------------------------------------------------------
(* On the way to DisconnectFreesSlot: what it rests on besides fairness.   *)

\* A client that was handed to the hub is about to be added to its set, or in the set,
\* or has its channel closed, and only one of these; once its reader or its writer is
\* past the send that unregisters it, its channel is closed or the hub is about to close
\* it; and its socket is closed exactly by the last step of the writer.
NobodyForgotten ==
    \A c \in Conns :
      /\ writer[c] # "none" /\ received[c] # "register" =>
             (c \in clients <=> c \notin closed)
      /\ reader[c] = "done" \/ writer[c] \in {"close", "done"} =>
             c \in closed \/ received[c] = "unregister"
      /\ received[c] # "none" => writer[c] # "none"
      /\ reader[c] = "none" <=> writer[c] = "none"
      /\ handler[c] = "over" /\ socket[c] # "none" => writer[c] # "none"
      /\ socket[c] = "closed" <=> writer[c] = "done"
      /\ handler[c] \in {"none", "checked"} <=> (socket[c] = "none" /\ handler[c] # "over")

LEMMA ForgottenNext ==
    ClientInv /\ ClientInv' /\ NobodyForgotten /\ [Next]_vars => NobodyForgotten'
<1> SUFFICES ASSUME ClientInv, ClientInv', NobodyForgotten, [Next]_vars
             PROVE  NobodyForgotten'
  OBVIOUS
<1>0. TypeOK
  BY DEF ClientInv
<1> USE <1>0 DEF NobodyForgotten, TypeOK
<1>1. CASE UNCHANGED vars
  BY <1>1 DEF vars
<1>2. ASSUME NEW src \in Sources, Broadcast(src)
      PROVE  NobodyForgotten'
  BY <1>2 DEF Broadcast
<1>3. ASSUME NEW c \in Conns, Admit(c) \/ Disconnect(c)
      PROVE  NobodyForgotten'
  BY <1>3 DEF Admit, Check, UpgradeFails, Count, Disconnect
<1>4. ASSUME NEW c \in Conns, Register(c)
      PROVE  NobodyForgotten'
  BY <1>4 DEF Register, AtSelect, ClientInv, Unhanded
<1>5. ASSUME NEW c \in Conns, Writer(c)
      PROVE  NobodyForgotten'
  <2>1. CASE WriterTakes(c) \/ WriterDrained(c)
    BY <2>1 DEF WriterTakes, WriterDrained
  <2>2. CASE WriterUnregisters(c)
    BY <2>2 DEF WriterUnregisters, AtSelect
  <2>3. CASE WriterCloses(c)
    BY <2>3 DEF WriterCloses, ClientInv, Unhanded
  <2> QED BY <1>5, <2>1, <2>2, <2>3 DEF Writer
<1>6. ASSUME NEW c \in Conns, Reader(c)
      PROVE  NobodyForgotten'
  <2>1. CASE ReaderFails(c)
    BY <2>1 DEF ReaderFails
  <2>2. CASE ReaderUnregisters(c)
    BY <2>2 DEF ReaderUnregisters, AtSelect
  <2> QED BY <1>6, <2>1, <2>2 DEF Reader
<1>7. ASSUME NEW c \in Conns, HubServes(c)
      PROVE  NobodyForgotten'
  <2>1. CASE received[c] = "register"
    BY <1>7, <2>1 DEF HubServes, ClientInv, InHand
  <2>2. CASE received[c] = "unregister"
    BY <1>7, <2>2 DEF HubServes, Unregister
  <2> QED BY <1>7, <2>1, <2>2 DEF HubServes
<1> QED BY <1>1, <1>2, <1>3, <1>4, <1>5, <1>6, <1>7 DEF Next

\* No writer waits for lines on a channel that nobody will close: once the reader is
\* done the channel is closed or the hub has received that it should be, and whatever
\* took a client out of the hub's set has closed its channel (Streamer.run, the two
\* goroutines that Register starts).
THEOREM NobodyForgottenCorrect == Spec => []NobodyForgotten
<1>1. Init => NobodyForgotten
  BY DEF Init, NobodyForgotten
<1> QED BY <1>1, ForgottenNext, ClientAlways, PTL DEF Spec

\* What a writer has still to do: the lines in its channel, and its own way out.
Work(c) == queue[c] + CASE writer[c] = "range"      -> 3
                        [] writer[c] = "unregister" -> 2
                        [] writer[c] = "close"      -> 1
                        [] OTHER                    -> 0

\* Once its channel is closed a client gets no more lines, every step of its writer
\* brings it nearer to the end, and nobody sets it back.
Draining ==
    [][\A c \in closed :
         /\ c \in closed' /\ c \notin clients'
         /\ Work(c)' <= Work(c)
         /\ Writer(c) => Work(c)' < Work(c)]_vars

\* The writer of a closed channel is done after Capacity + 3 steps at most, however many
\* captures broadcast: with NobodyForgottenCorrect this is what DisconnectFreesSlot
\* rests on besides fairness (the writer in Register, Broadcast).
THEOREM DrainingCorrect == Spec => Draining
<1> DEFINE Shrinks == \A c \in closed : /\ c \in closed' /\ c \notin clients'
                                        /\ Work(c)' <= Work(c)
                                        /\ Writer(c) => Work(c)' < Work(c)
<1>1. ClientInv /\ ClientInv' /\ [Next]_vars => [Shrinks]_vars
  <2> SUFFICES ASSUME ClientInv, ClientInv', Next, NEW c \in closed
               PROVE  /\ c \in closed' /\ c \notin clients'
                      /\ Work(c)' <= Work(c)
                      /\ Writer(c) => Work(c)' < Work(c)
    BY DEF vars
  <2>0. /\ TypeOK /\ c \in Conns /\ c \notin clients /\ queue[c] \in Nat
    BY StreamerAssumption DEF ClientInv, TypeOK, ClientsOpen
  <2> USE <2>0 DEF TypeOK
  <2>1. c \in closed'
    BY DEF Next, Broadcast, Admit, Check, UpgradeFails, Count, Register, HubServes,
           Disconnect, Writer, WriterTakes, WriterDrained, WriterUnregisters,
           WriterCloses, Reader, ReaderFails, ReaderUnregisters, Unregister
  <2>2. c \notin clients'
    BY <2>1 DEF ClientInv, ClientsOpen
  <2>3. CASE Writer(c)
    <3>1. CASE WriterTakes(c)
      BY <2>1, <2>2, <3>1 DEF WriterTakes, Work
    <3>2. CASE WriterDrained(c)
      BY <2>1, <2>2, <3>2 DEF WriterDrained, Work
    <3>3. CASE WriterUnregisters(c)
      BY <2>1, <2>2, <3>3 DEF WriterUnregisters, Work
    <3>4. CASE WriterCloses(c)
      BY <2>1, <2>2, <3>4 DEF WriterCloses, Work
    <3> QED BY <2>3, <3>1, <3>2, <3>3, <3>4 DEF Writer
  <2>4. CASE ~Writer(c)
    <3>1. UNCHANGED <<queue[c], writer[c]>>
      <4>1. ASSUME NEW src \in Sources, Broadcast(src)
            PROVE  UNCHANGED <<queue[c], writer[c]>>
        BY <4>1 DEF Broadcast
      <4>2. ASSUME NEW d \in Conns,
                   Admit(d) \/ Disconnect(d) \/ Reader(d) \/ HubServes(d)
            PROVE  UNCHANGED <<queue[c], writer[c]>>
        BY <4>2 DEF Admit, Check, UpgradeFails, Count, Disconnect, Reader,
                    ReaderFails, ReaderUnregisters, HubServes
      <4>3. ASSUME NEW d \in Conns, Register(d)
            PROVE  UNCHANGED <<queue[c], writer[c]>>
        <5>1. c # d
          BY <4>3 DEF Register, ClientInv, Unhanded
        <5> QED BY <4>3, <5>1 DEF Register
      <4>4. ASSUME NEW d \in Conns, Writer(d)
            PROVE  UNCHANGED <<queue[c], writer[c]>>
        <5>1. c # d
          BY <2>4, <4>4
        <5> QED
          BY <4>4, <5>1 DEF Writer, WriterTakes, WriterDrained, WriterUnregisters,
                            WriterCloses
      <4> QED BY <4>1, <4>2, <4>3, <4>4 DEF Next
    <3>2. Work(c)' = Work(c) /\ Work(c) \in Nat
      BY <3>1 DEF Work
    <3> QED BY <2>1, <2>2, <2>4, <3>2
  <2> QED BY <2>3, <2>4
<1> QED
  BY <1>1, ClientAlways, PTL DEF Spec, Draining
=============================================================================

----------------------------- MODULE LogStreamer -----------------------------
(***************************************************************************)
(* The hub for live log streams: HTTP handlers that admit WebSocket        *)
(* connections, the hub goroutine that owns the set of clients, a writer   *)
(* and a reader goroutine for each client, and the captures that broadcast *)
(* lines to the clients.  The hub receives on unbuffered channels and then *)
(* takes the write lock: the send returns with the first of the two steps, *)
(* and its goroutine goes on before the hub has done what it was sent.     *)
(***************************************************************************)
EXTENDS Integers, FiniteSets

CONSTANTS Conns,         \* connection requests ever made
          Limit,         \* maxStreamConns
          Handlers,      \* bound: requests being admitted at a time
          Capacity,      \* lines a client's channel holds
          Subscription,  \* what each connection asks for
          Sources        \* the captured streams that broadcast

AnyStream == "combined"

ASSUME StreamerAssumption ==
    /\ IsFiniteSet(Conns)
    /\ Limit \in Nat /\ Handlers \in Nat \ {0} /\ Capacity \in Nat

VARIABLES
    handler,   \* the request that admits each connection
    active,    \* activeStreamConns
    socket,    \* state of the connection, as its goroutines see it
    clients,   \* Streamer.clients
    queue,     \* lines in each client's send channel
    closed,    \* clients whose send channel is closed
    received,  \* what the hub has received about each client and not done yet
    writer, reader,
    panicked   \* a closed channel was closed or sent to

vars == <<handler, active, socket, clients, queue, closed, received, writer,
          reader, panicked>>

TypeOK ==
    /\ handler \in [Conns -> {"none", "checked", "counted", "over"}]
    /\ active \in Int
    /\ socket \in [Conns -> {"none", "up", "lost", "closed"}]
    /\ clients \in SUBSET Conns
    /\ queue \in [Conns -> 0..Capacity]
    /\ closed \in SUBSET Conns
    /\ received \in [Conns -> {"none", "register", "unregister"}]
    /\ writer \in [Conns -> {"none", "range", "unregister", "close", "done"}]
    /\ reader \in [Conns -> {"none", "read", "unregister", "done"}]
    /\ panicked \in BOOLEAN

Init ==
    /\ handler = [c \in Conns |-> "none"]
    /\ active = 0
    /\ socket = [c \in Conns |-> "none"]
    /\ clients = {}
    /\ queue = [c \in Conns |-> 0]
    /\ closed = {}
    /\ received = [c \in Conns |-> "none"]
    /\ writer = [c \in Conns |-> "none"]
    /\ reader = [c \in Conns |-> "none"]
    /\ panicked = FALSE

-----------------------------------------------------------------------------
(* The request handlers.                                                   *)

\* Requests that have passed the check and are not counted yet.
Admitted == {c \in Conns : handler[c] = "checked"}
InFlight == {c \in Conns : handler[c] \in {"checked", "counted"}}

\* Fault: one connection too many passes.
CheckPastLimit(c) ==
    /\ handler[c] = "none"
    /\ Cardinality(InFlight) < Handlers
    /\ handler' = [handler EXCEPT ![c] = IF active > Limit THEN "over"
                                                           ELSE "checked"]
    /\ UNCHANGED <<active, socket, clients, queue, closed, received, writer,
                   reader, panicked>>

\* AtConnLimit.
Check(c) ==
    /\ handler[c] = "none"
    /\ Cardinality(InFlight) < Handlers
    /\ handler' = [handler EXCEPT ![c] = IF active >= Limit THEN "over"
                                                            ELSE "checked"]
    /\ UNCHANGED <<active, socket, clients, queue, closed, received, writer,
                   reader, panicked>>

UpgradeFails(c) ==
    /\ handler[c] = "checked"
    /\ handler' = [handler EXCEPT ![c] = "over"]
    /\ UNCHANGED <<active, socket, clients, queue, closed, received, writer,
                   reader, panicked>>

\* The connection is upgraded and Register counts it.
Count(c) ==
    /\ handler[c] = "checked"
    /\ handler' = [handler EXCEPT ![c] = "counted"]
    /\ active' = active + 1
    /\ socket' = [socket EXCEPT ![c] = "up"]
    /\ UNCHANGED <<clients, queue, closed, received, writer, reader, panicked>>

\* The hub is at its select: whoever sends to it now need not wait.
AtSelect == \A c \in Conns : received[c] = "none"

\* Register hands the client to the hub and starts its two goroutines.
Register(c) ==
    /\ handler[c] = "counted"
    /\ AtSelect
    /\ handler' = [handler EXCEPT ![c] = "over"]
    /\ received' = [received EXCEPT ![c] = "register"]
    /\ writer' = [writer EXCEPT ![c] = "range"]
    /\ reader' = [reader EXCEPT ![c] = "read"]
    /\ UNCHANGED <<active, socket, clients, queue, closed, panicked>>

-----------------------------------------------------------------------------
(* The hub, and the captures that broadcast to its clients.                *)

\* Fault: the client is not looked up first.
UnregisterAlways(c) ==
    /\ clients' = clients \ {c}
    /\ closed' = closed \cup {c}
    /\ panicked' = (panicked \/ c \in closed)

\* The writer and the reader both unregister; the second one finds nothing.
Unregister(c) ==
    IF c \in clients
    THEN /\ clients' = clients \ {c}
         /\ closed' = closed \cup {c}
         /\ panicked' = (panicked \/ c \in closed)
    ELSE UNCHANGED <<clients, closed, panicked>>

\* The hub, with the write lock, does what it has received.
HubServes(c) ==
    /\ \/ /\ received[c] = "register"
          /\ clients' = clients \cup {c}
          /\ UNCHANGED <<closed, panicked>>
       \/ /\ received[c] = "unregister"
          /\ Unregister(c)
    /\ received' = [received EXCEPT ![c] = "none"]
    /\ UNCHANGED <<handler, active, socket, queue, writer, reader>>

Matches(sub, src) == /\ sub.service = src.service
                     /\ sub.stream \in {AnyStream, src.stream}

\* Fault: the captures do not ask whether there is room.
BroadcastUnbounded(src) ==
    LET to == {c \in clients : Matches(Subscription[c], src)} IN
    /\ queue' = [c \in Conns |-> IF c \in to THEN queue[c] + 1 ELSE queue[c]]
    /\ panicked' = (panicked \/ to \cap closed # {})
    /\ UNCHANGED <<handler, active, socket, clients, closed, received, writer,
                   reader>>

\* A client whose channel is full misses the line.
Broadcast(src) ==
    LET to == {c \in clients : Matches(Subscription[c], src)} IN
    /\ queue' = [c \in Conns |-> IF c \in to /\ queue[c] < Capacity
                                   THEN queue[c] + 1 ELSE queue[c]]
    /\ panicked' = (panicked \/ to \cap closed # {})
    /\ UNCHANGED <<handler, active, socket, clients, closed, received, writer,
                   reader>>

-----------------------------------------------------------------------------
(* The goroutines of a client.                                             *)

\* One turn of the range over the send channel: the line is written, or the
\* write fails; what is left in a closed channel is still delivered.
WriterTakes(c) ==
    /\ writer[c] = "range"
    /\ queue[c] > 0
    /\ queue' = [queue EXCEPT ![c] = @ - 1]
    /\ writer' \in {writer, [writer EXCEPT ![c] = "unregister"]}
    /\ UNCHANGED <<handler, active, socket, clients, closed, received, reader,
                   panicked>>

WriterDrained(c) ==
    /\ writer[c] = "range"
    /\ queue[c] = 0 /\ c \in closed
    /\ writer' = [writer EXCEPT ![c] = "unregister"]
    /\ UNCHANGED <<handler, active, socket, clients, queue, closed, received,
                   reader, panicked>>

\* Fault: the writer leaves without a word.
WriterLeaves(c) ==
    /\ writer[c] = "unregister"
    /\ writer' = [writer EXCEPT ![c] = "close"]
    /\ UNCHANGED <<handler, active, socket, clients, queue, closed, received,
                   reader, panicked>>

\* The deferred function of the writer: unregister, close, count down.
WriterUnregisters(c) ==
    /\ writer[c] = "unregister"
    /\ AtSelect
    /\ received' = [received EXCEPT ![c] = "unregister"]
    /\ writer' = [writer EXCEPT ![c] = "close"]
    /\ UNCHANGED <<handler, active, socket, clients, queue, closed, reader,
                   panicked>>

WriterCloses(c) ==
    /\ writer[c] = "close"
    /\ socket' = [socket EXCEPT ![c] = "closed"]
    /\ active' = active - 1
    /\ writer' = [writer EXCEPT ![c] = "done"]
    /\ UNCHANGED <<handler, clients, queue, closed, received, reader, panicked>>

ReaderFails(c) ==
    /\ reader[c] = "read"
    /\ socket[c] # "up"
    /\ reader' = [reader EXCEPT ![c] = "unregister"]
    /\ UNCHANGED <<handler, active, socket, clients, queue, closed, received,
                   writer, panicked>>

\* Faults: the reader leaves without a word, or counts the connection down too.
ReaderLeaves(c) ==
    /\ reader[c] = "unregister"
    /\ reader' = [reader EXCEPT ![c] = "done"]
    /\ UNCHANGED <<handler, active, socket, clients, queue, closed, received,
                   writer, panicked>>

ReaderCountsDown(c) ==
    /\ reader[c] = "unregister"
    /\ AtSelect
    /\ received' = [received EXCEPT ![c] = "unregister"]
    /\ active' = active - 1
    /\ reader' = [reader EXCEPT ![c] = "done"]
    /\ UNCHANGED <<handler, socket, clients, queue, closed, writer, panicked>>

ReaderUnregisters(c) ==
    /\ reader[c] = "unregister"
    /\ AtSelect
    /\ received' = [received EXCEPT ![c] = "unregister"]
    /\ reader' = [reader EXCEPT ![c] = "done"]
    /\ UNCHANGED <<handler, active, socket, clients, queue, closed, writer,
                   panicked>>

\* The viewer goes away.
Disconnect(c) ==
    /\ socket[c] = "up"
    /\ socket' = [socket EXCEPT ![c] = "lost"]
    /\ UNCHANGED <<handler, active, clients, queue, closed, received, writer,
                   reader, panicked>>

-----------------------------------------------------------------------------
(* The specification.                                                      *)

Admit(c)  == Check(c) \/ UpgradeFails(c) \/ Count(c)
Writer(c) == \/ WriterTakes(c) \/ WriterDrained(c)
             \/ WriterUnregisters(c) \/ WriterCloses(c)
Reader(c) == ReaderFails(c) \/ ReaderUnregisters(c)

Next ==
    \/ \E src \in Sources : Broadcast(src)
    \/ \E c \in Conns : \/ Admit(c) \/ Register(c) \/ HubServes(c)
                        \/ Disconnect(c) \/ Writer(c) \/ Reader(c)

Spec == Init /\ [][Next]_vars

(***************************************************************************)
(* Goroutines that can run do.  The hub does what it has received; its     *)
(* select serves the senders of a channel in order and the channels at     *)
(* random, so that nobody who sends waits for ever; a writer that cannot   *)
(* write gives up after ten seconds.  No request and no line ever has to   *)
(* come.                                                                   *)
(***************************************************************************)
Fairness == \A c \in Conns : /\ WF_vars(Register(c))
                             /\ WF_vars(HubServes(c))
                             /\ WF_vars(Writer(c))
                             /\ WF_vars(Reader(c))

FairSpec == Spec /\ Fairness

-----------------------------------------------------------------------------
(* Properties.                                                             *)

\* No channel is closed twice or sent to after its close, although the writer
\* and the reader of a client both unregister it and captures broadcast all
\* the while (Streamer.run, Broadcast).
NoPanic == ~panicked

\* The connections that hold a slot: counted, and not closed by the writer.
Holders == {c \in Conns : handler[c] = "counted"
                          \/ writer[c] \in {"range", "unregister", "close"}}

\* A slot is taken once and given back once, however the connection ends.
SlotsCounted == active = Cardinality(Holders)

\* The limit is checked before the connection is counted, so requests admitted
\* together pass it - by less than their number (AtConnLimit, Register).
StreamsBounded == active < Limit + Handlers

\* A client whose writer goes away may still be in the hub's set and be sent
\* lines that nobody will write - but only until the hub has done the removal it
\* has received, however the writer came to go (run, the writer in Register).
NoStaleClient ==
    \A c \in clients :
        writer[c] \in {"close", "done"} => received[c] = "unregister"

\* A viewer that goes away gives its slot back, even if no line is ever written
\* to it again.
DisconnectFreesSlot ==
    \A c \in Conns : (socket[c] = "lost") ~> (writer[c] = "done" /\ c \notin clients)
=============================================================================

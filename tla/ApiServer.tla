------------------------------ MODULE ApiServer ------------------------------
(***************************************************************************)
(* How a request gets into the API: the white list and the rate limiter,   *)
(* the authentication middleware, the Negotiate handshake with its         *)
(* sessions, the clean-up of stale sessions, the hooks on the state of a   *)
(* connection, and the shutdown of the server.  HTTP/1 serves one request  *)
(* of a connection at a time; the clean-up and the shutdown run beside it. *)
(* A session object that left the store lives on in the request that holds *)
(* it.  Time is counted in half minutes, the interval of the clean-up.     *)
(***************************************************************************)
EXTENDS Integers, FiniteSets

CONSTANTS Conns,         \* connections, named by their remote address
          IpOf,          \* the address of each
          Whitelist, Local,
          Rate,          \* requests of an address in a minute
          Contexts,      \* bound: security contexts that exist at a time
          Environments   \* settings the server starts with, and its world

Ips == {IpOf[c] : c \in Conns}
None == 0
Window == 2              \* the minute of the limiter
StaleAfter == 2          \* the minute of the sessions
Oldest == 2 * Window     \* ages of buckets are counted up to here
Stalest == StaleAfter + 1

ASSUME ServerAssumption ==
    /\ Contexts \in SUBSET Nat /\ None \notin Contexts
    /\ Rate \in Nat \ {0}
    \* limited: clients come near their rate; renegotiates: a client starts
    \* over on a connection that is let in; slow: a call into SSPI takes more
    \* than a minute; odd: a call returns a status that is no error and not
    \* expected, or the names of a finished context cannot be read; busy: the
    \* server stops with requests in flight.
    /\ Environments \subseteq
          [enabled : BOOLEAN, type : {"token", "basic", "sspi"},
           bypass : BOOLEAN, limited : BOOLEAN, renegotiates : BOOLEAN,
           slow : BOOLEAN, odd : BOOLEAN, busy : BOOLEAN]

VARIABLES
    env,
    store,       \* the server's sspiStore: none, open or closed
    phase,       \* of the server
    conn,        \* state of each connection
    request,     \* the request a connection is serving, and how far it is
    stored,      \* connections with a session in the store
    session,     \* that session, or the one a request still holds
    live,        \* security contexts not yet deleted
    misused,     \* SSPI was called with a handle that is freed
    freedTwice,
    client,      \* what the client can count on
    bucket,      \* RateLimiter.clients
    admitted     \* requests let through in this half minute and the last

limiter == <<bucket, admitted>>
vars == <<env, store, phase, conn, request, stored, session, live,
          misused, freedTwice, client, bucket, admitted>>

NoSession == [state |-> "new", ctx |-> None, admin |-> FALSE, age |-> 0]
NoRequest == [at |-> "none", in |-> None, out |-> None]
NoBucket == [tokens |-> -1, age |-> 0]

TypeOK ==
    /\ env \in Environments
    /\ store \in {"none", "open", "closed"}
    /\ phase \in {"up", "closing", "stopped"}
    /\ conn \in [Conns -> {"idle", "busy", "gone"}]
    /\ request \in [Conns -> [at : {"none", "accept", "challenge", "complete",
                                    "decide", "fail", "serve"},
                              in : Contexts \cup {None},
                              out : Contexts \cup {None}]]
    /\ stored \in SUBSET Conns
    /\ session \in [Conns -> [state : {"new", "challenge", "complete"},
                              ctx : Contexts \cup {None}, admin : BOOLEAN,
                              age : 0..Stalest]]
    /\ live \in SUBSET Contexts
    /\ misused \in BOOLEAN /\ freedTwice \in BOOLEAN
    /\ client \in [Conns -> {"new", "challenged", "done"}]
    /\ bucket \in [Ips -> [tokens : -1..(Rate - 1), age : 0..Oldest]]
    /\ admitted \in [Ips -> [now : 0..(2 * Rate), last : 0..(2 * Rate)]]

\* NewServer; without credentials it falls back to the other methods.
Init ==
    /\ env \in Environments
    /\ store \in IF env.enabled /\ env.type = "sspi" THEN {"open", "none"}
                                                       ELSE {"none"}
    /\ phase = "up"
    /\ conn = [c \in Conns |-> "gone"]
    /\ request = [c \in Conns |-> NoRequest]
    /\ stored = {}
    /\ session = [c \in Conns |-> NoSession]
    /\ live = {} /\ misused = FALSE /\ freedTwice = FALSE
    /\ client = [c \in Conns |-> "new"]
    /\ bucket = [i \in Ips |-> NoBucket]
    /\ admitted = [i \in Ips |-> [now |-> 0, last |-> 0]]

-----------------------------------------------------------------------------
(* The rate limiter.                                                       *)

NewWindow(i) == bucket[i] = NoBucket \/ bucket[i].age >= Window

\* Fault: the request that opens a window is not charged.
AllowOneMore(i) ==
    /\ env.limited => NewWindow(i) \/ bucket[i].tokens > 0
    /\ bucket' = [bucket EXCEPT ![i] =
                    IF ~env.limited THEN @
                    ELSE IF NewWindow(i) THEN [tokens |-> Rate, age |-> 0]
                                         ELSE [@ EXCEPT !.tokens = bucket[i].tokens - 1]]
    /\ admitted' = [admitted EXCEPT ![i].now = @ + IF env.limited THEN 1 ELSE 0]

\* Fault: the window starts anew with every request.
AllowSliding(i) ==
    /\ env.limited => NewWindow(i) \/ bucket[i].tokens > 0
    /\ bucket' = [bucket EXCEPT ![i] =
                    IF env.limited THEN [tokens |-> Rate - 1, age |-> 0] ELSE @]
    /\ admitted' = [admitted EXCEPT ![i].now = @ + IF env.limited THEN 1 ELSE 0]

\* RateLimiter.Allow lets the request through.  What clients that stay far
\* below their rate do to it is not counted.
Allow(i) ==
    /\ env.limited => NewWindow(i) \/ bucket[i].tokens > 0
    /\ bucket' = [bucket EXCEPT ![i] =
                    IF ~env.limited THEN @
                    ELSE IF NewWindow(i) THEN [tokens |-> Rate - 1, age |-> 0]
                                         ELSE [@ EXCEPT !.tokens = bucket[i].tokens - 1]]
    /\ admitted' = [admitted EXCEPT ![i].now = @ + IF env.limited THEN 1 ELSE 0]

\* cleanup forgets the addresses that were silent for two windows.
Forget ==
    /\ \E i \in Ips : bucket[i] # NoBucket /\ bucket[i].age >= 2 * Window
    /\ bucket' = [i \in Ips |-> IF bucket[i].age >= 2 * Window THEN NoBucket
                                                               ELSE bucket[i]]
    /\ UNCHANGED <<env, store, phase, conn, request, stored, session, live,
                   misused, freedTwice, client, admitted>>

-----------------------------------------------------------------------------
(* The session store.                                                      *)

\* DeleteSecurityContext of some handles.
Free(handles) ==
    /\ live' = live \ handles
    /\ freedTwice' = (freedTwice \/ ~(handles \subseteq live))

Handles(cs) == {session[c].ctx : c \in cs} \ {None}

\* Fault: the context is deleted and the session stays.
RemoveContextOnly(c) ==
    /\ Free(IF c \in stored THEN Handles({c}) ELSE {})
    /\ UNCHANGED <<stored, session>>

\* Fault: the session goes and its context stays.
RemoveSessionOnly(c) ==
    /\ stored' = stored \ {c}
    /\ session' = [session EXCEPT ![c] = NoSession]
    /\ UNCHANGED <<live, freedTwice>>

\* SessionStore.Remove, by the request of c or when none is running.
Remove(c) ==
    /\ Free(IF c \in stored THEN Handles({c}) ELSE {})
    /\ stored' = stored \ {c}
    /\ session' = [session EXCEPT ![c] = NoSession]

\* The session objects of cs leave the store; a request may still hold one.
Dropped(cs) == [c \in Conns |-> IF c \in cs /\ request[c].at \in {"none", "serve"}
                                THEN NoSession ELSE session[c]]

Touched(c) == [session EXCEPT ![c].age = 0]

Stale == {c \in stored : /\ session[c].state # "complete"
                         /\ session[c].age > StaleAfter}

\* Fault: every session that was not touched for a minute goes.
EvictIdle ==
    LET old == {c \in stored : session[c].age > StaleAfter} IN
    /\ store = "open" /\ old # {}
    /\ Free(Handles(old))
    /\ stored' = stored \ old
    /\ session' = Dropped(old)
    /\ UNCHANGED <<env, store, phase, conn, request, misused, client, limiter>>

\* Fault: only a session that was never challenged goes.
EvictUnchallenged ==
    LET old == {c \in Stale : session[c].state = "new"} IN
    /\ store = "open" /\ old # {}
    /\ Free(Handles(old))
    /\ stored' = stored \ old
    /\ session' = Dropped(old)
    /\ UNCHANGED <<env, store, phase, conn, request, misused, client, limiter>>

\* Fault: the contexts are deleted and the sessions stay.
EvictContexts ==
    /\ store = "open" /\ Stale # {}
    /\ Free(Handles(Stale))
    /\ UNCHANGED <<env, store, phase, conn, request, stored, session, misused,
                   client, limiter>>

\* evictStale; a handle it takes out of the store is nobody else's to free.
EvictStale ==
    /\ store = "open" /\ Stale # {}
    /\ Free(Handles(Stale))
    /\ stored' = stored \ Stale
    /\ session' = Dropped(Stale)
    /\ UNCHANGED <<env, store, phase, conn, request, misused, client, limiter>>

-----------------------------------------------------------------------------
(* The middleware, up to the handler or the refusal.                       *)

Negotiates == env.type = "sspi" /\ store # "none"
Open(c) == ~env.enabled \/ (env.bypass /\ c \in Local)
SessionLetsIn(c) == c \in stored /\ session[c].state = "complete"

\* A request of an idle connection passes the white list and the limiter.
Arrives(c) ==
    /\ conn[c] = "idle"
    /\ phase = "up" \/ (phase = "closing" /\ env.busy)
    /\ IpOf[c] \in Whitelist
    /\ Allow(IpOf[c])

Serving(c) ==
    /\ conn' = [conn EXCEPT ![c] = "busy"]
    /\ request' = [request EXCEPT ![c] = [NoRequest EXCEPT !.at = "serve"]]

\* No credentials are asked for, or they are the token or the password.  A
\* WebSocket can bring the token only, and only after its session is looked up.
ServeOther(c, by, socket) ==
    /\ Arrives(c)
    /\ \/ by = "open" /\ Open(c)
       \/ by = "token" /\ ~Open(c) /\ ~(Negotiates /\ socket /\ SessionLetsIn(c))
       \/ by = "basic" /\ ~Open(c) /\ ~Negotiates /\ ~socket
    /\ Serving(c)
    /\ session' = IF by = "token" /\ Negotiates /\ socket /\ c \in stored
                  THEN Touched(c) ELSE session
    /\ UNCHANGED <<env, store, phase, stored, live, misused, freedTwice, client>>

\* No Authorization header is needed on a connection that is let in.
ServeSession(c) ==
    /\ Arrives(c)
    /\ ~Open(c) /\ Negotiates /\ SessionLetsIn(c)
    /\ Serving(c)
    /\ session' = Touched(c)
    /\ UNCHANGED <<env, store, phase, stored, live, misused, freedTwice, client>>

\* 401: there are no credentials, or they are not right.
Refuse(c, looksUp) ==
    /\ Arrives(c)
    /\ ~Open(c)
    /\ looksUp => Negotiates /\ ~SessionLetsIn(c)
    /\ session' = IF looksUp /\ c \in stored THEN Touched(c) ELSE session
    /\ UNCHANGED <<env, store, phase, conn, request, stored, live, misused,
                   freedTwice, client>>

\* negotiateAuth: a header that cannot be decoded ends the session.
Garbled(c) ==
    /\ Arrives(c)
    /\ ~Open(c) /\ Negotiates
    /\ Remove(c)
    /\ client' = [client EXCEPT ![c] = "new"]
    /\ UNCHANGED <<env, store, phase, conn, request, misused>>

\* negotiateAuth takes the session, or a new one, and calls SSPI.
Negotiate(c, socket) ==
    /\ Arrives(c)
    /\ ~Open(c) /\ Negotiates
    /\ socket => ~SessionLetsIn(c)
    /\ client[c] = "done" => env.renegotiates
    /\ stored' = stored \cup {c}
    /\ session' = Touched(c)
    /\ conn' = [conn EXCEPT ![c] = "busy"]
    /\ request' = [request EXCEPT ![c] =
                    [NoRequest EXCEPT !.at = "accept", !.in = IF session[c].state = "challenge"
                                              THEN session[c].ctx ELSE None]]
    /\ UNCHANGED <<env, store, phase, live, misused, freedTwice, client>>

-----------------------------------------------------------------------------
(* The handshake.                                                          *)

Referenced == {session[c].ctx : c \in Conns} \cup {request[c].in : c \in Conns}
              \cup {request[c].out : c \in Conns}
Unused == Contexts \ (live \cup Referenced)

\* AcceptSecurityContext, with credentials or a context that are freed.
AcceptFreed(c) ==
    /\ request[c].at = "accept"
    /\ \/ store = "closed"
       \/ request[c].in # None /\ request[c].in \notin live
    /\ misused' = TRUE
    /\ request' = [request EXCEPT ![c].at = "fail"]
    /\ UNCHANGED <<env, store, phase, conn, stored, session, live, freedTwice,
                   client, limiter>>

\* AcceptSecurityContext: the first leg makes a context, the next ones go on
\* with it; only an error returns none.
Accept(c, outcome) ==
    LET out == IF outcome = "error" THEN None
               ELSE IF request[c].in # None THEN request[c].in
               ELSE CHOOSE k \in Unused : TRUE
    IN
    /\ request[c].at = "accept"
    /\ store = "open"
    /\ request[c].in # None => request[c].in \in live
    /\ (outcome # "error" /\ request[c].in = None) => Unused # {}
    /\ outcome = "unexpected" => env.odd
    /\ live' = live \cup ({out} \ {None})
    /\ request' = [request EXCEPT ![c].out = out,
                     ![c].at = CASE outcome = "continue" -> "challenge"
                                 [] outcome = "ok" -> "complete"
                                 [] OTHER -> "fail"]
    /\ UNCHANGED <<env, store, phase, conn, stored, session, misused,
                   freedTwice, client, limiter>>

\* The request ends, and with it a session object that is in no store.
Ends(c) ==
    /\ conn' = [conn EXCEPT ![c] = "idle"]
    /\ request' = [request EXCEPT ![c] = NoRequest]

\* The challenge is sent, and the session keeps the context for the answer.
Challenge(c) ==
    /\ request[c].at = "challenge"
    /\ session' = [session EXCEPT ![c] =
                     IF c \in stored THEN [@ EXCEPT !.state = "challenge",
                                                    !.ctx = request[c].out]
                                     ELSE NoSession]
    /\ client' = [client EXCEPT ![c] = "challenged"]
    /\ Ends(c)
    /\ UNCHANGED <<env, store, phase, stored, live, misused, freedTwice, limiter>>

\* CompleteSession cannot read the context.
CompleteFails(c) ==
    /\ request[c].at = "complete"
    /\ env.odd \/ request[c].out \notin live
    /\ misused' = (misused \/ request[c].out \notin live)
    /\ request' = [request EXCEPT ![c].at = "fail"]
    /\ UNCHANGED <<env, store, phase, conn, stored, session, live, freedTwice,
                   client, limiter>>

\* CompleteSession: who it is, and whether of the administrators' group.
Complete(c, admin) ==
    /\ request[c].at = "complete"
    /\ request[c].out \in live
    /\ session' = [session EXCEPT ![c] = [state |-> "complete", age |-> 0,
                                          ctx |-> request[c].out, admin |-> admin]]
    /\ request' = [request EXCEPT ![c].at = "decide"]
    /\ UNCHANGED <<env, store, phase, conn, stored, live, misused, freedTwice,
                   client, limiter>>

\* An administrator's request goes to its handler.
LetIn(c) ==
    /\ request[c].at = "decide" /\ session[c].admin
    /\ Serving(c)
    /\ session' = IF c \in stored THEN session
                  ELSE [session EXCEPT ![c] = NoSession]
    /\ client' = [client EXCEPT ![c] = "done"]
    /\ UNCHANGED <<env, store, phase, stored, live, misused, freedTwice, limiter>>

\* Fault: who is no administrator is refused, and the session stays.
TurnAwayOnly(c) ==
    /\ \/ request[c].at = "fail"
       \/ request[c].at = "decide" /\ ~session[c].admin
    /\ session' = IF c \in stored THEN session
                  ELSE [session EXCEPT ![c] = NoSession]
    /\ client' = [client EXCEPT ![c] = "new"]
    /\ Ends(c)
    /\ UNCHANGED <<env, store, phase, stored, live, misused, freedTwice, limiter>>

\* A handshake that failed, or that was not an administrator's.
TurnAway(c) ==
    /\ \/ request[c].at = "fail"
       \/ request[c].at = "decide" /\ ~session[c].admin
    /\ Remove(c)
    /\ client' = [client EXCEPT ![c] = "new"]
    /\ Ends(c)
    /\ UNCHANGED <<env, store, phase, misused, limiter>>

\* The handler returns.
Served(c) ==
    /\ request[c].at = "serve"
    /\ Ends(c)
    /\ UNCHANGED <<env, store, phase, stored, session, live, misused,
                   freedTwice, client, limiter>>

-----------------------------------------------------------------------------
(* Connections and the server.                                             *)

Connect(c) ==
    /\ conn[c] = "gone" /\ phase = "up"
    /\ conn' = [conn EXCEPT ![c] = "idle"]
    /\ UNCHANGED <<env, store, phase, request, stored, session, live, misused,
                   freedTwice, client, limiter>>

\* The connection is closed, by either side, or a handler takes it over for a
\* WebSocket: the ConnState hook removes its session.  Shutdown closes the idle
\* ones.
Disconnect(c) ==
    /\ \/ conn[c] = "idle" /\ phase # "stopped"
       \/ request[c].at = "serve"
    /\ conn' = [conn EXCEPT ![c] = "gone"]
    /\ request' = [request EXCEPT ![c] = NoRequest]
    /\ Remove(c)
    /\ client' = [client EXCEPT ![c] = "new"]
    /\ UNCHANGED <<env, store, phase, misused, limiter>>

\* Server.Stop closes the session store before the server is shut down.
Stop ==
    /\ phase = "up"
    /\ ~env.busy => \A c \in Conns : conn[c] # "busy"
    /\ phase' = "closing"
    /\ store' = IF store = "open" THEN "closed" ELSE store
    /\ Free(Handles(stored))
    /\ stored' = {}
    /\ session' = Dropped(stored)
    /\ UNCHANGED <<env, conn, request, misused, client, limiter>>

Stopped ==
    /\ phase = "closing"
    /\ \A c \in Conns : conn[c] = "gone"
    /\ phase' = "stopped"
    /\ UNCHANGED <<env, store, conn, request, stored, session, live, misused,
                   freedTwice, client, limiter>>

Aged(n, top) == IF n < top THEN n + 1 ELSE n

\* Half a minute passes; no call into SSPI takes that long, unless env says so.
\* A client that leaves its challenge unanswered for a minute starts again.
Tick ==
    /\ phase # "stopped"
    /\ \/ env.slow
       \/ \A c \in Conns : request[c].at \in {"none", "serve"}
    /\ session' = [c \in Conns |-> IF c \in stored
                                   THEN [session[c] EXCEPT !.age = Aged(@, Stalest)]
                                   ELSE session[c]]
    /\ client' = [c \in Conns |->
                    IF client[c] = "challenged" /\ session[c].age >= StaleAfter
                    THEN "new" ELSE client[c]]
    /\ bucket' = [i \in Ips |-> IF bucket[i] = NoBucket THEN NoBucket
                                ELSE [bucket[i] EXCEPT !.age = Aged(@, Oldest)]]
    /\ admitted' = [i \in Ips |-> [now |-> 0, last |-> admitted[i].now]]
    /\ UNCHANGED <<env, store, phase, conn, request, stored, live, misused,
                   freedTwice>>

-----------------------------------------------------------------------------

Request(c) ==
    \/ \E by \in {"open", "token", "basic"}, socket \in BOOLEAN :
          ServeOther(c, by, socket)
    \/ ServeSession(c) \/ \E socket \in BOOLEAN : Negotiate(c, socket)
    \/ \E looksUp \in BOOLEAN : Refuse(c, looksUp)
    \/ Garbled(c)

Handler(c) ==
    \/ AcceptFreed(c)
    \/ \E outcome \in {"error", "continue", "ok", "unexpected"} : Accept(c, outcome)
    \/ Challenge(c) \/ CompleteFails(c)
    \/ \E admin \in BOOLEAN : Complete(c, admin)
    \/ LetIn(c) \/ TurnAway(c) \/ Served(c)

Next ==
    \/ \E c \in Conns : Connect(c) \/ Request(c) \/ Handler(c) \/ Disconnect(c)
    \/ EvictStale \/ Forget \/ Tick \/ Stop \/ Stopped

Spec == Init /\ [][Next]_vars

\* The goroutines of the server get their turns and time goes on; Shutdown
\* closes the connections that are idle.  A client need not do anything.
FairSpec ==
    /\ Spec
    /\ WF_vars(EvictStale) /\ WF_vars(Tick)
    /\ \A c \in Conns : /\ WF_vars(Handler(c))
                        /\ WF_vars(phase = "closing" /\ Disconnect(c))

-----------------------------------------------------------------------------
(* Properties.                                                             *)

Calm == env.renegotiates = FALSE /\ env.slow = FALSE /\ env.odd = FALSE
        /\ env.busy = FALSE

\* A security context that is not deleted yet belongs to a session in the
\* store or to a request that is still at work on it, and so Close releases
\* them all.  Whoever starts a second handshake on a connection, has a call
\* outlast the clean-up, gets an unexpected status or is in flight when the
\* server stops leaves one behind.
ContextsOwned ==
    Calm => live \subseteq {session[c].ctx : c \in stored}
                           \cup {request[c].out : c \in Conns}

\* The clean-up, the hooks, the handshakes and Close, in whatever order they
\* come, delete each context once.
FreedOnce == ~freedTwice

\* SSPI is called with a context or with credentials that were freed only when
\* a call outlasted the clean-up or the server stopped under a request.
NoStaleHandle == misused => env.slow \/ env.busy

\* A session that lets requests in is an administrator's, and its context is
\* alive.
SessionsAreAdmins ==
    \A c \in stored : session[c].state = "complete" =>
        /\ session[c].ctx \in live
        /\ request[c].at # "decide" => session[c].admin

\* While the server is up, a client that answers its challenge within a minute
\* finds its session waiting for the answer, and a client that was let in
\* stays so until it disconnects, however long it is silent.
ClientsKept ==
    \A c \in Conns :
        (phase = "up" /\ ~env.slow /\ conn[c] = "idle") =>
            /\ client[c] = "challenged" =>
                  /\ c \in stored /\ session[c].state = "challenge"
                  /\ session[c].ctx \in live
            /\ client[c] = "done" => SessionLetsIn(c)

\* No address gets more than twice its rate through in a minute, wherever the
\* minute begins: the windows are fixed, so two of them may meet in it.
RateBound == \A i \in Ips : admitted[i].now + admitted[i].last <= 2 * Rate

\* A handshake that its client abandons does not stay in the store.
AbandonedHandshakesEnd ==
    \A c \in Conns : (c \in Stale) ~> (c \notin Stale)
=============================================================================

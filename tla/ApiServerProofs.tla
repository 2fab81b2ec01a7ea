--------------------------- MODULE ApiServerProofs ---------------------------
(***************************************************************************)
(* Proofs about ApiServer, for any connections, addresses, rate, number of *)
(* contexts and environments.                                              *)
(***************************************************************************)
EXTENDS ApiServer, TLAPS

-----------------------------------------------------------------------------
(* The invariants.                                                         *)

Bucket == [tokens : -1..(Rate - 1), age : 0..Oldest]
Admitted == [now : 0..(2 * Rate), last : 0..(2 * Rate)]

\* What an address has been let through is what its bucket has lost: all of it
\* in this half minute at first, then in this and the last, then in the last;
\* a window that is opened over an older one finds at most a rate in the last.
Charged(b, a) ==
    LET spent == Rate - b.tokens IN
    /\ b \in Bucket /\ a \in Admitted
    /\ b # NoBucket => b.tokens >= 0
    /\ (b = NoBucket \/ b.age > Window) => a.now = 0 /\ a.last = 0
    /\ b # NoBucket =>
          /\ b.age = 0 => a.now = spent /\ a.last <= Rate
          /\ b.age = 1 => a.now + a.last = spent
          /\ b.age = 2 => a.now = 0 /\ a.last <= Rate
    /\ ~env.limited => b = NoBucket

LimiterInv ==
    /\ bucket \in [Ips -> Bucket] /\ admitted \in [Ips -> Admitted]
    /\ \A i \in Ips : Charged(bucket[i], admitted[i])

Requests == [at : {"none", "accept", "challenge", "complete", "decide", "fail", "serve"},
             in : Contexts \cup {None}, out : Contexts \cup {None}]
Sessions == [state : {"new", "challenge", "complete"}, ctx : Contexts \cup {None},
             admin : BOOLEAN, age : 0..Stalest]

\* The types of everything but the limiter.
Typed ==
    /\ env \in Environments
    /\ store \in {"none", "open", "closed"}
    /\ phase \in {"up", "closing", "stopped"}
    /\ conn \in [Conns -> {"idle", "busy", "gone"}]
    /\ request \in [Conns -> Requests]
    /\ stored \in SUBSET Conns
    /\ session \in [Conns -> Sessions]
    /\ live \in SUBSET Contexts
    /\ misused \in BOOLEAN /\ freedTwice \in BOOLEAN
    /\ client \in [Conns -> {"new", "challenged", "done"}]

\* The contexts a connection knows, in its session or its handshake.
Own(c) == {session[c].ctx, request[c].in, request[c].out} \ {None}

\* A request is in its handshake.
Flying(c) == request[c].at \notin {"none", "serve"}

\* A request and its connection, and the session when there is none.
Tidy(c) ==
    /\ conn[c] = "busy" <=> request[c].at # "none"
    /\ ~Flying(c) => request[c].in = None /\ request[c].out = None
    /\ ~Flying(c) /\ c \notin stored => session[c] = NoSession
    /\ request[c].at = "accept" => request[c].out = None
    /\ request[c].at \in {"challenge", "complete"} => request[c].out # None
    /\ request[c].at = "decide" => session[c].state = "complete"
    /\ session[c].state = "new" <=> session[c].ctx = None

\* A session in the store keeps what its connection knows alive, and only an
\* administrator's is complete.
Alive(c) ==
    c \in stored =>
        /\ Own(c) \subseteq live
        /\ session[c].state = "complete" /\ request[c].at # "decide" => session[c].admin

\* No clean-up comes between the legs of a handshake in progress, nor does the
\* server stop; and where it is not in progress the session waits for a client.
Kept(c) ==
    /\ Flying(c) => phase = "up" \/ env.busy
    /\ (phase = "up" /\ ~env.slow) =>
          IF Flying(c) THEN c \in stored /\ session[c].age = 0
          ELSE /\ client[c] = "challenged" =>
                     /\ c \in stored /\ session[c].state = "challenge"
                     /\ session[c].age <= StaleAfter
               /\ client[c] = "done" => SessionLetsIn(c)

\* In calm weather a handshake goes on with the context of its session.
Steady(c) ==
    Calm =>
        /\ c \in stored /\ session[c].state = "complete" /\ request[c].at # "decide" =>
              client[c] = "done" /\ ~Flying(c)
        /\ Flying(c) /\ request[c].at # "decide" =>
              /\ session[c].ctx \in {None, request[c].in}
              /\ request[c].in # None => request[c].out \in {None, request[c].in}
        /\ request[c].at = "decide" => request[c].out = session[c].ctx
        /\ request[c].at = "fail" => request[c].out = None

\* No two connections know the same context.
Apart == \A c, d \in Conns : c # d => Own(c) \cap Own(d) = {}

HandshakeInv ==
    /\ Typed
    /\ \A c \in Conns : Tidy(c) /\ Alive(c) /\ Kept(c) /\ Steady(c)
    /\ Apart
    /\ store = "closed" => phase # "up"
    /\ FreedOnce /\ NoStaleHandle /\ ContextsOwned

-----------------------------------------------------------------------------
(* The limiter.                                                            *)

LEMMA Sizes ==
    /\ Rate \in Nat \ {0} /\ Window = 2 /\ Oldest = 4 /\ StaleAfter = 2 /\ Stalest = 3
    /\ None \notin Contexts /\ Contexts \in SUBSET Nat /\ None = 0
BY ServerAssumption DEF Window, Oldest, StaleAfter, Stalest, None

LEMMA LimiterInit == Init => LimiterInv
<1> SUFFICES ASSUME Init PROVE LimiterInv
  OBVIOUS
<1>1. NoBucket \in Bucket /\ [now |-> 0, last |-> 0] \in Admitted
  BY Sizes DEF NoBucket, Bucket, Admitted
<1>2. Charged(NoBucket, [now |-> 0, last |-> 0])
  BY <1>1 DEF Charged
<1> QED BY <1>1, <1>2 DEF Init, LimiterInv

LEMMA NewBucket ==
    ASSUME NEW t \in 0..(Rate - 1), NEW n \in 0..Oldest
    PROVE  [tokens |-> t, age |-> n] \in Bucket /\ [tokens |-> t, age |-> n] # NoBucket
<1>1. [tokens |-> t, age |-> n] \in Bucket
  BY Sizes DEF Bucket
<1>2. [tokens |-> t, age |-> n].tokens # NoBucket.tokens
  BY Sizes DEF NoBucket
<1> QED BY <1>1, <1>2

LEMMA AllowKeeps ==
    ASSUME LimiterInv, NEW i \in Ips, Allow(i), UNCHANGED env
    PROVE  LimiterInv'
<1> DEFINE b == bucket[i]
           a == admitted[i]
           b1 == IF ~env.limited THEN b
                 ELSE IF NewWindow(i) THEN [tokens |-> Rate - 1, age |-> 0]
                                      ELSE [b EXCEPT !.tokens = b.tokens - 1]
           a1 == [a EXCEPT !.now = a.now + IF env.limited THEN 1 ELSE 0]
<1>1. Charged(b, a) /\ b \in Bucket /\ a \in Admitted
  BY DEF LimiterInv
<1>2. bucket' = [bucket EXCEPT ![i] = b1] /\ admitted' = [admitted EXCEPT ![i] = a1]
  <2>1. bucket' = [bucket EXCEPT ![i] = b1]
    <3>1. CASE ~env.limited
      BY <3>1 DEF Allow
    <3>2. CASE env.limited /\ NewWindow(i)
      BY <3>2 DEF Allow
    <3>3. CASE env.limited /\ ~NewWindow(i)
      BY <3>3 DEF Allow
    <3> QED BY <3>1, <3>2, <3>3
  <2>2. admitted' = [admitted EXCEPT ![i] = a1]
    BY Zenon DEF Allow
  <2> QED BY <2>1, <2>2
<1>3. env.limited => NewWindow(i) \/ b.tokens > 0
  BY DEF Allow
<1>4. Charged(b1, a1)
  <2>1. CASE ~env.limited
    <3>1. a1 = a
      BY <1>1, <2>1 DEF Admitted
    <3> QED BY <1>1, <2>1, <3>1
  <2>2. CASE env.limited /\ NewWindow(i)
    <3>1. b1 = [tokens |-> Rate - 1, age |-> 0]
      BY <2>2
    <3>2. b1 \in Bucket /\ b1 # NoBucket
      <4>1. Rate - 1 \in 0..(Rate - 1) /\ 0 \in 0..Oldest
        BY Sizes
      <4> HIDE DEF b1
      <4> QED BY <3>1, <4>1, NewBucket
    <3>3. b1.tokens = Rate - 1 /\ b1.age = 0
      BY <3>1
    <3>4. a.now = 0 /\ a.last \in 0..Rate
      BY <1>1, <2>2, Sizes DEF Charged, NewWindow, Bucket, Admitted
    <3>5. a1 \in Admitted /\ a1.now = 1 /\ a1.last = a.last
      BY <1>1, <2>2, <3>4, Sizes DEF Admitted
    <3> HIDE DEF a1, b1
    <3> QED BY <2>2, <3>2, <3>3, <3>4, <3>5, Sizes DEF Charged
  <2>3. CASE env.limited /\ ~NewWindow(i)
    <3>1. b1 = [b EXCEPT !.tokens = b.tokens - 1]
      BY <2>3
    <3>2. /\ b # NoBucket /\ b.age \in {0, 1} /\ b.tokens \in 1..(Rate - 1)
      BY <1>1, <1>3, <2>3, Sizes DEF NewWindow, Bucket
    <3>3. b1 = [tokens |-> b.tokens - 1, age |-> b.age]
      BY <1>1, <3>1 DEF Bucket
    <3>4. b1 \in Bucket /\ b1 # NoBucket
      <4>1. b.tokens - 1 \in 0..(Rate - 1) /\ b.age \in 0..Oldest
        BY <3>2, Sizes
      <4> HIDE DEF b1
      <4> QED BY <3>3, <4>1, NewBucket
    <3>5. b1.tokens = b.tokens - 1 /\ b1.age = b.age
      BY <3>3
    <3>6. a1 = [a EXCEPT !.now = a.now + 1]
      BY <2>3
    <3>7. a1.now = a.now + 1 /\ a1.last = a.last
      BY <1>1, <3>6 DEF Admitted
    <3>8. a.now + 1 \in 0..(2 * Rate)
      BY <1>1, <3>2, Sizes DEF Charged, Admitted
    <3>9. a1 \in Admitted
      BY <1>1, <3>6, <3>8 DEF Admitted
    <3>10. a.now \in Nat /\ a.last \in Nat
      BY <1>1, Sizes DEF Admitted
    <3>11. /\ b.age = 0 => a.now = Rate - b.tokens /\ a.last <= Rate
           /\ b.age = 1 => a.now + a.last = Rate - b.tokens
      BY <1>1, <3>2 DEF Charged
    <3> HIDE DEF a, b, a1, b1
    <3>12. /\ b1.tokens >= 0 /\ b1.age \in {0, 1}
           /\ b1.age = 0 => a1.now = Rate - b1.tokens /\ a1.last <= Rate
           /\ b1.age = 1 => a1.now + a1.last = Rate - b1.tokens
      BY <3>2, <3>5, <3>7, <3>10, <3>11, Sizes
    <3> QED BY <2>3, <3>4, <3>9, <3>12, Sizes DEF Charged
  <2> QED BY <2>1, <2>2, <2>3
<1>5. b1 \in Bucket /\ a1 \in Admitted
  BY <1>4 DEF Charged
<1> HIDE DEF a1, b1
<1>6. bucket' \in [Ips -> Bucket] /\ admitted' \in [Ips -> Admitted]
  BY <1>2, <1>5 DEF LimiterInv
<1>7. ASSUME NEW j \in Ips PROVE Charged(bucket[j], admitted[j])'
  <2>1. CASE j = i
    <3>1. bucket'[j] = b1 /\ admitted'[j] = a1
      BY <1>2, <2>1 DEF LimiterInv
    <3> QED BY <1>4, <3>1 DEF Charged
  <2>2. CASE j # i
    <3>1. bucket'[j] = bucket[j] /\ admitted'[j] = admitted[j]
      BY <1>2, <2>2 DEF LimiterInv
    <3>2. Charged(bucket[j], admitted[j])
      BY DEF LimiterInv
    <3> QED BY <3>1, <3>2 DEF Charged
  <2> QED BY <2>1, <2>2
<1> QED BY <1>6, <1>7 DEF LimiterInv

LEMMA TickKeepsLimiter ==
    ASSUME LimiterInv, Tick
    PROVE  LimiterInv'
<1>1. ASSUME NEW i \in Ips
      PROVE  /\ bucket'[i] \in Bucket /\ admitted'[i] \in Admitted
             /\ Charged(bucket[i], admitted[i])'
  <2> DEFINE b == bucket[i]
             a == admitted[i]
             b1 == bucket'[i]
             a1 == admitted'[i]
  <2>1. Charged(b, a)
    BY DEF LimiterInv
  <2>2. b \in Bucket /\ a \in Admitted /\ a.now \in 0..(2 * Rate)
    BY <2>1 DEF Charged, Admitted
  <2>3. /\ a1 = [now |-> 0, last |-> a.now]
        /\ b1 = IF b = NoBucket THEN NoBucket ELSE [b EXCEPT !.age = Aged(b.age, Oldest)]
        /\ UNCHANGED env
    BY DEF Tick
  <2>4. a1 \in Admitted /\ a1.now = 0 /\ a1.last = a.now
    BY <2>2, <2>3, Sizes DEF Admitted
  <2>5. CASE b = NoBucket
    BY <2>1, <2>2, <2>3, <2>4, <2>5 DEF Charged
  <2>6. CASE b # NoBucket
    <3>1. b.age \in 0..Oldest /\ b.tokens \in 0..(Rate - 1)
      BY <2>1, <2>2, <2>6, Sizes DEF Charged, Bucket
    <3>2. Aged(b.age, Oldest) \in 0..Oldest
      BY <3>1, Sizes DEF Aged
    <3>3. b1 = [tokens |-> b.tokens, age |-> Aged(b.age, Oldest)]
      BY <2>2, <2>3, <2>6 DEF Bucket
    <3>4. b1 \in Bucket /\ b1 # NoBucket
      <4> HIDE DEF b1
      <4> QED BY <3>1, <3>2, <3>3, NewBucket
    <3>5. b1.tokens = b.tokens /\ b1.age = Aged(b.age, Oldest)
      BY <3>3
    <3>6. /\ b.age > 2 => a.now = 0 /\ a.last = 0
          /\ b.age = 0 => a.now = Rate - b.tokens /\ a.last <= Rate
          /\ b.age = 1 => a.now + a.last = Rate - b.tokens
          /\ b.age = 2 => a.now = 0 /\ a.last <= Rate
      BY <2>1, <2>6, Sizes DEF Charged
    <3>7. a.now \in Nat /\ a.last \in Nat
      BY <2>2, Sizes DEF Admitted
    <3>8. env.limited
      BY <2>1, <2>6 DEF Charged
    <3> HIDE DEF a, b, a1, b1
    <3>9. /\ b1.age > 2 => a1.now = 0 /\ a1.last = 0
          /\ b1.age = 0 => a1.now = Rate - b1.tokens /\ a1.last <= Rate
          /\ b1.age = 1 => a1.now + a1.last = Rate - b1.tokens
          /\ b1.age = 2 => a1.now = 0 /\ a1.last <= Rate
          /\ b1.tokens >= 0
      BY <2>4, <3>1, <3>5, <3>6, <3>7, Sizes DEF Aged
    <3>10. Charged(b1, a1)
      BY <2>4, <3>4, <3>8, <3>9, Sizes DEF Charged
    <3>11. Charged(bucket[i], admitted[i])'
      BY <2>3, <3>10 DEF Charged, a1, b1
    <3> QED BY <2>4, <3>4, <3>11 DEF a1, b1
  <2> QED BY <2>5, <2>6
<1>2. bucket' \in [Ips -> Bucket] /\ admitted' \in [Ips -> Admitted]
  BY <1>1 DEF Tick
<1> QED BY <1>1, <1>2 DEF LimiterInv

LEMMA ForgetKeepsLimiter ==
    ASSUME LimiterInv, Forget
    PROVE  LimiterInv'
<1>1. NoBucket \in Bucket
  BY Sizes DEF NoBucket, Bucket
<1>2. ASSUME NEW i \in Ips
      PROVE  bucket'[i] \in Bucket /\ Charged(bucket[i], admitted[i])'
  <2>1. Charged(bucket[i], admitted[i]) /\ UNCHANGED <<env, admitted>>
    BY DEF LimiterInv, Forget
  <2>2. CASE bucket[i].age >= 2 * Window
    <3>1. bucket'[i] = NoBucket
      BY <2>2 DEF Forget
    <3>2. bucket[i].age > 2
      BY <2>1, <2>2, Sizes DEF Charged, Bucket
    <3>3. admitted[i] \in Admitted /\ admitted[i].now = 0 /\ admitted[i].last = 0
      BY <2>1, <3>2, Sizes DEF Charged
    <3> QED BY <1>1, <2>1, <3>1, <3>3 DEF Charged
  <2>3. CASE ~(bucket[i].age >= 2 * Window)
    <3>1. bucket'[i] = bucket[i]
      BY <2>3 DEF Forget
    <3> QED BY <2>1, <3>1 DEF Charged
  <2> QED BY <2>2, <2>3
<1>3. bucket' \in [Ips -> Bucket]
  BY <1>2 DEF Forget
<1> QED BY <1>2, <1>3 DEF LimiterInv, Forget

\* No other step touches the limiter.
LEMMA LimiterNext == LimiterInv /\ [Next]_vars => LimiterInv'
<1> SUFFICES ASSUME LimiterInv, [Next]_vars PROVE LimiterInv'
  OBVIOUS
<1>1. CASE UNCHANGED <<env, limiter>>
  BY <1>1 DEF limiter, LimiterInv, Charged
<1>2. ASSUME NEW c \in Conns, Request(c) PROVE LimiterInv'
  <2>1. Allow(IpOf[c]) /\ UNCHANGED env
    BY <1>2 DEF Request, ServeOther, ServeSession, Refuse, Garbled, Negotiate, Arrives
  <2>2. IpOf[c] \in Ips
    BY DEF Ips
  <2> QED BY <2>1, <2>2, AllowKeeps
<1>3. ASSUME NEW c \in Conns, Connect(c) \/ Handler(c) \/ Disconnect(c)
      PROVE  UNCHANGED <<env, limiter>>
  BY <1>3 DEF Connect, Disconnect, Handler, AcceptFreed, Accept, Challenge,
              CompleteFails, Complete, LetIn, TurnAway, Served
<1>4. EvictStale \/ Stop \/ Stopped => UNCHANGED <<env, limiter>>
  BY DEF EvictStale, Stop, Stopped
<1>5. UNCHANGED vars => UNCHANGED <<env, limiter>>
  BY DEF vars, limiter
<1> QED
  BY <1>1, <1>2, <1>3, <1>4, <1>5, TickKeepsLimiter, ForgetKeepsLimiter DEF Next

\* In any minute, fixed windows or not, an address gets at most twice its rate
\* through RateLimiter.Allow, also when cleanup forgets it in between.
THEOREM RateBounded == Spec => []RateBound
<1>1. LimiterInv => RateBound
  <2> SUFFICES ASSUME LimiterInv, NEW i \in Ips
               PROVE  admitted[i].now + admitted[i].last <= 2 * Rate
    BY DEF RateBound
  <2>1. Charged(bucket[i], admitted[i])
    BY DEF LimiterInv
  <2>2. /\ admitted[i].now \in Nat /\ admitted[i].last \in Nat
        /\ bucket[i] # NoBucket => /\ bucket[i].age \in 0..4
                                   /\ Rate - bucket[i].tokens \in 0..Rate
    BY <2>1, Sizes DEF Charged, Bucket, Admitted
  <2> QED BY <2>1, <2>2, Sizes DEF Charged
<1> QED BY <1>1, LimiterInit, LimiterNext, PTL DEF Spec

-----------------------------------------------------------------------------
(* The handshakes.                                                         *)

Good(c) == Tidy(c) /\ Alive(c) /\ Kept(c) /\ Steady(c)

\* Where the context of a connection is kept.
Holds(c) == (IF c \in stored THEN {session[c].ctx} ELSE {}) \cup {request[c].out}

LEMMA OwnedIsHeld ==
    ASSUME stored \subseteq Conns
    PROVE  ContextsOwned <=> (Calm => \A k \in live : \E c \in Conns : k \in Holds(c))
<1>1. \A k : (k \in {session[c].ctx : c \in stored} \cup {request[c].out : c \in Conns})
              <=> \E c \in Conns : k \in Holds(c)
  BY DEF Holds
<1> QED BY <1>1 DEF ContextsOwned

LEMMA HandshakeInit == Init => HandshakeInv
<1> SUFFICES ASSUME Init PROVE HandshakeInv
  OBVIOUS
<1>1. Typed
  <2>1. NoRequest \in Requests /\ NoSession \in Sessions
    BY Sizes DEF NoRequest, Requests, NoSession, Sessions
  <2> QED BY <2>1 DEF Init, Typed
<1>2. \A c \in Conns : /\ request[c].at = "none" /\ request[c].in = None
                       /\ request[c].out = None /\ session[c] = NoSession
                       /\ session[c].ctx = None /\ session[c].state = "new"
                       /\ conn[c] = "gone" /\ client[c] = "new" /\ c \notin stored
  BY DEF Init, NoRequest, NoSession
<1>3. \A c \in Conns : Tidy(c) /\ Alive(c) /\ Kept(c) /\ Steady(c)
  BY <1>2 DEF Tidy, Alive, Kept, Steady, Flying
<1>4. Apart
  BY <1>2 DEF Apart, Own
<1>5. store # "closed" /\ FreedOnce /\ NoStaleHandle /\ ContextsOwned
  BY DEF Init, FreedOnce, NoStaleHandle, ContextsOwned
<1> QED BY <1>1, <1>3, <1>4, <1>5 DEF HandshakeInv

\* A step of one connection.
LocalStep(c) ==
    /\ UNCHANGED <<env, store, phase>>
    /\ \A d \in Conns \ {c} :
          /\ conn'[d] = conn[d] /\ request'[d] = request[d]
          /\ session'[d] = session[d] /\ client'[d] = client[d]
          /\ d \in stored' <=> d \in stored

\* What it frees is its own, what it makes is nobody's, and what it held and
\* did not free it still holds.
LocalContexts(c) ==
    /\ \A k \in live : k \in live' \/ k \in Own(c)
    /\ \A k \in Own(c)' : k \in Own(c) \/ k \in Unused
    /\ Calm => \A k \in live' : (k \notin live \/ k \in Holds(c)) => k \in Holds(c)'

LEMMA OneConnection ==
    ASSUME HandshakeInv, NEW c \in Conns, LocalStep(c), LocalContexts(c),
           Typed', Good(c)', FreedOnce', NoStaleHandle'
    PROVE  HandshakeInv'
<1>1. ASSUME NEW d \in Conns \ {c}
      PROVE  /\ Good(d)' /\ (Own(d)' = Own(d)) /\ (Holds(d)' = Holds(d))
             /\ Own(d) \cap Own(c)' = {}
  <2>1. /\ UNCHANGED <<env, store, phase>>
        /\ conn'[d] = conn[d] /\ request'[d] = request[d]
        /\ session'[d] = session[d] /\ client'[d] = client[d]
        /\ d \in stored' <=> d \in stored
    BY DEF LocalStep
  <2>2. Own(d)' = Own(d) /\ Holds(d)' = Holds(d)
    BY <2>1 DEF Own, Holds
  <2>3. Own(d) \cap Own(c) = {}
    BY DEF HandshakeInv, Apart
  <2>4. Own(d) \cap Own(c)' = {}
    <3>1. \A k \in Unused : k \notin Own(d)
      BY DEF Unused, Referenced, Own
    <3> QED BY <2>3, <3>1 DEF LocalContexts
  <2>5. Tidy(d)' /\ Kept(d)' /\ Steady(d)'
    <3>1. Tidy(d) /\ Kept(d) /\ Steady(d)
      BY DEF HandshakeInv
    <3>2. Tidy(d)'
      BY <2>1, <3>1 DEF Tidy, Flying
    <3>3. Kept(d)'
      BY <2>1, <3>1 DEF Kept, Flying, SessionLetsIn
    <3>4. Steady(d)'
      BY <2>1, <3>1 DEF Steady, Flying, Calm
    <3> QED BY <3>2, <3>3, <3>4
  <2>6. Alive(d)'
    <3>1. Alive(d) /\ \A k \in live : k \in live' \/ k \in Own(c)
      BY DEF HandshakeInv, LocalContexts
    <3>2. Own(d) \subseteq live => Own(d)' \subseteq live'
      BY <2>2, <2>3, <3>1
    <3> QED BY <2>1, <3>1, <3>2 DEF Alive
  <2> QED BY <2>2, <2>4, <2>5, <2>6 DEF Good
<1>2. \A d \in Conns : Good(d)'
  BY <1>1
<1>3. Apart'
  <2> SUFFICES ASSUME NEW d \in Conns, NEW e \in Conns, d # e
               PROVE  Own(d)' \cap Own(e)' = {}
    BY DEF Apart
  <2>1. d # c /\ e # c => Own(d) \cap Own(e) = {}
    BY DEF HandshakeInv, Apart
  <2> QED BY <1>1, <2>1
<1>4. ContextsOwned'
  <2>1. Calm' => Calm
    BY DEF LocalStep, Calm
  <2>2. Calm => \A k \in live : \E d \in Conns : k \in Holds(d)
    BY OwnedIsHeld DEF HandshakeInv, Typed
  <2>3. ASSUME Calm, NEW k \in live' PROVE \E d \in Conns : k \in Holds(d)'
    <3>1. CASE k \notin live \/ k \in Holds(c)
      BY <2>3, <3>1 DEF LocalContexts
    <3>2. CASE k \in live /\ k \notin Holds(c)
      BY <1>1, <2>2, <2>3, <3>2
    <3> QED BY <3>1, <3>2
  <2>4. Calm' => \A k \in live' : \E d \in Conns : k \in Holds(d)'
    BY <2>1, <2>3
  <2> QED BY <2>4 DEF ContextsOwned, Holds
<1>5. store' = "closed" => phase' # "up"
  BY DEF HandshakeInv, LocalStep
<1> QED BY <1>2, <1>3, <1>4, <1>5 DEF HandshakeInv, Good

LEMMA Current ==
    ASSUME HandshakeInv, NEW c \in Conns
    PROVE  /\ Good(c) /\ Typed
           /\ conn[c] \in {"idle", "busy", "gone"} /\ request[c] \in Requests
           /\ request[c].in \in Contexts \cup {None} /\ request[c].out \in Contexts \cup {None}
           /\ session[c] \in Sessions /\ session[c].ctx \in Contexts \cup {None}
           /\ client[c] \in {"new", "challenged", "done"}
           /\ NoRequest \in Requests /\ NoSession \in Sessions
<1>1. Good(c) /\ Typed
  BY DEF HandshakeInv, Good
<1>2. NoRequest \in Requests /\ NoSession \in Sessions
  BY Sizes DEF NoRequest, Requests, NoSession, Sessions
<1> QED BY <1>1, <1>2 DEF Typed, Requests, Sessions

\* A session that is looked up is only touched; and what is served is no
\* handshake.
LEMMA LookupKeeps ==
    ASSUME HandshakeInv, NEW c \in Conns, conn[c] = "idle",
           UNCHANGED session \/ (session' = Touched(c) /\ c \in stored),
           Serving(c) \/ UNCHANGED <<conn, request>>,
           UNCHANGED <<env, store, phase, stored, live, misused, freedTwice, client>>
    PROVE  HandshakeInv'
<1>1. /\ session'[c] \in Sessions /\ session'[c].ctx = session[c].ctx
      /\ session'[c].state = session[c].state /\ session'[c].admin = session[c].admin
      /\ c \notin stored => session'[c] = session[c]
      /\ session'[c].age \in {0, session[c].age}
  <2>1. CASE UNCHANGED session
    BY <2>1, Current
  <2>2. CASE session' = Touched(c) /\ c \in stored
    <3>1. session'[c] = [session[c] EXCEPT !.age = 0]
      BY <2>2, Current DEF Touched, Typed
    <3> QED BY <2>2, <3>1, Current, Sizes DEF Sessions
  <2> QED BY <2>1, <2>2
<1>2. request[c].at = "none" /\ request[c].in = None /\ request[c].out = None
  BY Current DEF Good, Tidy, Flying
<1>3. /\ request'[c] \in Requests /\ request'[c].at \in {"none", "serve"}
      /\ request'[c].in = None /\ request'[c].out = None
      /\ conn'[c] = "busy" <=> request'[c].at # "none"
      /\ conn'[c] \in {"idle", "busy", "gone"}
  <2>1. CASE Serving(c)
    BY <2>1, Current, Sizes DEF Serving, NoRequest, Typed, Requests
  <2>2. CASE UNCHANGED <<conn, request>>
    BY <1>2, <2>2, Current DEF Good, Tidy
  <2> QED BY <2>1, <2>2
<1>4. LocalStep(c)
  <2>1. \A d \in Conns \ {c} : session'[d] = session[d]
    BY Current DEF Touched, Typed
  <2>2. \A d \in Conns \ {c} : conn'[d] = conn[d] /\ request'[d] = request[d]
    BY Current DEF Serving, Typed
  <2> QED BY Current, <2>1, <2>2 DEF LocalStep
<1>5. Typed'
  <2>1. /\ session' \in [Conns -> Sessions]
        /\ conn' \in [Conns -> {"idle", "busy", "gone"}]
        /\ request' \in [Conns -> Requests]
    BY <1>1, <1>3, Current DEF Typed, Touched, Serving
  <2> QED BY <2>1, Current DEF Typed
<1>6. Own(c)' = Own(c) /\ Holds(c)' = Holds(c)
  BY <1>1, <1>2, <1>3 DEF Own, Holds
<1>7. LocalContexts(c)
  BY <1>6 DEF LocalContexts
<1>8. Tidy(c)'
  BY <1>1, <1>3, <1>2, Current DEF Good, Tidy, Flying
<1>9. Alive(c)'
  BY <1>1, <1>2, <1>6, Current DEF Good, Alive
<1>10. Kept(c)'
  BY <1>1, <1>2, <1>3, Current, Sizes DEF Good, Kept, Flying, SessionLetsIn, Sessions
<1>11. Steady(c)'
  BY <1>1, <1>2, <1>3, Current DEF Good, Steady, Flying, Calm
<1>12. FreedOnce' /\ NoStaleHandle'
  BY DEF HandshakeInv, FreedOnce, NoStaleHandle
<1> QED BY <1>4, <1>5, <1>7, <1>8, <1>9, <1>10, <1>11, <1>12, OneConnection DEF Good

LEMMA NegotiateKeeps ==
    ASSUME HandshakeInv, NEW c \in Conns, NEW socket \in BOOLEAN, Negotiate(c, socket)
    PROVE  HandshakeInv'
<1> DEFINE in == IF session[c].state = "challenge" THEN session[c].ctx ELSE None
<1>1. session'[c] = [session[c] EXCEPT !.age = 0]
  BY Current DEF Negotiate, Touched, Typed
<1>2. /\ session'[c] \in Sessions /\ session'[c].ctx = session[c].ctx
      /\ session'[c].state = session[c].state /\ session'[c].admin = session[c].admin
      /\ session'[c].age = 0
  BY <1>1, Current, Sizes DEF Sessions
<1>3. /\ request[c].at = "none" /\ request[c].in = None /\ request[c].out = None
      /\ conn[c] = "idle" /\ (phase = "up" \/ (phase = "closing" /\ env.busy))
  BY Current DEF Negotiate, Arrives, Good, Tidy, Flying
<1>4. request'[c] = [[NoRequest EXCEPT !.at = "accept"] EXCEPT !.in = in]
  BY Current DEF Negotiate, Typed, NoRequest
<1>5. /\ request'[c] \in Requests /\ request'[c].at = "accept"
      /\ request'[c].in = in /\ request'[c].out = None
  BY <1>4, Current DEF NoRequest, Requests
<1>6. conn'[c] = "busy" /\ stored' = stored \cup {c}
      /\ UNCHANGED <<env, store, phase, live, misused, freedTwice, client>>
  BY Current DEF Negotiate, Typed
<1>7. LocalStep(c) /\ Typed'
  <2>1. LocalStep(c)
    BY Current DEF LocalStep, Negotiate, Touched, Typed
  <2>2. request' \in [Conns -> Requests]
    <3>1. request' = [request EXCEPT ![c] = request'[c]]
      BY Current DEF Negotiate, Typed
    <3> QED BY <1>5, <3>1, Current DEF Typed
  <2>3. session' \in [Conns -> Sessions]
    <3>1. session' = [session EXCEPT ![c] = session'[c]]
      BY Current DEF Negotiate, Touched, Typed
    <3> QED BY <1>2, <3>1, Current DEF Typed
  <2>4. conn' \in [Conns -> {"idle", "busy", "gone"}] /\ stored' \in SUBSET Conns
    BY Current DEF Negotiate, Typed
  <2> QED BY <1>6, <2>1, <2>2, <2>3, <2>4, Current DEF Typed
<1>8. Own(c)' = Own(c) /\ \A k \in live : k \in Holds(c) => k \in Holds(c)'
  <2>1. 0 \notin live
    BY Current, Sizes DEF Typed
  <2> QED BY <1>2, <1>3, <1>5, <1>6, <2>1, Sizes DEF Own, Holds
<1>9. LocalContexts(c)
  BY <1>6, <1>8 DEF LocalContexts
<1>10. c \notin stored => session[c] = NoSession
  BY <1>3, Current DEF Good, Tidy, Flying
<1>11. Tidy(c)'
  BY <1>2, <1>5, <1>6, Current DEF Good, Tidy, Flying
<1>12. Alive(c)'
  <2>1. c \notin stored => Own(c) = {} /\ session[c].state = "new"
    BY <1>3, <1>10 DEF Own, NoSession
  <2> QED BY <1>2, <1>3, <1>6, <1>8, <2>1, Current DEF Good, Alive
<1>13. Kept(c)'
  BY <1>2, <1>3, <1>5, <1>6 DEF Kept, Flying
<1>14. Steady(c)'
  <2> SUFFICES ASSUME Calm PROVE Steady(c)'
    BY <1>6 DEF Steady, Calm
  <2>1. client[c] # "done"
    BY DEF Calm, Negotiate
  <2>2. session[c].state # "complete"
    BY <1>3, <1>10, <2>1, Current DEF Good, Steady, NoSession
  <2>3. session[c].ctx \in {None, in}
    BY <2>2, Current DEF Good, Tidy, Sessions
  <2> QED BY <1>2, <1>5, <2>2, <2>3 DEF Steady, Flying
<1>15. FreedOnce' /\ NoStaleHandle'
  BY <1>6 DEF HandshakeInv, FreedOnce, NoStaleHandle
<1> QED BY <1>7, <1>9, <1>11, <1>12, <1>13, <1>14, <1>15, OneConnection DEF Good

\* A session that is removed takes its context with it, which was not freed
\* before.
LEMMA RemoveKeeps ==
    ASSUME HandshakeInv, NEW c \in Conns, Remove(c),
           UNCHANGED <<env, store, phase, misused>>,
           client' = [client EXCEPT ![c] = "new"],
           NEW x \in {"idle", "gone"}, conn' = [conn EXCEPT ![c] = x],
           request' = [request EXCEPT ![c] = NoRequest],
           Calm => \/ request[c].out = None
                   \/ c \in stored /\ request[c].out = session[c].ctx
    PROVE  HandshakeInv'
<1> DEFINE gone == IF c \in stored THEN Handles({c}) ELSE {}
<1>1. /\ session'[c] = NoSession /\ stored' = stored \ {c} /\ request'[c] = NoRequest
      /\ conn'[c] = x /\ client'[c] = "new"
  BY Current DEF Remove, Typed
<1>2. gone = IF c \in stored THEN {session[c].ctx} \ {None} ELSE {}
  BY DEF Handles
<1>3. gone \subseteq live /\ gone \subseteq Own(c)
  BY <1>2, Current DEF Good, Alive, Own
<1>4. live' = live \ gone /\ freedTwice' = freedTwice
  <2>1. live' = live \ gone /\ freedTwice' = (freedTwice \/ ~(gone \subseteq live))
    BY DEF Remove, Free
  <2>2. freedTwice = FALSE
    BY Current DEF HandshakeInv, FreedOnce, Typed
  <2> QED BY <1>3, <2>1, <2>2
<1>5. /\ NoRequest.at = "none" /\ NoRequest.in = None /\ NoRequest.out = None
      /\ NoSession.ctx = None /\ NoSession.state = "new"
  BY DEF NoRequest, NoSession
<1>6. LocalStep(c)
  BY <1>1, Current DEF LocalStep, Remove, Typed
<1>7. Typed'
  BY <1>1, <1>4, Current DEF Typed, Remove
<1>8. Own(c)' = {}
  BY <1>1, <1>5 DEF Own
<1>9. ASSUME Calm, NEW k \in live' PROVE k \notin Holds(c) /\ k \in live
  <2>1. k \in live /\ k \notin gone /\ k # None
    BY <1>4, Current, Sizes DEF Typed
  <2> QED BY <1>2, <1>9, <2>1 DEF Holds
<1>10. LocalContexts(c)
  BY <1>3, <1>4, <1>8, <1>9 DEF LocalContexts
<1>11. Good(c)'
  BY <1>1, <1>5 DEF Good, Tidy, Alive, Kept, Steady, Flying
<1>12. FreedOnce' /\ NoStaleHandle'
  BY <1>4 DEF HandshakeInv, FreedOnce, NoStaleHandle
<1> QED BY <1>6, <1>7, <1>10, <1>11, <1>12, OneConnection

LEMMA TurnAwayKeeps ==
    ASSUME HandshakeInv, NEW c \in Conns, TurnAway(c)
    PROVE  HandshakeInv'
<1>1. ASSUME Calm
      PROVE  \/ request[c].out = None
             \/ c \in stored /\ request[c].out = session[c].ctx
  <2>1. request[c].at \in {"fail", "decide"}
    BY DEF TurnAway
  <2>2. c \in stored
    BY <1>1, <2>1, Current DEF Good, Kept, Flying, Calm
  <2> QED BY <1>1, <2>1, <2>2, Current DEF Good, Steady
<1>2. /\ Remove(c) /\ UNCHANGED <<env, store, phase, misused>>
      /\ client' = [client EXCEPT ![c] = "new"]
      /\ conn' = [conn EXCEPT ![c] = "idle"]
      /\ request' = [request EXCEPT ![c] = NoRequest]
  BY DEF TurnAway, Ends
<1> QED BY <1>1, <1>2, RemoveKeeps

LEMMA DisconnectKeeps ==
    ASSUME HandshakeInv, NEW c \in Conns, Disconnect(c)
    PROVE  HandshakeInv'
<1>1. request[c].out = None
  BY Current DEF Disconnect, Good, Tidy, Flying
<1>2. /\ Remove(c) /\ UNCHANGED <<env, store, phase, misused>>
      /\ client' = [client EXCEPT ![c] = "new"]
      /\ conn' = [conn EXCEPT ![c] = "gone"]
      /\ request' = [request EXCEPT ![c] = NoRequest]
  BY DEF Disconnect
<1> QED BY <1>1, <1>2, RemoveKeeps

LEMMA GarbledKeeps ==
    ASSUME HandshakeInv, NEW c \in Conns, Garbled(c)
    PROVE  HandshakeInv'
<1>1. /\ request[c].at = "none" /\ request[c].in = None /\ request[c].out = None
      /\ conn[c] = "idle"
  BY Current DEF Garbled, Arrives, Good, Tidy, Flying
<1>2. request[c] = NoRequest
  BY <1>1, Current DEF Requests, NoRequest
<1>3. /\ request' = [request EXCEPT ![c] = NoRequest] /\ conn' = [conn EXCEPT ![c] = "idle"]
  BY <1>1, <1>2, Current DEF Garbled, Typed
<1>4. /\ Remove(c) /\ UNCHANGED <<env, store, phase, misused>>
      /\ client' = [client EXCEPT ![c] = "new"]
  BY DEF Garbled
<1> QED BY <1>1, <1>3, <1>4, RemoveKeeps

\* A connection is made, or its handler returns.
LEMMA ConnectionKeeps ==
    ASSUME HandshakeInv, NEW c \in Conns, Connect(c) \/ Served(c)
    PROVE  HandshakeInv'
<1>1. /\ request'[c] = NoRequest /\ conn'[c] = "idle"
      /\ UNCHANGED <<env, store, phase, stored, session, live, misused, freedTwice, client>>
      /\ conn' = [conn EXCEPT ![c] = "idle"]
      /\ request' = [request EXCEPT ![c] = NoRequest]
  <2>1. CASE Connect(c)
    <3>1. /\ request[c].at = "none" /\ request[c].in = None /\ request[c].out = None
      BY <2>1, Current DEF Connect, Good, Tidy, Flying
    <3>2. request[c] = NoRequest
      BY <3>1, Current DEF Requests, NoRequest
    <3> QED BY <2>1, <3>2, Current DEF Connect, Typed
  <2>2. CASE Served(c)
    BY <2>2, Current DEF Served, Ends, Typed
  <2> QED BY <2>1, <2>2
<1>2. NoRequest.at = "none" /\ NoRequest.in = None /\ NoRequest.out = None
  BY DEF NoRequest
<1>3. ~Flying(c) /\ request[c].in = None /\ request[c].out = None
  BY Current DEF Connect, Served, Flying, Good, Tidy
<1>4. LocalStep(c) /\ Typed'
  BY <1>1, Current DEF LocalStep, Typed
<1>5. Own(c)' = Own(c) /\ Holds(c)' = Holds(c)
  BY <1>1, <1>2, <1>3 DEF Own, Holds
<1>6. LocalContexts(c)
  BY <1>1, <1>5 DEF LocalContexts
<1>7. Tidy(c)'
  BY <1>1, <1>2, <1>3, Current DEF Good, Tidy, Flying
<1>8. Alive(c)'
  <2>1. request[c].at # "decide"
    BY <1>3 DEF Flying
  <2> QED BY <1>1, <1>2, <1>5, <2>1, Current DEF Good, Alive
<1>9. Kept(c)'
  BY <1>1, <1>2, <1>3, Current DEF Good, Kept, Flying, SessionLetsIn
<1>10. Steady(c)'
  <2>1. request[c].at # "decide"
    BY <1>3 DEF Flying
  <2> QED BY <1>1, <1>2, <2>1, Current DEF Good, Steady, Flying, Calm
<1>11. FreedOnce' /\ NoStaleHandle'
  BY <1>1 DEF HandshakeInv, FreedOnce, NoStaleHandle
<1> QED BY <1>4, <1>6, <1>7, <1>8, <1>9, <1>10, <1>11, OneConnection DEF Good

\* In calm weather nothing fails but the first leg, or a leg whose context the
\* session keeps.
LEMMA FailKeeps ==
    ASSUME HandshakeInv, NEW c \in Conns, AcceptFreed(c) \/ CompleteFails(c)
    PROVE  HandshakeInv'
<1>1. /\ request' = [request EXCEPT ![c].at = "fail"]
      /\ UNCHANGED <<env, store, phase, conn, stored, session, live, freedTwice, client>>
      /\ request[c].at \in {"accept", "complete"}
  BY DEF AcceptFreed, CompleteFails
<1>2. /\ request'[c] \in Requests /\ request'[c].at = "fail"
      /\ request'[c].in = request[c].in /\ request'[c].out = request[c].out
  BY <1>1, Current DEF Typed, Requests
<1>3. phase = "up" /\ ~env.slow => c \in stored
  BY <1>1, Current DEF Good, Kept, Flying
<1>4. phase = "up" \/ env.busy
  BY <1>1, Current DEF Good, Kept, Flying
<1>5. c \in stored => /\ request[c].in # None => request[c].in \in live
                      /\ request[c].out # None => request[c].out \in live
  BY Current DEF Good, Alive, Own
<1>6. AcceptFreed(c) => env.slow \/ env.busy
  BY <1>3, <1>4, <1>5 DEF AcceptFreed, HandshakeInv
<1>7. CompleteFails(c) => request[c].out # None
  BY Current DEF CompleteFails, Good, Tidy
<1>8. CompleteFails(c) /\ request[c].out \notin live => env.slow \/ env.busy
  BY <1>3, <1>4, <1>5, <1>7
<1>9. ~Calm
  BY <1>6, <1>8 DEF Calm, CompleteFails
<1>10. NoStaleHandle' /\ misused' \in BOOLEAN
  <2>1. misused' => misused \/ env.slow \/ env.busy
    BY <1>6, <1>8, Current DEF AcceptFreed, CompleteFails, Typed
  <2>2. misused' \in BOOLEAN
    BY DEF AcceptFreed, CompleteFails
  <2> QED BY <1>1, <2>1, <2>2 DEF HandshakeInv, NoStaleHandle
<1>11. LocalStep(c)
  BY <1>1, Current DEF LocalStep, Typed
<1>12. Typed'
  <2>1. request' \in [Conns -> Requests]
    BY <1>1, <1>2, Current DEF Typed
  <2> QED BY <1>1, <1>10, <2>1, Current DEF Typed
<1>13. Own(c)' = Own(c) /\ Holds(c)' = Holds(c)
  BY <1>1, <1>2 DEF Own, Holds
<1>14. LocalContexts(c)
  BY <1>1, <1>13 DEF LocalContexts
<1>15. Tidy(c)'
  BY <1>1, <1>2, Current DEF Good, Tidy, Flying
<1>16. Alive(c)'
  BY <1>1, <1>2, <1>13, Current DEF Good, Alive
<1>17. Kept(c)'
  BY <1>1, <1>2, Current DEF Good, Kept, Flying
<1>18. Steady(c)'
  BY <1>1, <1>9 DEF Steady, Calm
<1>19. FreedOnce'
  BY <1>1 DEF HandshakeInv, FreedOnce
<1> QED
  BY <1>10, <1>11, <1>12, <1>14, <1>15, <1>16, <1>17, <1>18, <1>19, OneConnection DEF Good

LEMMA AcceptKeeps ==
    ASSUME HandshakeInv, NEW c \in Conns,
           NEW outcome \in {"error", "continue", "ok", "unexpected"}, Accept(c, outcome)
    PROVE  HandshakeInv'
<1> DEFINE out == IF outcome = "error" THEN None
                  ELSE IF request[c].in # None THEN request[c].in
                  ELSE CHOOSE k \in Unused : TRUE
           at == CASE outcome = "continue" -> "challenge"
                   [] outcome = "ok" -> "complete"
                   [] OTHER -> "fail"
<1>1. /\ request[c].at = "accept" /\ store = "open"
      /\ live' = live \cup ({out} \ {None})
      /\ request' = [request EXCEPT ![c].out = out, ![c].at = at]
      /\ UNCHANGED <<env, store, phase, conn, stored, session, misused, freedTwice, client>>
      /\ request[c].in # None => request[c].in \in live
      /\ outcome = "unexpected" => env.odd
  BY DEF Accept
<1>2. \/ outcome = "error" /\ out = None
      \/ outcome # "error" /\ request[c].in # None /\ out = request[c].in
      \/ outcome # "error" /\ request[c].in = None /\ out \in Unused
  BY DEF Accept
<1>3. /\ out \in Contexts \cup {None} /\ at \in {"challenge", "complete", "fail"}
      /\ at # "fail" => outcome # "error"
      /\ at = "fail" => outcome = "error" \/ env.odd
  BY <1>1, <1>2, Current DEF Unused
<1>4. outcome # "error" => out # None
  BY <1>2, Sizes DEF Unused
<1> HIDE DEF out, at
<1>5. /\ request'[c] \in Requests /\ request'[c].at = at
      /\ request'[c].in = request[c].in /\ request'[c].out = out
  <2>1. request'[c] = [[request[c] EXCEPT !.out = out] EXCEPT !.at = at]
    BY <1>1, Current DEF Typed
  <2>2. request'[c] = [at |-> at, in |-> request[c].in, out |-> out]
    BY <2>1, Current DEF Requests
  <2> QED BY <1>3, <2>2, Current DEF Requests
<1>6. LocalStep(c)
  BY <1>1, Current DEF LocalStep, Typed
<1>7. Typed'
  <2>1. request' \in [Conns -> Requests]
    <3>1. request' = [request EXCEPT ![c] = request'[c]]
      BY <1>1, Current DEF Typed
    <3> QED BY <1>5, <3>1, Current DEF Typed
  <2>2. live' \in SUBSET Contexts
    <3>1. live \subseteq Contexts
      BY Current DEF Typed
    <3> QED BY <1>1, <1>3, <3>1
  <2> QED BY <1>1, <2>1, <2>2, Current DEF Typed
<1>8. LocalContexts(c)
  <2>1. \A k \in Own(c)' : k \in Own(c) \/ k \in Unused
    BY <1>1, <1>2, <1>5 DEF Own
  <2>2. ASSUME Calm, NEW k \in live', k \notin live \/ k \in Holds(c)
        PROVE  k \in Holds(c)'
    <3>1. CASE k = out
      BY <1>5, <3>1 DEF Holds
    <3>2. CASE k # out
      <4>1. k \in live /\ k \in Holds(c) /\ k # None
        BY <1>1, <2>2, <3>2, <1>7, Sizes DEF Typed
      <4>2. request[c].out = None
        BY <1>1, Current DEF Good, Tidy
      <4> QED BY <1>1, <4>1, <4>2 DEF Holds
    <3> QED BY <3>1, <3>2
  <2> QED BY <1>1, <2>1, <2>2 DEF LocalContexts
<1>9. Tidy(c)'
  BY <1>1, <1>3, <1>4, <1>5, Current DEF Good, Tidy, Flying
<1>10. Alive(c)'
  <2>1. c \in stored => Own(c)' \subseteq live'
    BY <1>1, <1>5, Current DEF Good, Alive, Own
  <2> QED BY <1>1, <1>5, <2>1, Current DEF Good, Alive
<1>11. Kept(c)'
  BY <1>1, <1>3, <1>5, Current DEF Good, Kept, Flying
<1>12. Steady(c)'
  BY <1>1, <1>2, <1>3, <1>5, Current DEF Good, Steady, Flying, Calm
<1>13. FreedOnce' /\ NoStaleHandle'
  BY <1>1 DEF HandshakeInv, FreedOnce, NoStaleHandle
<1> QED
  BY <1>6, <1>7, <1>8, <1>9, <1>10, <1>11, <1>12, <1>13, OneConnection DEF Good

LEMMA ChallengeKeeps ==
    ASSUME HandshakeInv, NEW c \in Conns, Challenge(c)
    PROVE  HandshakeInv'
<1> DEFINE next == IF c \in stored
                   THEN [[session[c] EXCEPT !.state = "challenge"] EXCEPT !.ctx = request[c].out]
                   ELSE NoSession
<1>1. /\ session' = [session EXCEPT ![c] = next]
      /\ client' = [client EXCEPT ![c] = "challenged"]
      /\ conn' = [conn EXCEPT ![c] = "idle"]
      /\ request' = [request EXCEPT ![c] = NoRequest]
      /\ UNCHANGED <<env, store, phase, stored, live, misused, freedTwice>>
      /\ request[c].at = "challenge"
  BY DEF Challenge, Ends
<1>2. next \in Sessions
  BY Current DEF Sessions
<1>3. /\ c \in stored => /\ next.state = "challenge" /\ next.ctx = request[c].out
                         /\ next.age = session[c].age
      /\ c \notin stored => next = NoSession
  BY Current DEF Sessions
<1> HIDE DEF next
<1>4. /\ session'[c] = next /\ client'[c] = "challenged" /\ conn'[c] = "idle"
      /\ request'[c] = NoRequest
  BY <1>1, Current DEF Typed
<1>5. /\ NoRequest.at = "none" /\ NoRequest.in = None /\ NoRequest.out = None
      /\ NoSession.ctx = None /\ NoSession.state = "new"
  BY DEF NoRequest, NoSession
<1>6. LocalStep(c) /\ Typed'
  BY <1>1, <1>2, Current DEF LocalStep, Typed
<1>7. request[c].out # None
  BY <1>1, Current DEF Good, Tidy
<1>8. Flying(c)
  BY <1>1 DEF Flying
<1>9. Own(c)' \subseteq Own(c)
  BY <1>3, <1>4, <1>5 DEF Own
<1>10. ASSUME Calm, NEW k \in live, k \in Holds(c) PROVE k \in Holds(c)'
  <2>1. c \in stored
    BY <1>8, <1>10, Current DEF Good, Kept, Calm
  <2>2. k # None
    BY Current, Sizes DEF Typed
  <2>3. session[c].ctx \in {None, request[c].out}
    BY <1>1, <1>7, <1>8, <1>10, Current DEF Good, Steady
  <2>4. k = request[c].out
    BY <1>10, <2>1, <2>2, <2>3 DEF Holds
  <2> QED BY <1>1, <1>3, <1>4, <2>1, <2>4 DEF Holds
<1>11. LocalContexts(c)
  BY <1>1, <1>9, <1>10 DEF LocalContexts
<1>12. Tidy(c)'
  BY <1>1, <1>3, <1>4, <1>5, <1>7 DEF Tidy, Flying
<1>13. Alive(c)'
  <2>1. c \in stored => Own(c)' \subseteq live
    BY <1>9, Current DEF Good, Alive
  <2> QED BY <1>1, <1>3, <1>4, <2>1 DEF Alive
<1>14. Kept(c)'
  <2>1. phase = "up" /\ ~env.slow => c \in stored /\ session[c].age = 0
    BY <1>8, Current DEF Good, Kept
  <2> QED BY <1>1, <1>3, <1>4, <1>5, <2>1, Sizes DEF Kept, Flying
<1>15. Steady(c)'
  BY <1>1, <1>3, <1>4, <1>5 DEF Steady, Flying
<1>16. FreedOnce' /\ NoStaleHandle'
  BY <1>1 DEF HandshakeInv, FreedOnce, NoStaleHandle
<1> QED BY <1>6, <1>11, <1>12, <1>13, <1>14, <1>15, <1>16, OneConnection DEF Good

LEMMA CompleteKeeps ==
    ASSUME HandshakeInv, NEW c \in Conns, NEW admin \in BOOLEAN, Complete(c, admin)
    PROVE  HandshakeInv'
<1> DEFINE next == [state |-> "complete", age |-> 0, ctx |-> request[c].out, admin |-> admin]
<1>1. /\ session' = [session EXCEPT ![c] = next]
      /\ request' = [request EXCEPT ![c].at = "decide"]
      /\ UNCHANGED <<env, store, phase, conn, stored, live, misused, freedTwice, client>>
      /\ request[c].at = "complete" /\ request[c].out \in live
  BY DEF Complete
<1>2. /\ next \in Sessions /\ next.state = "complete" /\ next.age = 0
      /\ next.ctx = request[c].out
  BY Current, Sizes DEF Sessions
<1> HIDE DEF next
<1>3. /\ session'[c] = next /\ request'[c] \in Requests /\ request'[c].at = "decide"
      /\ request'[c].in = request[c].in /\ request'[c].out = request[c].out
  BY <1>1, Current DEF Typed, Requests
<1>4. LocalStep(c)
  BY <1>1, Current DEF LocalStep, Typed
<1>5. Typed'
  <2>1. request' \in [Conns -> Requests] /\ session' \in [Conns -> Sessions]
    BY <1>1, <1>2, <1>3, Current DEF Typed
  <2> QED BY <1>1, <2>1, Current DEF Typed
<1>6. request[c].out # None /\ Flying(c)
  BY <1>1, Current DEF Good, Tidy, Flying
<1>7. Own(c)' \subseteq Own(c)
  BY <1>2, <1>3 DEF Own
<1>8. ASSUME Calm, NEW k \in live, k \in Holds(c) PROVE k \in Holds(c)'
  <2>1. k # None
    BY Current, Sizes DEF Typed
  <2>2. session[c].ctx \in {None, request[c].out}
    BY <1>1, <1>6, <1>8, Current DEF Good, Steady
  <2>3. k = request[c].out
    BY <1>8, <2>1, <2>2 DEF Holds
  <2> QED BY <1>3, <2>3 DEF Holds
<1>9. LocalContexts(c)
  BY <1>1, <1>7, <1>8 DEF LocalContexts
<1>10. Tidy(c)'
  BY <1>1, <1>2, <1>3, <1>6, Current DEF Good, Tidy, Flying
<1>11. Alive(c)'
  BY <1>1, <1>3, <1>7, Current DEF Good, Alive
<1>12. Kept(c)'
  BY <1>1, <1>2, <1>3, <1>6, Current DEF Good, Kept, Flying
<1>13. Steady(c)'
  BY <1>1, <1>2, <1>3 DEF Steady, Flying
<1>14. FreedOnce' /\ NoStaleHandle'
  BY <1>1 DEF HandshakeInv, FreedOnce, NoStaleHandle
<1> QED BY <1>4, <1>5, <1>9, <1>10, <1>11, <1>12, <1>13, <1>14, OneConnection DEF Good

LEMMA LetInKeeps ==
    ASSUME HandshakeInv, NEW c \in Conns, LetIn(c)
    PROVE  HandshakeInv'
<1> DEFINE next == IF c \in stored THEN session[c] ELSE NoSession
           serve == [NoRequest EXCEPT !.at = "serve"]
<1>1. /\ conn' = [conn EXCEPT ![c] = "busy"]
      /\ request' = [request EXCEPT ![c] = serve]
      /\ client' = [client EXCEPT ![c] = "done"]
      /\ UNCHANGED <<env, store, phase, stored, live, misused, freedTwice>>
      /\ request[c].at = "decide" /\ session[c].admin
  BY DEF LetIn, Serving
<1>2. session' = [session EXCEPT ![c] = next]
  BY Current DEF LetIn, Typed
<1>3. /\ serve \in Requests /\ serve.at = "serve" /\ serve.in = None /\ serve.out = None
      /\ NoSession.ctx = None /\ NoSession.state = "new" /\ next \in Sessions
  BY Current DEF Requests, NoRequest, NoSession
<1> HIDE DEF serve
<1>4. /\ session'[c] = next /\ client'[c] = "done" /\ conn'[c] = "busy"
      /\ request'[c] = serve
  BY <1>1, <1>2, Current DEF Typed
<1>5. LocalStep(c) /\ Typed'
  BY <1>1, <1>2, <1>3, Current DEF LocalStep, Typed
<1>6. Flying(c)
  BY <1>1 DEF Flying
<1>7. Own(c)' \subseteq Own(c)
  BY <1>3, <1>4 DEF Own
<1>8. ASSUME Calm, NEW k \in live, k \in Holds(c) PROVE k \in Holds(c)'
  <2>1. c \in stored /\ request[c].out = session[c].ctx
    BY <1>1, <1>6, <1>8, Current DEF Good, Kept, Steady, Calm
  <2> QED BY <1>1, <1>4, <1>8, <2>1 DEF Holds
<1>9. LocalContexts(c)
  BY <1>1, <1>7, <1>8 DEF LocalContexts
<1>10. Tidy(c)'
  BY <1>1, <1>3, <1>4, Current DEF Good, Tidy, Flying
<1>11. Alive(c)'
  BY <1>1, <1>4, <1>7, Current DEF Good, Alive
<1>12. session[c].state = "complete"
  BY <1>1, Current DEF Good, Tidy
<1>13. Kept(c)'
  BY <1>1, <1>3, <1>4, <1>6, <1>12, Current DEF Good, Kept, Flying, SessionLetsIn
<1>14. Steady(c)'
  BY <1>1, <1>3, <1>4 DEF Steady, Flying
<1>15. FreedOnce' /\ NoStaleHandle'
  BY <1>1 DEF HandshakeInv, FreedOnce, NoStaleHandle
<1> QED BY <1>5, <1>9, <1>10, <1>11, <1>13, <1>14, <1>15, OneConnection DEF Good

\* Sessions that are dropped from the store take their contexts with them; a
\* request that holds one goes on with it.
LEMMA DropKeeps ==
    ASSUME HandshakeInv, NEW cs \in SUBSET stored,
           Free(Handles(cs)), stored' = stored \ cs, session' = Dropped(cs),
           UNCHANGED <<env, conn, request, misused, client>>,
           store' \in {"none", "open", "closed"}, phase' \in {"up", "closing", "stopped"},
           store' = "closed" => phase' # "up",
           \A c \in Conns : Kept(c)'
    PROVE  HandshakeInv'
<1>0. cs \subseteq Conns /\ Typed
  BY DEF HandshakeInv, Typed
<1>1. \A c \in cs : Own(c) \subseteq live
  BY <1>0, Current DEF Good, Alive
<1>2. Handles(cs) \subseteq live
  BY <1>1 DEF Handles, Own
<1>3. live' = live \ Handles(cs) /\ freedTwice' = FALSE
  <2>1. /\ live' = live \ Handles(cs)
        /\ freedTwice' = (freedTwice \/ ~(Handles(cs) \subseteq live))
    BY DEF Free
  <2>2. freedTwice = FALSE
    BY <1>0 DEF HandshakeInv, FreedOnce, Typed
  <2> QED BY <1>2, <2>1, <2>2
<1>4. ASSUME NEW c \in Conns
      PROVE  /\ session'[c] = IF c \in cs /\ ~Flying(c) THEN NoSession ELSE session[c]
             /\ session'[c] \in Sessions
             /\ c \in stored' <=> c \in stored /\ c \notin cs
  BY Current DEF Dropped, Flying, Requests
<1>5. Typed'
  <2>1. session' \in [Conns -> Sessions]
    BY <1>4 DEF Dropped
  <2> QED BY <1>0, <1>3, <2>1 DEF Typed
<1>6. NoSession.ctx = None /\ NoSession.state = "new"
  BY DEF NoSession
<1>7. ASSUME NEW c \in Conns PROVE Own(c)' \subseteq Own(c)
  BY <1>4, <1>6 DEF Own
<1>8. ASSUME NEW c \in Conns PROVE Tidy(c)'
  BY <1>4, <1>6, Current DEF Good, Tidy, Flying
<1>9. ASSUME NEW c \in Conns PROVE Alive(c)'
  <2> SUFFICES ASSUME c \in stored, c \notin cs PROVE Alive(c)'
    BY <1>4 DEF Alive
  <2>1. Own(c) \cap Handles(cs) = {}
    <3> SUFFICES ASSUME NEW d \in cs PROVE session[d].ctx = None \/ session[d].ctx \notin Own(c)
      BY DEF Handles
    <3>1. Own(c) \cap Own(d) = {}
      BY <1>0 DEF HandshakeInv, Apart
    <3> QED BY <3>1 DEF Own
  <2>2. Own(c)' \subseteq live'
    BY <1>3, <1>7, <2>1, Current DEF Good, Alive
  <2> QED BY <1>4, <2>2, Current DEF Good, Alive
<1>10. ASSUME NEW c \in Conns PROVE Steady(c)'
  BY <1>4, <1>6, Current DEF Good, Steady, Flying, Calm
<1>11. Apart'
  BY <1>7 DEF HandshakeInv, Apart
<1>12. ContextsOwned'
  <2> SUFFICES ASSUME Calm, NEW k \in live'
               PROVE  \E d \in Conns : k \in Holds(d)'
    BY DEF ContextsOwned, Holds, Calm
  <2>1. k \in live /\ k \notin Handles(cs) /\ k # None
    BY <1>0, <1>3, Sizes DEF Typed
  <2>2. PICK d \in Conns : k \in Holds(d)
    BY <1>0, <2>1, OwnedIsHeld DEF HandshakeInv, Typed
  <2>3. d \in cs => k # session[d].ctx
    BY <2>1 DEF Handles
  <2> QED BY <1>4, <2>2, <2>3 DEF Holds
<1>13. FreedOnce' /\ NoStaleHandle'
  BY <1>3 DEF HandshakeInv, FreedOnce, NoStaleHandle
<1> QED BY <1>5, <1>8, <1>9, <1>10, <1>11, <1>12, <1>13 DEF HandshakeInv

\* The clean-up takes no session of a handshake in progress, or of a client
\* that may still answer.
LEMMA EvictStaleKeeps ==
    ASSUME HandshakeInv, EvictStale
    PROVE  HandshakeInv'
<1>1. /\ Free(Handles(Stale)) /\ stored' = stored \ Stale /\ session' = Dropped(Stale)
      /\ UNCHANGED <<env, store, phase, conn, request, misused, client>>
  BY DEF EvictStale
<1>2. Stale \in SUBSET stored
  BY DEF Stale
<1>3. ASSUME NEW c \in Conns PROVE Kept(c)'
  <2>1. Kept(c) /\ session[c].age \in 0..Stalest
    BY Current DEF Good, Sessions
  <2>2. CASE c \notin Stale
    <3>1. session'[c] = session[c] /\ (c \in stored' <=> c \in stored)
      BY <1>1, <2>2 DEF Dropped
    <3> QED BY <1>1, <2>1, <3>1 DEF Kept, Flying, SessionLetsIn
  <2>3. CASE c \in Stale
    <3>1. session[c].state # "complete" /\ session[c].age > 2
      BY <2>3, Sizes DEF Stale
    <3>2. ~(phase = "up" /\ ~env.slow) \/ (~Flying(c) /\ client[c] \notin {"challenged", "done"})
      BY <2>1, <3>1, Sizes DEF Kept, SessionLetsIn
    <3> QED BY <1>1, <2>1, <3>2 DEF Kept, Flying
  <2> QED BY <2>2, <2>3
<1>4. store = "closed" => phase # "up"
  BY DEF HandshakeInv
<1>5. Typed
  BY DEF HandshakeInv
<1> QED BY <1>1, <1>2, <1>3, <1>4, <1>5, DropKeeps DEF Typed

LEMMA StopKeeps ==
    ASSUME HandshakeInv, Stop
    PROVE  HandshakeInv'
<1>1. /\ Free(Handles(stored)) /\ stored' = stored \ stored /\ session' = Dropped(stored)
      /\ UNCHANGED <<env, conn, request, misused, client>>
      /\ phase' = "closing" /\ store' \in {store, "closed"}
  BY DEF Stop
<1>2. ASSUME NEW c \in Conns PROVE Kept(c)'
  <2>1. Flying(c) => env.busy
    BY Current DEF Stop, Good, Tidy, Flying
  <2> QED BY <1>1, <2>1 DEF Kept, Flying
<1>3. Typed
  BY DEF HandshakeInv
<1> QED BY <1>1, <1>2, <1>3, DropKeeps DEF Typed

\* While time passes no handshake is in progress, unless SSPI is slow; and a
\* client that waited too long gives up before its session does.
LEMMA TickKeeps ==
    ASSUME HandshakeInv, Tick
    PROVE  HandshakeInv'
<1>0. /\ UNCHANGED <<env, store, phase, conn, request, stored, live, misused, freedTwice>>
      /\ Typed
  BY DEF Tick, HandshakeInv
<1>1. ASSUME NEW c \in Conns
      PROVE  /\ session'[c] \in Sessions /\ session'[c].ctx = session[c].ctx
             /\ session'[c].state = session[c].state
             /\ session'[c].admin = session[c].admin
             /\ c \notin stored => session'[c] = session[c]
             /\ session[c].age < 2 => session'[c].age <= 2
             /\ client'[c] \in {"new", "challenged", "done"}
             /\ client'[c] # "new" => client'[c] = client[c]
             /\ client'[c] = "challenged" => session[c].age < 2
             /\ client[c] = "done" => client'[c] = "done"
  <2>1. session[c].age \in 0..3 /\ Aged(session[c].age, Stalest) \in 0..3
        /\ (session[c].age < 2 => Aged(session[c].age, Stalest) <= 2)
    BY Current, Sizes DEF Sessions, Aged
  <2>2. session'[c] = IF c \in stored THEN [session[c] EXCEPT !.age = Aged(session[c].age, Stalest)]
                                      ELSE session[c]
    BY DEF Tick
  <2>3. client'[c] = IF client[c] = "challenged" /\ session[c].age >= StaleAfter
                     THEN "new" ELSE client[c]
    BY DEF Tick
  <2>4. /\ session'[c] \in Sessions /\ session'[c].ctx = session[c].ctx
        /\ session'[c].state = session[c].state
        /\ session'[c].admin = session[c].admin
        /\ c \notin stored => session'[c] = session[c]
        /\ session[c].age < 2 => session'[c].age <= 2
    BY <2>1, <2>2, Current, Sizes DEF Sessions
  <2> QED BY <2>1, <2>3, <2>4, Current, Sizes
<1>2. Typed'
  <2>1. session' \in [Conns -> Sessions] /\ client' \in [Conns -> {"new", "challenged", "done"}]
    BY <1>1 DEF Tick
  <2> QED BY <1>0, <2>1 DEF Typed
<1>3. ASSUME NEW c \in Conns PROVE Own(c)' = Own(c) /\ Holds(c)' = Holds(c)
  BY <1>0, <1>1 DEF Own, Holds
<1>4. ASSUME NEW c \in Conns PROVE Tidy(c)' /\ Alive(c)' /\ Steady(c)'
  <2>1. Tidy(c)'
    BY <1>0, <1>1, Current DEF Good, Tidy, Flying
  <2>2. Alive(c)'
    BY <1>0, <1>1, <1>3, Current DEF Good, Alive
  <2>3. Steady(c)'
    BY <1>0, <1>1, Current DEF Good, Steady, Flying, Calm
  <2> QED BY <2>1, <2>2, <2>3
<1>5. ASSUME NEW c \in Conns PROVE Kept(c)'
  <2>1. env.slow \/ ~Flying(c)
    BY DEF Tick, Flying
  <2> QED BY <1>0, <1>1, <2>1, Current, Sizes DEF Good, Kept, Flying, SessionLetsIn
<1>6. Apart'
  BY <1>3 DEF HandshakeInv, Apart
<1>7. ContextsOwned'
  <2> SUFFICES ASSUME Calm, NEW k \in live'
               PROVE  \E d \in Conns : k \in Holds(d)'
    BY <1>0 DEF ContextsOwned, Holds, Calm
  <2>1. PICK d \in Conns : k \in Holds(d)
    BY <1>0, OwnedIsHeld DEF HandshakeInv, Typed
  <2> QED BY <1>3, <2>1
<1>8. FreedOnce' /\ NoStaleHandle' /\ (store' = "closed" => phase' # "up")
  BY <1>0 DEF HandshakeInv, FreedOnce, NoStaleHandle
<1> QED BY <1>2, <1>4, <1>5, <1>6, <1>7, <1>8 DEF HandshakeInv

LEMMA HandshakeNext == HandshakeInv /\ [Next]_vars => HandshakeInv'
<1> SUFFICES ASSUME HandshakeInv, [Next]_vars PROVE HandshakeInv'
  OBVIOUS
<1>1. ASSUME UNCHANGED <<env, store, phase, conn, request, stored, session, live,
                         misused, freedTwice, client>>
      PROVE  HandshakeInv'
  <2>1. \A c \in Conns : Tidy(c)' /\ Alive(c)' /\ Kept(c)' /\ Steady(c)'
    BY <1>1 DEF HandshakeInv, Tidy, Alive, Kept, Steady, Own, Flying, SessionLetsIn, Calm
  <2>2. Typed' /\ Apart' /\ (store' = "closed" => phase' # "up")
    BY <1>1 DEF HandshakeInv, Typed, Apart, Own
  <2>3. FreedOnce' /\ NoStaleHandle' /\ ContextsOwned'
    BY <1>1 DEF HandshakeInv, FreedOnce, NoStaleHandle, ContextsOwned, Calm
  <2> QED BY <2>1, <2>2, <2>3 DEF HandshakeInv
<1>2. CASE UNCHANGED vars
  BY <1>1, <1>2 DEF vars
<1>3. CASE Forget
  BY <1>1, <1>3 DEF Forget
<1>4. ASSUME NEW c \in Conns, Request(c) PROVE HandshakeInv'
  <2>1. ASSUME NEW by \in {"open", "token", "basic"}, NEW socket \in BOOLEAN,
               ServeOther(c, by, socket)
        PROVE  HandshakeInv'
    BY <2>1, LookupKeeps DEF ServeOther, Arrives
  <2>2. CASE ServeSession(c)
    BY <2>2, LookupKeeps DEF ServeSession, Arrives, SessionLetsIn
  <2>3. ASSUME NEW looksUp \in BOOLEAN, Refuse(c, looksUp) PROVE HandshakeInv'
    BY <2>3, LookupKeeps DEF Refuse, Arrives
  <2> QED BY <1>4, <2>1, <2>2, <2>3, NegotiateKeeps, GarbledKeeps DEF Request
<1>5. ASSUME NEW c \in Conns, Handler(c) PROVE HandshakeInv'
  BY <1>5, FailKeeps, AcceptKeeps, ChallengeKeeps, CompleteKeeps, LetInKeeps,
     TurnAwayKeeps, ConnectionKeeps DEF Handler
<1>6. CASE Stopped
  <2>1. /\ UNCHANGED <<env, store, conn, request, stored, session, live, misused,
                       freedTwice, client>>
        /\ phase' = "stopped" /\ \A c \in Conns : conn[c] = "gone"
    BY <1>6 DEF Stopped
  <2>2. ASSUME NEW c \in Conns PROVE Tidy(c)' /\ Alive(c)' /\ Kept(c)' /\ Steady(c)'
    <3>1. ~Flying(c)
      BY <2>1, Current DEF Good, Tidy, Flying
    <3> QED BY <2>1, <3>1, Current
            DEF Good, Tidy, Alive, Kept, Steady, Own, Flying, Calm
  <2>3. Typed' /\ Apart' /\ phase' # "up"
    BY <2>1 DEF HandshakeInv, Typed, Apart, Own
  <2>4. FreedOnce' /\ NoStaleHandle' /\ ContextsOwned'
    BY <2>1 DEF HandshakeInv, FreedOnce, NoStaleHandle, ContextsOwned, Calm
  <2> QED BY <2>2, <2>3, <2>4 DEF HandshakeInv
<1> QED
  BY <1>2, <1>3, <1>4, <1>5, <1>6, ConnectionKeeps, DisconnectKeeps, EvictStaleKeeps,
     TickKeeps, StopKeeps DEF Next

-----------------------------------------------------------------------------
(* What follows.                                                           *)

LEMMA ServerInvariant == Spec => [](LimiterInv /\ HandshakeInv)
BY LimiterInit, LimiterNext, HandshakeInit, HandshakeNext, PTL DEF Spec

\* Every variable of the server keeps its type: a bucket is not overdrawn.
THEOREM TypeCorrect == Spec => []TypeOK
<1>1. LimiterInv /\ HandshakeInv => TypeOK
  BY DEF LimiterInv, Bucket, Admitted, HandshakeInv, Typed, Requests, Sessions, TypeOK
<1> QED BY <1>1, ServerInvariant, PTL

\* In calm weather every security context belongs to a session in the store or
\* to a request at work on it, for any number of connections.
THEOREM ContextsAreOwned == Spec => []ContextsOwned
<1>1. LimiterInv /\ HandshakeInv => ContextsOwned
  BY DEF HandshakeInv
<1> QED BY <1>1, ServerInvariant, PTL

\* No two of evictStale, Remove, the ConnState hook and Close delete the same
\* security context.
THEOREM ContextsFreedOnce == Spec => []FreedOnce
<1>1. LimiterInv /\ HandshakeInv => FreedOnce
  BY DEF HandshakeInv
<1> QED BY <1>1, ServerInvariant, PTL

\* SSPI is called with a handle that was freed only if a call was slow or a
\* request was in flight when the server stopped.
THEOREM HandlesAreFresh == Spec => []NoStaleHandle
<1>1. LimiterInv /\ HandshakeInv => NoStaleHandle
  BY DEF HandshakeInv
<1> QED BY <1>1, ServerInvariant, PTL

\* A session in the store that lets requests in is an administrator's, with a
\* context that lives.
THEOREM SessionsAdmin == Spec => []SessionsAreAdmins
<1>1. LimiterInv /\ HandshakeInv => SessionsAreAdmins
  <2> SUFFICES ASSUME HandshakeInv, NEW c \in stored, session[c].state = "complete"
               PROVE  /\ session[c].ctx \in live
                      /\ request[c].at # "decide" => session[c].admin
    BY DEF SessionsAreAdmins
  <2>1. c \in Conns
    BY DEF HandshakeInv, Typed
  <2>2. session[c].ctx # None
    BY <2>1, Current DEF Good, Tidy
  <2> QED BY <2>1, <2>2, Current DEF Good, Alive, Own
<1> QED BY <1>1, ServerInvariant, PTL

\* A client that answers in time finds its session, and one that was let in
\* keeps it.
THEOREM ClientsAreKept == Spec => []ClientsKept
<1>1. LimiterInv /\ HandshakeInv => ClientsKept
  <2> SUFFICES ASSUME HandshakeInv, NEW c \in Conns,
                      phase = "up", ~env.slow, conn[c] = "idle"
               PROVE  /\ client[c] = "challenged" =>
                            /\ c \in stored /\ session[c].state = "challenge"
                            /\ session[c].ctx \in live
                      /\ client[c] = "done" => SessionLetsIn(c)
    BY DEF ClientsKept
  <2>1. ~Flying(c)
    BY Current DEF Good, Tidy, Flying
  <2>2. session[c].state = "challenge" => session[c].ctx # None
    BY Current DEF Good, Tidy
  <2> QED BY <2>1, <2>2, Current DEF Good, Kept, Alive, Own
<1> QED BY <1>1, ServerInvariant, PTL
-----------------------------------------------------------------------------
(* Who ends a session, and what is left when the server has stopped.       *)

\* A security context is one connection's: no other session has it and no other
\* request works with it.
ContextsApart ==
    \A c, d \in Conns :
        c # d => {session[c].ctx, request[c].in, request[c].out}
                     \cap {session[d].ctx, request[d].in, request[d].out} \subseteq {None}

\* A session in the store is in reach of the clean-up, or of a request that met
\* the closed store and is about to fail and to remove it.
SessionsInReach ==
    stored # {} => \/ store = "open"
                   \/ /\ store = "closed" /\ env.busy
                      /\ \A c \in stored : request[c].at \in {"accept", "fail"}

\* Server.Stop leaves no session and no context behind, except under requests
\* that are in flight and after the leaks that ContextsOwned names.
StopFreesAll == (Calm /\ phase # "up") => stored = {} /\ live = {}

Closing == (phase # "up" /\ ~env.busy) => stored = {}
Reach == SessionsInReach /\ Closing

LEMMA ReachInit == Init => Reach
BY DEF Init, Reach, SessionsInReach, Closing

\* A step that keeps the sessions in the store, but for those of one connection
\* and without touching the requests of the others.
LEMMA ReachKeeps ==
    ASSUME Reach, UNCHANGED <<env, store>>, phase' = phase, stored' \subseteq stored,
           \A c \in stored' : request'[c].at = request[c].at
                              \/ request'[c].at \in {"accept", "fail"}
    PROVE  Reach'
<1>1. Closing'
  BY DEF Reach, Closing
<1>2. SessionsInReach'
  BY DEF Reach, SessionsInReach
<1> QED BY <1>1, <1>2 DEF Reach

\* No request of a connection whose session is in a closed store gets further.
LEMMA ReachServes ==
    ASSUME Reach, Typed, NEW c \in Conns, request[c].at \notin {"accept", "fail"},
           UNCHANGED <<env, store>>, phase' = phase, stored' \subseteq stored,
           \A d \in Conns \ {c} : request'[d] = request[d]
    PROVE  Reach'
<1>1. Closing'
  BY DEF Reach, Closing
<1>2. SessionsInReach'
  <2>1. CASE store = "open"
    BY <2>1 DEF SessionsInReach
  <2>2. CASE store # "open"
    <3>1. c \notin stored
      BY <2>2 DEF Reach, SessionsInReach
    <3>2. \A d \in stored' : d \in Conns \ {c} /\ request'[d] = request[d]
      BY <3>1 DEF Typed
    <3> QED BY <2>2, <3>2 DEF Reach, SessionsInReach
  <2> QED BY <2>1, <2>2
<1> QED BY <1>1, <1>2 DEF Reach

LEMMA RequestReach ==
    ASSUME Reach, HandshakeInv, NEW c \in Conns, Request(c)
    PROVE  Reach'
<1>0. Typed /\ conn[c] = "idle" /\ ~Flying(c) /\ c \in DOMAIN request
  <2>1. conn[c] = "idle"
    BY DEF Request, ServeOther, ServeSession, Refuse, Garbled, Negotiate, Arrives
  <2> QED BY <2>1, Current DEF HandshakeInv, Typed, Good, Tidy, Flying
<1>1. request[c].at \notin {"accept", "fail"}
  BY <1>0 DEF Flying
<1>2. ASSUME NEW socket \in BOOLEAN, Negotiate(c, socket) PROVE Reach'
  <2>1. /\ stored' = stored \cup {c} /\ UNCHANGED <<env, store, phase>>
        /\ request'[c].at = "accept" /\ store # "none"
        /\ \A d \in Conns \ {c} : request'[d] = request[d]
        /\ phase = "up" \/ env.busy
    <3>1. request' = [request EXCEPT ![c] = [NoRequest EXCEPT !.at = "accept",
                         !.in = IF session[c].state = "challenge" THEN session[c].ctx ELSE None]]
      BY <1>2 DEF Negotiate
    <3>2. request'[c].at = "accept" /\ \A d \in Conns \ {c} : request'[d] = request[d]
      BY <1>0, <3>1 DEF Typed, NoRequest
    <3> QED BY <1>2, <3>2 DEF Negotiate, Negotiates, Arrives
  <2>2. Closing'
    BY <2>1 DEF Closing
  <2>3. store = "open" \/ (store = "closed" /\ env.busy)
    BY <1>0, <2>1 DEF Typed, HandshakeInv
  <2>4. \A d \in stored' : d = c \/ (d \in stored /\ d \in Conns \ {c})
    BY <1>0, <2>1 DEF Typed
  <2>5. SessionsInReach'
    BY <2>1, <2>3, <2>4 DEF Reach, SessionsInReach
  <2> QED BY <2>2, <2>5 DEF Reach
<1>3. CASE ~ \E socket \in BOOLEAN : Negotiate(c, socket)
  <2>1. /\ UNCHANGED <<env, store>> /\ phase' = phase /\ stored' \subseteq stored
        /\ \A d \in Conns \ {c} : request'[d] = request[d]
    <3>1. request \in [Conns -> Requests]
      BY <1>0 DEF Typed
    <3> QED
      BY <1>3, <3>1 DEF Request, ServeOther, ServeSession, Refuse, Garbled, Serving, Remove
  <2> QED BY <1>0, <1>1, <2>1, ReachServes
<1> QED BY <1>2, <1>3

LEMMA HandlerReach ==
    ASSUME Reach, HandshakeInv, NEW c \in Conns, Handler(c)
    PROVE  Reach'
<1>0. Typed /\ c \in DOMAIN request /\ request \in [Conns -> Requests]
  BY DEF HandshakeInv, Typed
<1>1. ASSUME NEW outcome \in {"error", "continue", "ok", "unexpected"}, Accept(c, outcome)
      PROVE  Reach'
  BY <1>1 DEF Accept, Reach, SessionsInReach, Closing
<1>2. CASE AcceptFreed(c) \/ CompleteFails(c)
  <2>1. /\ UNCHANGED <<env, store, stored>> /\ phase' = phase
        /\ \A d \in Conns : request'[d].at \in {request[d].at, "fail"}
    BY <1>0, <1>2 DEF AcceptFreed, CompleteFails, Requests
  <2>2. stored \subseteq Conns
    BY <1>0 DEF Typed
  <2> QED BY <2>1, <2>2, ReachKeeps
<1>3. CASE TurnAway(c)
  <2>1. /\ UNCHANGED <<env, store>> /\ phase' = phase /\ stored' = stored \ {c}
        /\ \A d \in Conns \ {c} : request'[d] = request[d]
    BY <1>0, <1>3 DEF TurnAway, Remove, Ends
  <2>2. stored \subseteq Conns
    BY <1>0 DEF Typed
  <2> QED BY <2>1, <2>2, ReachKeeps
<1>4. CASE Challenge(c) \/ LetIn(c) \/ Served(c) \/ \E admin \in BOOLEAN : Complete(c, admin)
  <2>1. /\ UNCHANGED <<env, store>> /\ phase' = phase /\ stored' \subseteq stored
        /\ \A d \in Conns \ {c} : request'[d] = request[d]
        /\ request[c].at \notin {"accept", "fail"}
    BY <1>0, <1>4 DEF Challenge, LetIn, Served, Complete, Ends, Serving
  <2> QED BY <1>0, <2>1, ReachServes
<1> QED BY <1>1, <1>2, <1>3, <1>4 DEF Handler

LEMMA ReachNext == HandshakeInv /\ Reach /\ [Next]_vars => Reach'
<1> SUFFICES ASSUME HandshakeInv, Reach, [Next]_vars PROVE Reach'
  OBVIOUS
<1>0. Typed /\ stored \subseteq Conns
  BY DEF HandshakeInv, Typed
<1>1. CASE UNCHANGED vars \/ Forget \/ Tick
  BY <1>1 DEF vars, Forget, Tick, Reach, SessionsInReach, Closing
<1>2. CASE EvictStale
  BY <1>2, ReachKeeps DEF EvictStale
<1>3. CASE Stop
  BY <1>3 DEF Stop, Reach, SessionsInReach, Closing
<1>4. CASE Stopped
  BY <1>4 DEF Stopped, Reach, SessionsInReach, Closing
<1>5. ASSUME NEW c \in Conns, Connect(c) PROVE Reach'
  BY <1>5, ReachKeeps DEF Connect
<1>6. ASSUME NEW c \in Conns, Disconnect(c) PROVE Reach'
  <2>1. /\ UNCHANGED <<env, store>> /\ phase' = phase /\ stored' = stored \ {c}
        /\ \A d \in Conns \ {c} : request'[d] = request[d]
    BY <1>0, <1>6 DEF Disconnect, Remove, Typed
  <2> QED BY <1>0, <2>1, ReachKeeps
<1> QED BY <1>1, <1>2, <1>3, <1>4, <1>5, <1>6, RequestReach, HandlerReach DEF Next

LEMMA ReachAlways == Spec => [](HandshakeInv /\ Reach)
BY HandshakeInit, HandshakeNext, ReachInit, ReachNext, PTL DEF Spec

\* Whatever the environment, requests and the sessions of two connections never
\* come to share a security context (SessionStore.GetOrCreate, Accept).
THEOREM ContextsApartCorrect == Spec => []ContextsApart
<1>1. HandshakeInv => ContextsApart
  <2> SUFFICES ASSUME HandshakeInv, NEW c \in Conns, NEW d \in Conns, c # d
               PROVE  {session[c].ctx, request[c].in, request[c].out}
                          \cap {session[d].ctx, request[d].in, request[d].out} \subseteq {None}
    BY DEF ContextsApart
  <2>1. Own(c) \cap Own(d) = {}
    BY DEF HandshakeInv, Apart
  <2> QED BY <2>1 DEF Own
<1> QED BY <1>1, ReachAlways, PTL

\* What AbandonedHandshakesEnd rests on besides fairness: evictStale can take
\* every session that is old enough out of the store, or the request that holds
\* the session will (evictStale, SessionStore.Close, negotiateAuth).
THEOREM SessionsInReachCorrect == Spec => []SessionsInReach
<1>1. Reach => SessionsInReach
  BY DEF Reach
<1> QED BY <1>1, ReachAlways, PTL

\* In calm weather Close releases every context, and none is made afterwards.
THEOREM StopFreesAllCorrect == Spec => []StopFreesAll
<1>1. HandshakeInv /\ Reach => StopFreesAll
  <2> SUFFICES ASSUME HandshakeInv, Reach, Calm, phase # "up"
               PROVE  stored = {} /\ live = {}
    BY DEF StopFreesAll
  <2>1. ~env.busy
    BY DEF Calm
  <2>2. stored = {}
    BY <2>1 DEF Reach, Closing
  <2>3. \A c \in Conns : request[c].out = None
    BY <2>1, Current DEF Good, Kept, Tidy
  <2>4. live \subseteq {None}
    BY <2>2, <2>3 DEF HandshakeInv, ContextsOwned
  <2>5. None \notin live
    BY ServerAssumption DEF HandshakeInv, Typed
  <2> QED BY <2>2, <2>4, <2>5
<1> QED BY <1>1, ReachAlways, PTL
=============================================================================

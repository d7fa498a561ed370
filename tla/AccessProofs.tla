----------------------------- MODULE AccessProofs -----------------------------
(***************************************************************************)
(* Proofs about Access for every number of actors, tokens and requests,    *)
(* every set of permissions and expiry times, and every time to live,      *)
(* duration of a fetch, grace period and horizon.                          *)
(***************************************************************************)
EXTENDS Access, TLAPS

-------------------------------------------------------------------------------
(* The inductive invariant *)

\* What the histories remember is past.
PastInv ==
    /\ \A t \in Presented : lastValid[t] <= now
    /\ \A t \in Presented \ {Bootstrap} : lastUnsettled[t] <= now

\* A fetch is not older than the time it may take, nor an entry younger than now.
AgeInv ==
    \A t \in Presented :
        /\ ~InFlight(t, "none") => flight[t].since <= now /\ now <= flight[t].since + Latency
        /\ cache[t].set => cache[t].until <= now + TTL

\* What a fetch found, and what the cache holds, was valid at or after the time the
\* fetch began, unless it is refused now: then its expiry has passed.
Passes(token) == token.found /\ ~Expired(token)
SoundInv ==
    \A t \in Presented :
        /\ InFlight(t, "counted") /\ flight[t].empty /\ t = Bootstrap =>
               flight[t].since <= lastValid[t]
        /\ InFlight(t, "store") /\ Passes(flight[t].token) => flight[t].since <= lastValid[t]
        /\ cache[t].set /\ Passes(cache[t].token) =>
               cache[t].until <= lastValid[t] + TTL + Latency

\* It still mirrors the row of its token, or that row was not settled since.
Mirrors(t, token) == t \in Live /\ token.found /\ token.exp = table[t].exp
CurrentInv ==
    \A t \in Presented \ {Bootstrap} :
        /\ InFlight(t, "store") =>
               Mirrors(t, flight[t].token) \/ flight[t].since <= lastUnsettled[t]
        /\ cache[t].set =>
               Mirrors(t, cache[t].token) \/ cache[t].until <= lastUnsettled[t] + TTL + Latency

\* The permissions of a token are those of its row, which keeps them till it is deleted.
Granted(t, token) ==
    token.found => /\ table[t].state # "new"
                   /\ t \in Live => token.perms = table[t].perms
GrantInv ==
    /\ \A t \in Tokens : t \notin Live => table[t].perms = {}
    /\ \A t \in Presented \ {Bootstrap} :
           /\ InFlight(t, "store") => Granted(t, flight[t].token)
           /\ cache[t].set => Granted(t, cache[t].token)

IInv == TypeOK /\ PastInv /\ AgeInv /\ SoundInv /\ CurrentInv /\ GrantInv
           /\ AcceptedWereValid /\ ValidAreAccepted

-------------------------------------------------------------------------------
(* Who writes what *)

\* A change of the tables answers nobody, and touches no fetch and no entry.
LEMMA AdminStep ==
    ASSUME Admin
    PROVE  UNCHANGED <<now, bootstrapping, cache, flight, waiting>> /\ answered' = {}
<1> USE DEF cacheVars, NoAnswer
<1>1. \A a \in Actors, perms \in Grants : CreateActor(a, perms) \/ UpdateActor(a, perms)
          => UNCHANGED <<now, bootstrapping, cache, flight, waiting>> /\ answered' = {}
  BY DEF CreateActor, UpdateActor
<1>2. \A a \in Actors : DeleteActor(a)
          => UNCHANGED <<now, bootstrapping, cache, flight, waiting>> /\ answered' = {}
  BY DEF DeleteActor
<1>3. \A t \in Tokens, perms \in Grants, exp \in Expiries : CreateApiToken(t, perms, exp)
          => UNCHANGED <<now, bootstrapping, cache, flight, waiting>> /\ answered' = {}
  BY DEF CreateApiToken
<1>4. \A t \in Tokens : DeleteApiToken(t) \/ ApiTokenRotate(t)
          => UNCHANGED <<now, bootstrapping, cache, flight, waiting>> /\ answered' = {}
  BY DEF DeleteApiToken, ApiTokenRotate
<1> QED  BY <1>1, <1>2, <1>3, <1>4 DEF Admin

\* A request changes no table and takes no time but for its fetch.
LEMMA ServerStep ==
    ASSUME Server
    PROVE  UNCHANGED <<now, actors, queues, table>>
<1> USE DEF adminVars
<1>1. \A t \in Presented : CountTokens(t) \/ Bootstraps(t) \/ FindToken(t)
          => UNCHANGED <<now, actors, queues, table>>
  BY DEF CountTokens, Bootstraps, FindToken
<1>2. \A t \in Presented : FetchReturns(t) \/ FetchFails(t) \/ Evict(t)
          => UNCHANGED <<now, actors, queues, table>>
  BY DEF FetchReturns, FetchFails, Evict
<1>3. \A t \in Presented : GetTokenCached(t) \/ GetTokenMissed(t) \/ MalformedRequest(t)
          => UNCHANGED <<now, actors, queues, table>>
  BY DEF GetTokenCached, GetTokenMissed, MalformedRequest
<1>4. RestartServer => UNCHANGED <<now, actors, queues, table>>
  BY DEF RestartServer
<1> QED  BY <1>1, <1>2, <1>3, <1>4 DEF Server

\* What the admin API does to the row of a token: it is made, deleted, or given
\* another expiry, and keeps its permissions meanwhile.
LEMMA RowStep ==
    ASSUME TypeOK, Admin, NEW t \in Tokens
    PROVE  /\ table' \in [Tokens -> Row]
           /\ \/ table'[t] = table[t]
              \/ table[t].state = "new" /\ table'[t].state = "live"
              \/ table[t].state = "live" /\ table'[t].state = "deleted" /\ table'[t].perms = {}
              \/ /\ table[t].state = "live" /\ table'[t].state = "live"
                 /\ table'[t].perms = table[t].perms
<1>a. table \in [Tokens -> Row] /\ now \in Nat /\ Horizon \in Nat /\ Grace \in Nat
  BY TicksAssumption DEF TypeOK, Time
<1>b. \A a \in DOMAIN actors : actors[a] \in SUBSET Permissions
  BY DEF TypeOK
<1>1. \A a \in Actors, perms \in Grants : CreateActor(a, perms) \/ UpdateActor(a, perms)
          => UNCHANGED table
  BY DEF CreateActor, UpdateActor
<1>2. \A a \in Actors : DeleteActor(a) => UNCHANGED table
  BY DEF DeleteActor
<1>3. ASSUME NEW u \in Tokens, NEW perms \in Grants, NEW exp \in Expiries,
             CreateApiToken(u, perms, exp)
      PROVE  /\ table' \in [Tokens -> Row]
             /\ table'[t] = table[t] \/ (table[t].state = "new" /\ table'[t].state = "live")
  <2>1. NewRow(perms, exp) \in Row /\ NewRow(perms, exp).state = "live"
    BY BoundsAssumption, GrantsAssumption DEF NewRow, Row
  <2>2. table' = [table EXCEPT ![u] = NewRow(perms, exp)] /\ table[u].state = "new"
    BY <1>3 DEF CreateApiToken
  <2> QED  BY <1>a, <2>1, <2>2
<1>4. ASSUME NEW u \in Tokens, DeleteApiToken(u)
      PROVE  /\ table' \in [Tokens -> Row]
             /\ \/ table'[t] = table[t]
                \/ table[t].state = "live" /\ table'[t].state = "deleted" /\ table'[t].perms = {}
  <2> DEFINE row == [NoRow EXCEPT !.state = "deleted"]
  <2>1. row \in Row /\ row.state = "deleted" /\ row.perms = {}
    BY DEF NoRow, Row
  <2>2. table' = [table EXCEPT ![u] = row] /\ table[u].state = "live"
    BY <1>4 DEF DeleteApiToken, Live
  <2> HIDE DEF row
  <2> QED  BY <1>a, <2>1, <2>2
<1>5. ASSUME NEW u \in Tokens, ApiTokenRotate(u)
      PROVE  /\ table' \in [Tokens -> Row]
             /\ \/ table'[t] = table[t]
                \/ table[t].state = "new" /\ table'[t].state = "live"
                \/ /\ table[t].state = "live" /\ table'[t].state = "live"
                   /\ table'[t].perms = table[t].perms
  <2> DEFINE new == NewRow(actors[OwnerOf[u]], Horizon)
             old(v) == [table[v] EXCEPT !.exp = now + Grace]
  <2>1. new \in Row /\ new.state = "live"
    <3>1. actors[OwnerOf[u]] \in SUBSET Permissions
      BY <1>b, <1>5 DEF ApiTokenRotate
    <3> QED  BY <1>a, <3>1 DEF NewRow, Row
  <2>2. \A v \in Tokens : old(v) \in Row /\ old(v).state = table[v].state
            /\ old(v).perms = table[v].perms
    <3> SUFFICES ASSUME NEW v \in Tokens
                 PROVE  old(v) \in Row /\ old(v).state = table[v].state
                            /\ old(v).perms = table[v].perms
      OBVIOUS
    <3>1. table[v] \in Row /\ now + Grace \in Nat
      BY <1>a
    <3> QED  BY <3>1 DEF Row
  <2>3. /\ table[u].state = "new"
        /\ table' = [v \in Tokens |-> IF v = u THEN new
                                      ELSE IF v \in Live /\ OwnerOf[v] = OwnerOf[u] THEN old(v)
                                      ELSE table[v]]
    BY <1>5 DEF ApiTokenRotate
  <2> HIDE DEF new, old
  <2>4. table' \in [Tokens -> Row]
    BY <1>a, <2>1, <2>2, <2>3
  <2>5. \/ table'[t] = new /\ t = u
        \/ table'[t] = old(t) /\ t \in Live
        \/ table'[t] = table[t]
    BY <2>3
  <2> QED  BY <2>1, <2>2, <2>3, <2>4, <2>5 DEF Live
<1> QED  BY <1>a, <1>1, <1>2, <1>3, <1>4, <1>5 DEF Admin

\* A token has its actor (the foreign key of api_tokens).
LEMMA OwnersStep ==
    ASSUME TypeOK, Admin
    PROVE  /\ DOMAIN actors' \subseteq Actors /\ queues' \subseteq Actors
           /\ \A a \in DOMAIN actors' : actors'[a] \subseteq Permissions
           /\ \A t \in Live' : OwnerOf[t] \in DOMAIN actors'
<1>a. /\ DOMAIN actors \subseteq Actors /\ queues \subseteq Actors
      /\ \A a \in DOMAIN actors : actors[a] \subseteq Permissions
      /\ \A t \in Live : OwnerOf[t] \in DOMAIN actors
      /\ table \in [Tokens -> Row]
  BY DEF TypeOK
<1>1. ASSUME NEW a \in Actors, NEW perms \in Grants, CreateActor(a, perms) \/ UpdateActor(a, perms)
      PROVE  /\ DOMAIN actors' \subseteq Actors /\ queues' \subseteq Actors
             /\ \A b \in DOMAIN actors' : actors'[b] \subseteq Permissions
             /\ \A t \in Live' : OwnerOf[t] \in DOMAIN actors'
  <2>1. /\ DOMAIN actors' = DOMAIN actors \cup {a}
        /\ \A b \in DOMAIN actors' : actors'[b] = IF b = a THEN perms ELSE actors[b]
        /\ queues' \in {queues, queues \cup {a}} /\ UNCHANGED table
    BY <1>1 DEF CreateActor, UpdateActor, With
  <2>2. Live' = Live
    BY <2>1 DEF Live
  <2> QED  BY <1>a, <2>1, <2>2, GrantsAssumption
<1>2. ASSUME NEW a \in Actors, DeleteActor(a)
      PROVE  /\ DOMAIN actors' \subseteq Actors /\ queues' \subseteq Actors
             /\ \A b \in DOMAIN actors' : actors'[b] \subseteq Permissions
             /\ \A t \in Live' : OwnerOf[t] \in DOMAIN actors'
  <2>1. /\ DOMAIN actors' = DOMAIN actors \ {a}
        /\ \A b \in DOMAIN actors' : actors'[b] = actors[b]
        /\ UNCHANGED <<queues, table>>
        /\ \A t \in Live : OwnerOf[t] # a
    BY <1>2 DEF DeleteActor, Without, Referenced
  <2>2. Live' = Live
    BY <2>1 DEF Live
  <2> QED  BY <1>a, <2>1, <2>2
<1>3. ASSUME NEW t \in Tokens, UNCHANGED <<actors, queues>>, Live' \subseteq Live \cup {t},
             t \in Live' => OwnerOf[t] \in DOMAIN actors
      PROVE  /\ DOMAIN actors' \subseteq Actors /\ queues' \subseteq Actors
             /\ \A b \in DOMAIN actors' : actors'[b] \subseteq Permissions
             /\ \A u \in Live' : OwnerOf[u] \in DOMAIN actors'
  BY <1>a, <1>3
<1>4. ASSUME NEW t \in Tokens, NEW perms \in Grants, NEW exp \in Expiries,
             CreateApiToken(t, perms, exp)
      PROVE  /\ UNCHANGED <<actors, queues>> /\ Live' \subseteq Live \cup {t}
             /\ OwnerOf[t] \in DOMAIN actors
  BY <1>a, <1>4 DEF CreateApiToken, Live
<1>5. ASSUME NEW t \in Tokens, DeleteApiToken(t)
      PROVE  UNCHANGED <<actors, queues>> /\ Live' \subseteq Live
  <2>1. \A u \in Tokens : u # t => table'[u] = table[u]
    BY <1>a, <1>5 DEF DeleteApiToken
  <2> QED  BY <1>5, <2>1 DEF DeleteApiToken, Live
<1>6. ASSUME NEW t \in Tokens, ApiTokenRotate(t)
      PROVE  /\ UNCHANGED <<actors, queues>> /\ Live' \subseteq Live \cup {t}
             /\ OwnerOf[t] \in DOMAIN actors
  <2>1. \A u \in Tokens : u # t => table'[u] = table[u] \/ u \in Live
    BY <1>6 DEF ApiTokenRotate
  <2> QED  BY <1>6, <2>1 DEF ApiTokenRotate, Live
<1>7. \/ \E a \in Actors, perms \in Grants : CreateActor(a, perms) \/ UpdateActor(a, perms)
      \/ \E a \in Actors : DeleteActor(a)
      \/ \E t \in Tokens, perms \in Grants, exp \in Expiries : CreateApiToken(t, perms, exp)
      \/ \E t \in Tokens : DeleteApiToken(t) \/ ApiTokenRotate(t)
  BY DEF Admin
<1>8. ASSUME \E t \in Tokens, perms \in Grants, exp \in Expiries : CreateApiToken(t, perms, exp)
      PROVE  /\ DOMAIN actors' \subseteq Actors /\ queues' \subseteq Actors
             /\ \A b \in DOMAIN actors' : actors'[b] \subseteq Permissions
             /\ \A u \in Live' : OwnerOf[u] \in DOMAIN actors'
  <2>1. PICK t \in Tokens, perms \in Grants, exp \in Expiries : CreateApiToken(t, perms, exp)
    BY <1>8
  <2>2. UNCHANGED <<actors, queues>> /\ Live' \subseteq Live \cup {t}
            /\ OwnerOf[t] \in DOMAIN actors
    BY <1>4, <2>1
  <2> QED  BY <1>3, <2>2
<1>9. ASSUME \E t \in Tokens : DeleteApiToken(t) \/ ApiTokenRotate(t)
      PROVE  /\ DOMAIN actors' \subseteq Actors /\ queues' \subseteq Actors
             /\ \A b \in DOMAIN actors' : actors'[b] \subseteq Permissions
             /\ \A u \in Live' : OwnerOf[u] \in DOMAIN actors'
  <2>1. PICK t \in Tokens : DeleteApiToken(t) \/ ApiTokenRotate(t)
    BY <1>9
  <2>2. UNCHANGED <<actors, queues>> /\ Live' \subseteq Live \cup {t}
        /\ (t \in Live' => OwnerOf[t] \in DOMAIN actors)
    BY <1>a, <1>5, <1>6, <2>1
  <2> QED  BY <1>3, <2>2
<1> QED  BY <1>1, <1>2, <1>7, <1>8, <1>9

\* What the server does to the fetch of a token (GetToken, NewDatabaseApiTokenFetch),
\* and how many wait for it.
FetchGoes(t) ==
    \/ UNCHANGED <<flight[t], waiting[t]>>
    \/ InFlight(t, "none") /\ flight'[t] = Starts /\ waiting'[t] = waiting[t] + 1
    \/ ~InFlight(t, "none") /\ UNCHANGED flight[t] /\ waiting'[t] = waiting[t] + 1
    \/ /\ CountTokens(t) /\ UNCHANGED waiting[t]
       /\ flight'[t] = [flight[t] EXCEPT !.pc = "counted", !.empty = (Live = {})]
    \/ /\ Bootstraps(t) /\ UNCHANGED waiting[t] /\ HonoursBootstrap(t)
       /\ flight'[t] = [flight[t] EXCEPT !.pc = "store", !.token = BootstrapToken]
    \/ /\ Bootstraps(t) /\ UNCHANGED waiting[t]
       /\ flight'[t] = [flight[t] EXCEPT !.pc = "find"]
    \/ /\ FindToken(t) /\ UNCHANGED waiting[t]
       /\ flight'[t] = [flight[t] EXCEPT !.pc = "store", !.token = Found(t)]
    \/ flight'[t] = NoFlight /\ waiting'[t] = 0

\* Every step of the server moves a fetch along its way or leaves it (GetToken, fetchToken).
LEMMA FetchStep ==
    ASSUME TypeOK, Server, NEW t \in Presented
    PROVE  FetchGoes(t)
<1>a. flight \in [Presented -> Flight] /\ waiting \in [Presented -> Nat]
  BY DEF TypeOK
<1>1. ASSUME NEW u \in Presented, u # t, CountTokens(u) \/ Bootstraps(u) \/ FindToken(u)
                  \/ FetchReturns(u) \/ FetchFails(u) \/ GetTokenMissed(u)
      PROVE  UNCHANGED <<flight[t], waiting[t]>>
  BY <1>a, <1>1 DEF CountTokens, Bootstraps, FindToken, FetchReturns, FetchFails,
     GetTokenMissed, NoAnswer, Answered
<1>2. ASSUME NEW u \in Presented, Evict(u) \/ GetTokenCached(u) \/ MalformedRequest(u)
      PROVE  UNCHANGED <<flight, waiting>>
  BY <1>2 DEF Evict, GetTokenCached, MalformedRequest, NoAnswer, cacheVars
<1>3. RestartServer => flight'[t] = NoFlight /\ waiting'[t] = 0
  BY DEF RestartServer
<1>4. FetchReturns(t) \/ FetchFails(t) => flight'[t] = NoFlight /\ waiting'[t] = 0
  BY <1>a DEF FetchReturns, FetchFails, Answered
<1>5. GetTokenMissed(t) => /\ waiting'[t] = waiting[t] + 1
                           /\ flight'[t] = IF InFlight(t, "none") THEN Starts ELSE flight[t]
  BY <1>a DEF GetTokenMissed
<1>6. CountTokens(t) => FetchGoes(t)
  BY <1>a DEF CountTokens, FetchGoes, NoAnswer
<1>7. Bootstraps(t) => FetchGoes(t)
  BY <1>a DEF Bootstraps, FetchGoes, NoAnswer
<1>8. FindToken(t) => FetchGoes(t)
  BY <1>a DEF FindToken, FetchGoes, NoAnswer
<1>9. CASE \E u \in Presented : \/ CountTokens(u) \/ Bootstraps(u) \/ FindToken(u)
                                \/ FetchReturns(u) \/ FetchFails(u) \/ GetTokenMissed(u)
  BY <1>1, <1>4, <1>5, <1>6, <1>7, <1>8, <1>9 DEF FetchGoes
<1> QED  BY <1>2, <1>3, <1>9 DEF Server, FetchGoes

\* What may happen to an entry: it is dropped, or replaced by what a fetch returns.
LEMMA EntryStep ==
    ASSUME TypeOK, Server, NEW t \in Presented
    PROVE  \/ cache'[t] = cache[t]
           \/ cache'[t] = NoEntry
           \/ /\ InFlight(t, "store") /\ flight'[t] = NoFlight
              /\ cache'[t] = NewEntry(flight[t].token)
<1>a. flight \in [Presented -> Flight] /\ cache \in [Presented -> Entry]
  BY DEF TypeOK
<1>1. \A u \in Presented : CountTokens(u) \/ Bootstraps(u) \/ FindToken(u) \/ FetchFails(u)
          \/ GetTokenCached(u) \/ GetTokenMissed(u) \/ MalformedRequest(u) => UNCHANGED cache
  BY DEF CountTokens, Bootstraps, FindToken, FetchFails, GetTokenCached, GetTokenMissed,
     MalformedRequest, cacheVars
<1>2. \A u \in Presented : Evict(u) => cache'[t] = cache[t] \/ cache'[t] = NoEntry
  BY <1>a DEF Evict
<1>3. \A u \in Presented : FetchReturns(u) /\ u # t => cache'[t] = cache[t]
  BY <1>a DEF FetchReturns
<1>4. FetchReturns(t) => /\ InFlight(t, "store") /\ flight'[t] = NoFlight
                         /\ cache'[t] = cache[t] \/ cache'[t] = NewEntry(flight[t].token)
  BY <1>a DEF FetchReturns
<1>5. RestartServer => cache'[t] = NoEntry
  BY DEF RestartServer
<1> QED  BY <1>1, <1>2, <1>3, <1>4, <1>5 DEF Server

\* What may be answered: what is made of a fresh entry, or of what a fetch returns.
LEMMA AnswerStep ==
    ASSUME TypeOK, Server, NEW t \in Presented, NEW o, <<t, o>> \in answered'
    PROVE  \/ Fresh(t) /\ o \in Answers(cache[t].token)
           \/ InFlight(t, "store") /\ o \in Answers(flight[t].token)
           \/ o \in {"unavailable", "malformed"}
<1>1. \A u \in Presented : CountTokens(u) \/ Bootstraps(u) \/ FindToken(u) \/ Evict(u)
          \/ GetTokenMissed(u)
          => answered' = {}
  BY DEF CountTokens, Bootstraps, FindToken, Evict, GetTokenMissed, NoAnswer
<1>2. \A u \in Presented : GetTokenCached(u)
          => Fresh(u) /\ answered' = {u} \X Answers(cache[u].token)
  BY DEF GetTokenCached
<1>3. \A u \in Presented : FetchReturns(u) =>
          InFlight(u, "store") /\ answered' = {u} \X Answers(flight[u].token)
  BY DEF FetchReturns, Answered
<1>4. \A u \in Presented : FetchFails(u) => answered' = {u} \X {"unavailable"}
  BY DEF FetchFails, Answered
<1>5. \A u \in Presented : MalformedRequest(u) => answered' \subseteq {u} \X {"malformed"}
  BY DEF MalformedRequest
<1>6. RestartServer => answered' = {}
  BY DEF RestartServer
<1> QED  BY <1>1, <1>2, <1>3, <1>4, <1>5, <1>6 DEF Server

-------------------------------------------------------------------------------
(* Types *)

\* The records that stand for nothing held have their types.
LEMMA NullRecords ==
    /\ NoToken \in Token /\ NoEntry \in Entry /\ NoEntry.set = FALSE
    /\ NoFlight.pc = "none"
    /\ NoFlight \in Flight
<1>1. 0 \in Time
  BY TicksAssumption DEF Time
<1> QED  BY <1>1 DEF NoToken, Token, NoEntry, Entry, NoFlight, Flight

\* A fetch and an entry keep their types, and requests wait for a token just while its
\* fetch is under way (singleflight).
LEMMA FlightTypeStep ==
    ASSUME TypeOK, Server
    PROVE  /\ flight' \in [Presented -> Flight] /\ waiting' \in [Presented -> Nat]
           /\ \A t \in Presented : waiting'[t] > 0 <=> flight'[t].pc # "none"
<1>a. flight \in [Presented -> Flight] /\ waiting \in [Presented -> Nat] /\ now \in Time
  BY DEF TypeOK
<1>b. \A t \in Presented : waiting[t] > 0 <=> flight[t].pc # "none"
  BY DEF TypeOK
<1>c. /\ flight' = [t \in Presented |-> flight'[t]]
      /\ waiting' = [t \in Presented |-> waiting'[t]]
  <2>1. \A t \in Presented : CountTokens(t) \/ Bootstraps(t) \/ FindToken(t) =>
            /\ flight' = [u \in Presented |-> flight'[u]] /\ UNCHANGED waiting
    BY <1>a DEF CountTokens, Bootstraps, FindToken, NoAnswer
  <2>2. \A t \in Presented : FetchReturns(t) \/ FetchFails(t) \/ GetTokenMissed(t) =>
            /\ flight' = [u \in Presented |-> flight'[u]]
            /\ waiting' = [u \in Presented |-> waiting'[u]]
    BY <1>a DEF FetchReturns, FetchFails, GetTokenMissed, Answered
  <2>3. \A t \in Presented : Evict(t) \/ GetTokenCached(t) \/ MalformedRequest(t) =>
            UNCHANGED <<flight, waiting>>
    BY DEF Evict, GetTokenCached, MalformedRequest, NoAnswer, cacheVars
  <2>4. RestartServer => /\ flight' = [u \in Presented |-> flight'[u]]
                         /\ waiting' = [u \in Presented |-> waiting'[u]]
    BY DEF RestartServer
  <2>5. /\ flight = [u \in Presented |-> flight[u]]
        /\ waiting = [u \in Presented |-> waiting[u]]
    BY <1>a
  <2> QED  BY <2>1, <2>2, <2>3, <2>4, <2>5 DEF Server
<1>1. ASSUME NEW t \in Presented
      PROVE  /\ flight'[t] \in Flight /\ waiting'[t] \in Nat
             /\ waiting'[t] > 0 <=> flight'[t].pc # "none"
  <2>1. flight[t] \in Flight /\ waiting[t] \in Nat /\ (waiting[t] > 0 <=> flight[t].pc # "none")
    BY <1>a, <1>b
  <2>2. /\ Starts \in Flight /\ Starts.pc # "none"
        /\ BootstrapToken \in Token /\ Found(t) \in Token
    <3>1. Starts \in Flight /\ Starts.pc # "none"
      BY <1>a, NullRecords DEF Starts, Flight
    <3>2. BootstrapToken \in Token
      BY <1>a, TicksAssumption DEF BootstrapToken, Token, Time, Permissions
    <3>3. Found(t) \in Token
      BY NullRecords DEF Found, Token, TypeOK, Row, Live
    <3> QED  BY <3>1, <3>2, <3>3
  <2>3. /\ [flight[t] EXCEPT !.pc = "find"] \in Flight
        /\ [flight[t] EXCEPT !.pc = "find"].pc # "none"
    BY <2>1 DEF Flight
  <2>4. \A b \in BOOLEAN : /\ [flight[t] EXCEPT !.pc = "counted", !.empty = b] \in Flight
                           /\ [flight[t] EXCEPT !.pc = "counted", !.empty = b].pc # "none"
    BY <2>1 DEF Flight
  <2>5. \A k \in Token : /\ [flight[t] EXCEPT !.pc = "store", !.token = k] \in Flight
                         /\ [flight[t] EXCEPT !.pc = "store", !.token = k].pc # "none"
    BY <2>1 DEF Flight
  <2>6. CountTokens(t) \/ Bootstraps(t) \/ FindToken(t) => flight[t].pc # "none"
    BY DEF CountTokens, Bootstraps, FindToken, InFlight
  <2> DEFINE b == (Live = {})
             n == waiting[t] + 1
  <2>7. b \in BOOLEAN
    OBVIOUS
  <2>8. n \in Nat /\ n > 0
    BY <2>1
  <2> HIDE DEF b, n
  <2>9. FetchGoes(t)
    BY FetchStep
  <2>10. CASE UNCHANGED <<flight[t], waiting[t]>>
    BY <2>1, <2>10
  <2>11. CASE flight'[t] \in {Starts, flight[t]} /\ flight'[t].pc # "none" /\ waiting'[t] = n
    BY <2>1, <2>2, <2>8, <2>11
  <2>12. CASE flight'[t] = NoFlight /\ waiting'[t] = 0
    BY <2>12, NullRecords
  <2>13. CASE /\ flight'[t] \in Flight /\ flight'[t].pc # "none" /\ flight[t].pc # "none"
              /\ UNCHANGED waiting[t]
    BY <2>1, <2>13
  <2> QED  BY <2>2, <2>3, <2>4, <2>5, <2>6, <2>7, <2>9, <2>10, <2>11, <2>12, <2>13
           DEF FetchGoes, InFlight, b, n
<1> QED  BY <1>c, <1>1

\* The answers are outcomes, and an entry holds a token (GetToken, SetWithTTL).
LEMMA AnswersAreOutcomes ==
    ASSUME NEW token
    PROVE  Answers(token) \subseteq Outcome
<1>1. CASE ~token.found
  BY <1>1 DEF Answers, Outcome
<1>2. CASE token.found /\ Expired(token)
  BY <1>2 DEF Answers, Outcome
<1>3. CASE token.found /\ ~Expired(token)
  <2>1. Answers(token) = {IF ValidatePermissions(token, op) THEN "served" ELSE "no permission" :
                             op \in Operations}
    BY <1>3 DEF Answers
  <2> QED  BY <2>1 DEF Outcome
<1> QED  BY <1>1, <1>2, <1>3

\* The steps of the server keep the types of the cache and of what was answered.
LEMMA ServerTypeStep ==
    ASSUME TypeOK, Server
    PROVE  /\ cache' \in [Presented -> Entry] /\ bootstrapping' \in BOOLEAN
           /\ answered' \subseteq Presented \X Outcome
<1>a. /\ flight \in [Presented -> Flight] /\ cache \in [Presented -> Entry]
      /\ bootstrapping \in BOOLEAN /\ now \in Nat
  BY TicksAssumption DEF TypeOK, Time
<1>1. \A t \in Presented : NewEntry(flight[t].token) \in Entry
  BY <1>a, TicksAssumption DEF NewEntry, Until, Entry, Flight
<1>2. cache' \in [Presented -> Entry]
  <2>1. \A t \in Presented : FetchReturns(t) => cache' \in [Presented -> Entry]
    BY <1>a, <1>1 DEF FetchReturns
  <2>2. \A t \in Presented : Evict(t) => cache' \in [Presented -> Entry]
    BY <1>a, NullRecords DEF Evict
  <2>3. RestartServer => cache' \in [Presented -> Entry]
    BY NullRecords DEF RestartServer
  <2>4. \A t \in Presented : CountTokens(t) \/ Bootstraps(t) \/ FindToken(t) \/ FetchFails(t)
            \/ GetTokenCached(t) \/ GetTokenMissed(t) \/ MalformedRequest(t) => UNCHANGED cache
    BY DEF CountTokens, Bootstraps, FindToken, FetchFails, GetTokenCached, GetTokenMissed,
       MalformedRequest, cacheVars
  <2> QED  BY <1>a, <2>1, <2>2, <2>3, <2>4 DEF Server
<1>3. bootstrapping' \in BOOLEAN
  <2>1. \A t \in Presented : Bootstraps(t) => bootstrapping' \in BOOLEAN
    <3>1. \A t \in Presented : flight[t].empty \in BOOLEAN
      BY <1>a DEF Flight
    <3> QED  BY <1>a, <3>1 DEF Bootstraps
  <2>2. \A t \in Presented : CountTokens(t) \/ FindToken(t) \/ FetchFails(t) \/ FetchReturns(t)
            \/ Evict(t)
            \/ GetTokenCached(t) \/ GetTokenMissed(t) \/ MalformedRequest(t)
                   => UNCHANGED bootstrapping
    BY DEF CountTokens, FindToken, FetchFails, FetchReturns, Evict, GetTokenCached, GetTokenMissed,
       MalformedRequest, cacheVars
  <2> QED  BY <1>a, <2>1, <2>2 DEF Server, RestartServer
<1>4. answered' \subseteq Presented \X Outcome
  <2>1. \A t \in Presented : CountTokens(t) \/ Bootstraps(t) \/ FindToken(t) \/ Evict(t)
            \/ GetTokenMissed(t)
            => answered' = {}
    BY DEF CountTokens, Bootstraps, FindToken, Evict, GetTokenMissed, NoAnswer
  <2>2. \A t \in Presented : GetTokenCached(t) \/ FetchReturns(t)
            => \E k : answered' = {t} \X Answers(k)
    BY DEF GetTokenCached, FetchReturns, Answered
  <2>3. \A t \in Presented : FetchFails(t) \/ MalformedRequest(t) =>
            answered' \subseteq {t} \X {"unavailable", "malformed"}
    BY DEF FetchFails, MalformedRequest, Answered
  <2>4. RestartServer => answered' = {}
    BY DEF RestartServer
  <2>5. {"unavailable", "malformed"} \subseteq Outcome
    BY DEF Outcome
  <2> QED  BY <2>1, <2>2, <2>3, <2>4, <2>5, AnswersAreOutcomes DEF Server
<1> QED  BY <1>2, <1>3, <1>4

\* Every variable keeps its type, a token its actor, and who waits a fetch to wait for.
LEMMA TypeStep ==
    ASSUME TypeOK, [Next]_vars
    PROVE  TypeOK'
<1>1. CASE UNCHANGED vars
  BY <1>1 DEF TypeOK, vars, adminVars, cacheVars, Live
<1>2. ASSUME Next PROVE now' \in Time
  <2>1. now \in Nat /\ Horizon \in Nat /\ now \in Time
    BY TicksAssumption DEF TypeOK, Time
  <2>2. Tick => now' = now + 1 /\ now < Horizon
    BY DEF Tick
  <2> QED  BY <1>2, <2>1, <2>2, AdminStep, ServerStep DEF Next, Time
<1>3. ASSUME Next
      PROVE  lastValid' \in [Presented -> Time]
                 /\ lastUnsettled' \in [Presented \ {Bootstrap} -> Time]
  <2>1. lastValid \in [Presented -> Time] /\ lastUnsettled \in [Presented \ {Bootstrap} -> Time]
    BY DEF TypeOK
  <2> QED  BY <1>2, <1>3, <2>1 DEF Next, Remember
<1>4. CASE Admin /\ Remember
  <2>1. /\ bootstrapping' \in BOOLEAN
        /\ cache' \in [Presented -> Entry]
        /\ flight' \in [Presented -> Flight] /\ waiting' \in [Presented -> Nat]
        /\ \A t \in Presented : waiting'[t] > 0 <=> flight'[t].pc # "none"
    BY <1>4, AdminStep DEF TypeOK
  <2>2. answered' \subseteq Presented \X Outcome
    BY <1>4, AdminStep
  <2>3. table' \in [Tokens -> Row]
    <3>1. table \in [Tokens -> Row]
      BY DEF TypeOK
    <3>2. CASE Tokens = {}
      <4>1. UNCHANGED table
        BY <1>4, <3>2 DEF Admin, CreateActor, UpdateActor, DeleteActor
      <4> QED  BY <3>1, <4>1
    <3>3. ASSUME NEW t \in Tokens PROVE table' \in [Tokens -> Row]
      BY <1>4, RowStep
    <3> QED  BY <3>2, <3>3
  <2>4. Next
    BY <1>4 DEF Next
  <2> QED  BY <1>2, <1>3, <1>4, <2>1, <2>2, <2>3, <2>4, OwnersStep DEF TypeOK
<1>5. CASE Server /\ Remember
  <2>1. Next
    BY <1>5 DEF Next
  <2>2. /\ UNCHANGED <<actors, queues, table>> /\ Live' = Live
    BY <1>5, ServerStep DEF Live
  <2> QED  BY <1>2, <1>3, <1>5, <2>1, <2>2, FlightTypeStep, ServerTypeStep DEF TypeOK
<1>6. CASE Tick /\ Remember
  <2>1. Next
    BY <1>6 DEF Next
  <2>2. /\ UNCHANGED <<actors, queues, table, bootstrapping, cache, flight, waiting>>
        /\ answered' = {} /\ Live' = Live
    BY <1>6 DEF Tick, NoAnswer, adminVars, cacheVars, Live
  <2> QED  BY <1>2, <1>3, <2>1, <2>2 DEF TypeOK
<1> QED  BY <1>1, <1>4, <1>5, <1>6 DEF Next

-------------------------------------------------------------------------------
(* Time, and what was valid when *)

\* The numbers of a state.
LEMMA Numbers ==
    ASSUME TypeOK, NEW t \in Presented
    PROVE  /\ now \in Nat /\ TTL \in Nat /\ Latency \in Nat
           /\ flight[t].since \in Nat /\ flight[t].token.exp \in Nat
           /\ cache[t].until \in Nat /\ cache[t].token.exp \in Nat
           /\ lastValid[t] \in Nat
           /\ t # Bootstrap => lastUnsettled[t] \in Nat /\ t \in Tokens /\ table[t].exp \in Nat
<1>1. now \in Nat /\ TTL \in Nat /\ Latency \in Nat /\ Time \subseteq Nat
  BY TicksAssumption DEF TypeOK, Time
<1>2. flight[t].since \in Nat /\ flight[t].token.exp \in Nat
  BY <1>1 DEF TypeOK, Flight, Token
<1>3. cache[t].until \in Nat /\ cache[t].token.exp \in Nat
  BY DEF TypeOK, Entry, Token
<1>4. lastValid[t] \in Nat /\ (t # Bootstrap => lastUnsettled[t] \in Nat)
  BY <1>1 DEF TypeOK
<1>5. t # Bootstrap => t \in Tokens /\ table[t].exp \in Nat
  BY PresentedAssumption DEF TypeOK, AnyToken, Row
<1> QED  BY <1>1, <1>2, <1>3, <1>4, <1>5

\* Time and the histories move on together; nothing but a tick takes time.
LEMMA MemoryStep ==
    ASSUME TypeOK, PastInv, Next, NEW t \in Presented
    PROVE  /\ now' \in Nat /\ now <= now'
           /\ lastValid'[t] \in Nat /\ lastValid[t] <= lastValid'[t] /\ lastValid'[t] <= now'
           /\ Valid(t)' => lastValid'[t] = now'
           /\ t # Bootstrap =>
                  /\ lastUnsettled'[t] \in Nat
                  /\ lastUnsettled[t] <= lastUnsettled'[t] /\ lastUnsettled'[t] <= now'
                  /\ ~Valid(t)' \/ table'[t] # table[t] => lastUnsettled'[t] = now'
<1>1. now' = now \/ now' = now + 1
  BY AdminStep, ServerStep DEF Next, Tick
<1>2. now' \in Nat /\ now <= now'
  BY <1>1, Numbers
<1>3. lastValid'[t] = IF Valid(t)' THEN now' ELSE lastValid[t]
  BY DEF Next, Remember
<1>4. t # Bootstrap =>
          lastUnsettled'[t] = IF Valid(t)' /\ table'[t] = table[t] THEN lastUnsettled[t] ELSE now'
  BY DEF Next, Remember
<1>5. lastValid[t] <= now /\ (t # Bootstrap => lastUnsettled[t] <= now)
  BY DEF PastInv
<1>6. lastValid'[t] = now' \/ lastValid'[t] = lastValid[t]
  BY <1>3
<1>7. t # Bootstrap => lastUnsettled'[t] = now' \/ lastUnsettled'[t] = lastUnsettled[t]
  BY <1>4
<1>8. lastValid'[t] \in Nat /\ lastValid[t] <= lastValid'[t] /\ lastValid'[t] <= now'
  BY <1>2, <1>5, <1>6, Numbers
<1>9. t # Bootstrap => /\ lastUnsettled'[t] \in Nat
                       /\ lastUnsettled[t] <= lastUnsettled'[t] /\ lastUnsettled'[t] <= now'
  BY <1>2, <1>5, <1>7, Numbers
<1> QED  BY <1>2, <1>3, <1>4, <1>8, <1>9

\* A fetch in flight keeps the time of its start, and a new one starts now.
LEMMA SinceStep ==
    ASSUME TypeOK, Next, NEW t \in Presented, flight'[t].pc # "none"
    PROVE  \/ Server /\ now' = now /\ flight[t].pc = "none" /\ flight'[t] = Starts
           \/ /\ Server /\ now' = now /\ flight[t].pc # "none" /\ flight'[t].since = flight[t].since
              /\ UNCHANGED table
              /\ FetchGoes(t)
           \/ Admin /\ now' = now /\ flight'[t] = flight[t]
           \/ /\ Tick /\ now' = now + 1 /\ flight'[t] = flight[t] /\ UNCHANGED table
              /\ now < flight[t].since + Latency
<1>a. flight[t] \in Flight
  BY DEF TypeOK
<1>1. CASE Server
  <2>1. now' = now /\ FetchGoes(t) /\ UNCHANGED table
    BY <1>1, ServerStep, FetchStep
  <2>2. CASE flight'[t] = flight[t]
    BY <1>1, <2>1, <2>2
  <2>3. CASE flight[t].pc = "none" /\ flight'[t] = Starts
    BY <1>1, <2>1, <2>3
  <2>4. CASE (CountTokens(t) \/ Bootstraps(t) \/ FindToken(t)) /\ flight'[t] # flight[t]
    <3>1. flight[t].pc # "none"
      BY <2>4 DEF CountTokens, Bootstraps, FindToken, InFlight
    <3>2. \A b, k : /\ [flight[t] EXCEPT !.pc = "counted", !.empty = b].since = flight[t].since
                    /\ [flight[t] EXCEPT !.pc = "store", !.token = k].since = flight[t].since
                    /\ [flight[t] EXCEPT !.pc = "find"].since = flight[t].since
      BY <1>a DEF Flight
    <3>3. flight'[t].since = flight[t].since
      <4> DEFINE b == (Live = {})
      <4>1. \/ flight'[t] = [flight[t] EXCEPT !.pc = "counted", !.empty = b]
            \/ flight'[t] = [flight[t] EXCEPT !.pc = "store", !.token = BootstrapToken]
            \/ flight'[t] = [flight[t] EXCEPT !.pc = "find"]
            \/ flight'[t] = [flight[t] EXCEPT !.pc = "store", !.token = Found(t)]
        BY <2>1, <2>4, <3>1, NullRecords DEF FetchGoes, InFlight
      <4> HIDE DEF b
      <4> QED  BY <3>2, <4>1
    <3> QED  BY <1>1, <2>1, <3>1, <3>3
  <2> QED  BY <1>1, <2>1, <2>2, <2>3, <2>4, NullRecords DEF FetchGoes, InFlight
<1>2. CASE Admin
  BY <1>2, AdminStep
<1>3. CASE Tick
  BY <1>3 DEF Tick, cacheVars, adminVars, InFlight
<1> QED  BY <1>1, <1>2, <1>3 DEF Next

\* What the histories remember stays in the past, as time only grows (Tick).
LEMMA PastInvStep ==
    ASSUME TypeOK, PastInv, Next
    PROVE  PastInv'
BY MemoryStep DEF PastInv

\* Time does not pass over a fetch that has taken its time (Tick), and an entry lives
\* its time to live from when it is stored (Until).
LEMMA AgeInvStep ==
    ASSUME TypeOK, AgeInv, Next
    PROVE  AgeInv'
<1> SUFFICES ASSUME NEW t \in Presented
             PROVE  /\ flight'[t].pc # "none" =>
                           flight'[t].since <= now' /\ now' <= flight'[t].since + Latency
                    /\ cache'[t].set => cache'[t].until <= now' + TTL
  BY DEF AgeInv, InFlight
<1>n. /\ now \in Nat /\ TTL \in Nat /\ Latency \in Nat
      /\ flight[t].since \in Nat /\ cache[t].until \in Nat
  BY Numbers
<1>1. ASSUME flight'[t].pc # "none"
      PROVE  flight'[t].since <= now' /\ now' <= flight'[t].since + Latency
  <2>1. flight[t].pc # "none" => flight[t].since <= now /\ now <= flight[t].since + Latency
    BY DEF AgeInv, InFlight
  <2>2. Starts.since = now
    BY DEF Starts
  <2>3. \/ now' = now /\ flight'[t].since = now
        \/ now' = now /\ flight[t].pc # "none" /\ flight'[t].since = flight[t].since
        \/ /\ now' = now + 1 /\ flight[t].pc # "none" /\ flight'[t].since = flight[t].since
           /\ now < flight[t].since + Latency
    BY <1>1, <2>2, SinceStep
  <2> QED  BY <1>n, <2>1, <2>3
<1>2. ASSUME cache'[t].set PROVE cache'[t].until <= now' + TTL
  <2>1. cache[t].set => cache[t].until <= now + TTL
    BY DEF AgeInv
  <2>2. now' = now \/ now' = now + 1
    BY AdminStep, ServerStep DEF Next, Tick
  <2>3. \/ cache'[t] = cache[t]
        \/ cache'[t].until = now + TTL
    <3>1. CASE Server
      <4>1. NewEntry(flight[t].token).until = now + TTL
        BY DEF NewEntry, Until
      <4>2. cache'[t] # NoEntry
        BY <1>2, NullRecords
      <4> QED  BY <3>1, <4>1, <4>2, EntryStep
    <3> QED  BY <3>1, AdminStep DEF Next, Tick, cacheVars
  <2>4. (cache'[t].until = cache[t].until /\ cache[t].set) \/ cache'[t].until = now + TTL
    BY <1>2, <2>3
  <2> QED  BY <1>n, <2>1, <2>2, <2>4
<1> QED  BY <1>1, <1>2

\* What would be let in now would have been before, as time only passes.
LEMMA PassedBefore ==
    ASSUME TypeOK, PastInv, Next, NEW t \in Presented, NEW token, token.exp \in Nat,
           token.found, ~(token.exp < now')
    PROVE  Passes(token)
<1>1. now \in Nat /\ now' \in Nat /\ now <= now'
  BY Numbers, MemoryStep
<1> QED  BY <1>1 DEF Passes, Expired

\* What is found is valid when it is found, and a count of zero is true when it is made.
LEMMA SoundInvStep ==
    ASSUME TypeOK, PastInv, AgeInv, SoundInv, Next
    PROVE  SoundInv'
<1> SUFFICES ASSUME NEW t \in Presented
             PROVE  /\ flight'[t].pc = "counted" /\ flight'[t].empty /\ t = Bootstrap =>
                           flight'[t].since <= lastValid'[t]
                    /\ flight'[t].pc = "store" /\ flight'[t].token.found
                           /\ ~(flight'[t].token.exp < now') => flight'[t].since <= lastValid'[t]
                    /\ cache'[t].set /\ cache'[t].token.found /\ ~(cache'[t].token.exp < now') =>
                           cache'[t].until <= lastValid'[t] + TTL + Latency
  BY DEF SoundInv, InFlight, Passes, Expired
<1>n. /\ now \in Nat /\ TTL \in Nat /\ Latency \in Nat /\ lastValid[t] \in Nat
      /\ flight[t].since \in Nat /\ flight[t].token.exp \in Nat
      /\ cache[t].until \in Nat /\ cache[t].token.exp \in Nat
  BY Numbers
<1>m. /\ now' \in Nat /\ now <= now' /\ lastValid'[t] \in Nat /\ lastValid[t] <= lastValid'[t]
      /\ Valid(t)' => lastValid'[t] = now'
  BY MemoryStep
<1>f. flight[t] \in Flight
  BY DEF TypeOK
<1>1. ASSUME flight'[t].pc = "counted", flight'[t].empty, t = Bootstrap
      PROVE  flight'[t].since <= lastValid'[t]
  <2>1. CASE flight'[t] = flight[t]
    <3>1. flight[t].since <= lastValid[t]
      BY <1>1, <2>1 DEF SoundInv, InFlight
    <3> QED  BY <1>n, <1>m, <2>1, <3>1
  <2>2. CASE flight'[t] # flight[t]
    <3>1. Server /\ FetchGoes(t) /\ now' = now /\ UNCHANGED table /\ flight[t].pc # "none"
          /\ flight'[t].since = flight[t].since
      BY <1>1, <2>2, SinceStep DEF Starts
    <3>2. flight'[t] = [flight[t] EXCEPT !.pc = "counted", !.empty = (Live = {})]
      <4>1. [flight[t] EXCEPT !.pc = "find"].pc = "find"
        BY <1>f DEF Flight
      <4>2. \A k : [flight[t] EXCEPT !.pc = "store", !.token = k].pc = "store"
        BY <1>f DEF Flight
      <4>3. \A k : flight'[t] # [flight[t] EXCEPT !.pc = "store", !.token = k]
        BY <1>1, <4>2
      <4>4. flight'[t] # [flight[t] EXCEPT !.pc = "find"] /\ flight'[t] # NoFlight
        BY <1>1, <4>1, NullRecords
      <4>5. ~InFlight(t, "none") /\ ~UNCHANGED flight[t]
        BY <2>2, <3>1 DEF InFlight
      <4> QED  BY <3>1, <4>3, <4>4, <4>5 DEF FetchGoes
    <3>3. Live = {}
      <4> DEFINE b == (Live = {})
      <4>1. \A x : [flight[t] EXCEPT !.pc = "counted", !.empty = x].empty = x
        BY <1>f DEF Flight
      <4> HIDE DEF b
      <4>2. flight'[t].empty = b
        BY <3>2, <4>1 DEF b
      <4> QED  BY <1>1, <4>2 DEF b
    <3>4. Valid(t)'
      BY <1>1, <3>1, <3>3 DEF Valid, Live
    <3>5. flight[t].since <= now
      BY <3>1 DEF AgeInv, InFlight
    <3> QED  BY <1>n, <1>m, <3>1, <3>4, <3>5
  <2> QED  BY <2>1, <2>2
<1>2. ASSUME flight'[t].pc = "store", flight'[t].token.found, ~(flight'[t].token.exp < now')
      PROVE  flight'[t].since <= lastValid'[t]
  <2>1. CASE flight'[t] = flight[t]
    <3>1. Passes(flight[t].token)
      BY <1>2, <1>n, <2>1, PassedBefore
    <3>2. flight[t].since <= lastValid[t]
      BY <1>2, <2>1, <3>1 DEF SoundInv, InFlight
    <3> QED  BY <1>n, <1>m, <2>1, <3>2
  <2>2. CASE flight'[t] # flight[t]
    <3>1. Server /\ FetchGoes(t) /\ now' = now /\ UNCHANGED table /\ flight[t].pc # "none"
          /\ flight'[t].since = flight[t].since
      BY <1>2, <2>2, SinceStep DEF Starts
    <3>2. \/ Bootstraps(t) /\ HonoursBootstrap(t)
          \/ FindToken(t) /\ flight'[t] = [flight[t] EXCEPT !.pc = "store", !.token = Found(t)]
      <4>1. [flight[t] EXCEPT !.pc = "find"].pc = "find"
        BY <1>f DEF Flight
      <4>2. \A k : [flight[t] EXCEPT !.pc = "counted", !.empty = k].pc = "counted"
        BY <1>f DEF Flight
      <4> DEFINE b == (Live = {})
      <4>3. flight'[t] # [flight[t] EXCEPT !.pc = "counted", !.empty = b]
        <5> HIDE DEF b
        <5> QED  BY <1>2, <4>2
      <4> QED  BY <1>2, <2>2, <3>1, <4>1, <4>3, NullRecords DEF FetchGoes, InFlight
    <3>3. CASE Bootstraps(t) /\ HonoursBootstrap(t)
      <4>1. flight[t].since <= lastValid[t]
        BY <3>3 DEF SoundInv, Bootstraps, HonoursBootstrap
      <4> QED  BY <1>n, <1>m, <3>1, <4>1
    <3>4. CASE FindToken(t) /\ flight'[t] = [flight[t] EXCEPT !.pc = "store", !.token = Found(t)]
      <4>1. flight'[t].token = Found(t)
        BY <1>f, <3>4 DEF Flight
      <4>2. t \in Live /\ Found(t).exp = table[t].exp
        BY <1>2, <4>1 DEF Found, NoToken
      <4>3. table[t].exp \in Nat /\ t \in Tokens
        BY <4>2 DEF Live, TypeOK, Row
      <4>4. t # Bootstrap
        BY <4>3, BootstrapAssumption
      <4>5. Valid(t)'
        BY <1>2, <1>n, <3>1, <4>1, <4>2, <4>3, <4>4 DEF Valid, Live
      <4>6. flight[t].since <= now
        BY <3>1 DEF AgeInv, InFlight
      <4> QED  BY <1>n, <1>m, <3>1, <4>5, <4>6
    <3> QED  BY <3>2, <3>3, <3>4
  <2> QED  BY <2>1, <2>2
<1>3. ASSUME cache'[t].set, cache'[t].token.found, ~(cache'[t].token.exp < now')
      PROVE  cache'[t].until <= lastValid'[t] + TTL + Latency
  <2>1. CASE cache'[t] = cache[t]
    <3>1. Passes(cache[t].token)
      BY <1>3, <1>n, <2>1, PassedBefore
    <3>2. cache[t].until <= lastValid[t] + TTL + Latency
      BY <1>3, <2>1, <3>1 DEF SoundInv
    <3> QED  BY <1>n, <1>m, <2>1, <3>2
  <2>2. CASE cache'[t] # cache[t]
    <3>1. Server
      BY <2>2, AdminStep DEF Next, Tick, cacheVars
    <3>2. InFlight(t, "store") /\ cache'[t] = NewEntry(flight[t].token)
      BY <1>3, <2>2, <3>1, EntryStep, NullRecords
    <3>3. cache'[t].token = flight[t].token /\ cache'[t].until = now + TTL
      BY <3>2 DEF NewEntry, Until
    <3>4. Passes(flight[t].token)
      BY <1>3, <1>n, <3>3, PassedBefore
    <3>5. flight[t].since <= lastValid[t] /\ now <= flight[t].since + Latency
      BY <3>2, <3>4 DEF SoundInv, AgeInv, InFlight
    <3> QED  BY <1>n, <1>m, <3>3, <3>5
  <2> QED  BY <2>1, <2>2
<1> QED  BY <1>1, <1>2, <1>3

\* A row that was settled all the while is what a fetch found in it.
LEMMA MirrorsStep ==
    ASSUME TypeOK, PastInv, Next, NEW t \in Presented, t # Bootstrap, NEW token, Mirrors(t, token)
    PROVE  (t \in Live' /\ token.found /\ token.exp = table'[t].exp) \/ lastUnsettled'[t] = now'
<1>1. t \in Live /\ token.found /\ token.exp = table[t].exp
  BY DEF Mirrors
<1>2. table'[t] # table[t] => lastUnsettled'[t] = now'
  BY MemoryStep
<1> QED  BY <1>1, <1>2 DEF Live

\* What is found mirrors the row, and what is not found leaves the row unsettled.
LEMMA CurrentInvStep ==
    ASSUME TypeOK, PastInv, AgeInv, CurrentInv, Next
    PROVE  CurrentInv'
<1> DEFINE Mirrored(t, token) == t \in Live' /\ token.found /\ token.exp = table'[t].exp
<1> SUFFICES ASSUME NEW t \in Presented, t # Bootstrap
             PROVE  /\ flight'[t].pc = "store" => \/ Mirrored(t, flight'[t].token)
                                                  \/ flight'[t].since <= lastUnsettled'[t]
                    /\ cache'[t].set => \/ Mirrored(t, cache'[t].token)
                                        \/ cache'[t].until <= lastUnsettled'[t] + TTL + Latency
  BY DEF CurrentInv, InFlight, Mirrors
<1>n. /\ now \in Nat /\ TTL \in Nat /\ Latency \in Nat /\ lastUnsettled[t] \in Nat
      /\ flight[t].since \in Nat /\ cache[t].until \in Nat /\ t \in Tokens
  BY Numbers
<1>m. /\ now' \in Nat /\ now <= now'
      /\ lastUnsettled'[t] \in Nat /\ lastUnsettled[t] <= lastUnsettled'[t]
      /\ ~Valid(t)' => lastUnsettled'[t] = now'
  BY MemoryStep
<1>f. flight[t] \in Flight
  BY DEF TypeOK
<1>1. ASSUME flight'[t].pc = "store"
      PROVE  Mirrored(t, flight'[t].token) \/ flight'[t].since <= lastUnsettled'[t]
  <2>1. CASE flight'[t] = flight[t]
    <3>1. flight[t].since <= now
      BY <1>1, <2>1 DEF AgeInv, InFlight
    <3>2. Mirrors(t, flight[t].token) \/ flight[t].since <= lastUnsettled[t]
      BY <1>1, <2>1 DEF CurrentInv, InFlight
    <3>3. CASE Mirrors(t, flight[t].token)
      <4>1. Mirrored(t, flight[t].token) \/ lastUnsettled'[t] = now'
        BY <3>3, MirrorsStep
      <4> HIDE DEF Mirrored
      <4>2. flight[t].since <= now'
        BY <1>n, <1>m, <3>1
      <4> QED  BY <2>1, <4>1, <4>2
    <3>4. CASE flight[t].since <= lastUnsettled[t]
      BY <1>n, <1>m, <2>1, <3>4
    <3> QED  BY <3>2, <3>3, <3>4
  <2>2. CASE flight'[t] # flight[t]
    <3>1. Server /\ FetchGoes(t) /\ now' = now /\ UNCHANGED table /\ flight[t].pc # "none"
          /\ flight'[t].since = flight[t].since
      BY <1>1, <2>2, SinceStep DEF Starts
    <3>2. FindToken(t) /\ flight'[t] = [flight[t] EXCEPT !.pc = "store", !.token = Found(t)]
      <4>1. [flight[t] EXCEPT !.pc = "find"].pc = "find"
        BY <1>f DEF Flight
      <4>2. \A k : [flight[t] EXCEPT !.pc = "counted", !.empty = k].pc = "counted"
        BY <1>f DEF Flight
      <4> DEFINE b == (Live = {})
      <4>3. flight'[t] # [flight[t] EXCEPT !.pc = "counted", !.empty = b]
        <5> HIDE DEF b
        <5> QED  BY <1>1, <4>2
      <4>4. ~HonoursBootstrap(t)
        BY DEF HonoursBootstrap
      <4> QED  BY <1>1, <2>2, <3>1, <4>1, <4>3, <4>4, NullRecords DEF FetchGoes, InFlight
    <3>3. flight'[t].token = Found(t)
      BY <1>f, <3>2 DEF Flight
    <3>4. CASE t \in Live
      <4>1. Found(t).found /\ Found(t).exp = table[t].exp
        BY <3>4 DEF Found, TypeOK
      <4>2. t \in Live'
        BY <3>1, <3>4 DEF Live
      <4> QED  BY <3>1, <3>3, <4>1, <4>2
    <3>5. CASE t \notin Live
      <4>1. ~Valid(t)'
        BY <3>1, <3>5 DEF Valid, Live
      <4>2. flight[t].since <= now
        BY <3>1 DEF AgeInv, InFlight
      <4> HIDE DEF Mirrored
      <4> QED  BY <1>n, <1>m, <3>1, <4>1, <4>2
    <3> QED  BY <3>4, <3>5
  <2> QED  BY <2>1, <2>2
<1>2. ASSUME cache'[t].set
      PROVE  Mirrored(t, cache'[t].token) \/ cache'[t].until <= lastUnsettled'[t] + TTL + Latency
  <2>1. CASE cache'[t] = cache[t]
    <3>1. cache[t].until <= now + TTL
      BY <1>2, <2>1 DEF AgeInv
    <3>2. Mirrors(t, cache[t].token) \/ cache[t].until <= lastUnsettled[t] + TTL + Latency
      BY <1>2, <2>1 DEF CurrentInv
    <3>3. CASE Mirrors(t, cache[t].token)
      <4>1. Mirrored(t, cache[t].token) \/ lastUnsettled'[t] = now'
        BY <3>3, MirrorsStep
      <4> HIDE DEF Mirrored
      <4>2. cache[t].until <= now' + TTL + Latency
        BY <1>n, <1>m, <3>1
      <4> QED  BY <2>1, <4>1, <4>2
    <3>4. CASE cache[t].until <= lastUnsettled[t] + TTL + Latency
      BY <1>n, <1>m, <2>1, <3>4
    <3> QED  BY <3>2, <3>3, <3>4
  <2>2. CASE cache'[t] # cache[t]
    <3>1. Server
      BY <2>2, AdminStep DEF Next, Tick, cacheVars
    <3>2. InFlight(t, "store") /\ cache'[t] = NewEntry(flight[t].token)
      BY <1>2, <2>2, <3>1, EntryStep, NullRecords
    <3>3. cache'[t].token = flight[t].token /\ cache'[t].until = now + TTL
      BY <3>2 DEF NewEntry, Until
    <3>4. Mirrors(t, flight[t].token) \/ flight[t].since <= lastUnsettled[t]
      BY <3>2 DEF CurrentInv
    <3>5. now <= flight[t].since + Latency
      BY <3>2 DEF AgeInv, InFlight
    <3>6. CASE Mirrors(t, flight[t].token)
      <4>1. Mirrored(t, flight[t].token) \/ lastUnsettled'[t] = now'
        BY <3>6, MirrorsStep
      <4> HIDE DEF Mirrored
      <4>2. now + TTL <= now' + TTL + Latency
        BY <1>n, <1>m
      <4> QED  BY <3>3, <4>1, <4>2
    <3>7. CASE flight[t].since <= lastUnsettled[t]
      <4> HIDE DEF Mirrored
      <4> QED  BY <1>n, <1>m, <3>3, <3>5, <3>7
    <3> QED  BY <3>4, <3>6, <3>7
  <2> QED  BY <2>1, <2>2
<1> QED  BY <1>1, <1>2

\* Nobody changes the permissions of a token (CreateApiToken, ApiTokenRotate).
LEMMA GrantInvStep ==
    ASSUME TypeOK, GrantInv, Next
    PROVE  GrantInv'
<1> DEFINE Kept(t, token) ==
        token.found => table'[t].state # "new" /\ (t \in Live' => token.perms = table'[t].perms)
<1>1. ASSUME NEW t \in Tokens
      PROVE  \/ table'[t] = table[t]
             \/ table[t].state = "new" /\ table'[t].state = "live"
             \/ table[t].state = "live" /\ table'[t].state = "deleted" /\ table'[t].perms = {}
             \/ /\ table[t].state = "live" /\ table'[t].state = "live"
                /\ table'[t].perms = table[t].perms
  BY RowStep, ServerStep DEF Next, Tick, adminVars
<1>2. ASSUME NEW t \in Tokens, t \notin Live' PROVE table'[t].perms = {}
  BY <1>1, <1>2 DEF GrantInv, Live
<1>3. ASSUME NEW t \in Tokens, NEW token, Granted(t, token) PROVE Kept(t, token)
  BY <1>1, <1>3 DEF Granted, Live
<1>4. ASSUME NEW t \in Presented, t # Bootstrap
      PROVE  /\ flight'[t].pc = "store" => Kept(t, flight'[t].token)
             /\ cache'[t].set => Kept(t, cache'[t].token)
  <2>t. t \in Tokens /\ flight[t] \in Flight
    BY <1>4, Numbers DEF TypeOK
  <2>1. ASSUME flight'[t].pc = "store" PROVE Kept(t, flight'[t].token)
    <3>1. CASE flight'[t] = flight[t]
      <4>1. Granted(t, flight[t].token)
        BY <1>4, <2>1, <3>1 DEF GrantInv, InFlight
      <4> QED  BY <1>3, <2>t, <3>1, <4>1
    <3>2. CASE flight'[t] # flight[t]
      <4>1. Server /\ FetchGoes(t) /\ UNCHANGED table
        BY <2>1, <3>2, SinceStep DEF Starts
      <4>2. FindToken(t) /\ flight'[t] = [flight[t] EXCEPT !.pc = "store", !.token = Found(t)]
        <5>1. [flight[t] EXCEPT !.pc = "find"].pc = "find"
          BY <2>t DEF Flight
        <5>2. \A k : [flight[t] EXCEPT !.pc = "counted", !.empty = k].pc = "counted"
          BY <2>t DEF Flight
        <5> DEFINE b == (Live = {})
        <5>3. flight'[t] # [flight[t] EXCEPT !.pc = "counted", !.empty = b]
          <6> HIDE DEF b
          <6> QED  BY <2>1, <5>2
        <5>4. ~HonoursBootstrap(t) /\ Starts.pc # "store"
          BY <1>4 DEF HonoursBootstrap, Starts
        <5> QED  BY <2>1, <3>2, <4>1, <5>1, <5>3, <5>4, NullRecords DEF FetchGoes, InFlight
      <4>3. flight'[t].token = Found(t)
        BY <2>t, <4>2 DEF Flight
      <4>4. Found(t).found => t \in Live /\ Found(t).perms = table[t].perms
        BY DEF Found, NoToken
      <4> QED  BY <2>t, <4>1, <4>3, <4>4 DEF Live
    <3> QED  BY <3>1, <3>2
  <2>2. ASSUME cache'[t].set PROVE Kept(t, cache'[t].token)
    <3>1. CASE cache'[t] = cache[t]
      <4>1. Granted(t, cache[t].token)
        BY <1>4, <2>2, <3>1 DEF GrantInv
      <4> QED  BY <1>3, <2>t, <3>1, <4>1
    <3>2. CASE cache'[t] # cache[t]
      <4>1. Server
        BY <3>2, AdminStep DEF Next, Tick, cacheVars
      <4>2. InFlight(t, "store") /\ cache'[t] = NewEntry(flight[t].token)
        BY <2>2, <3>2, <4>1, EntryStep, NullRecords
      <4>3. cache'[t].token = flight[t].token
        BY <4>2 DEF NewEntry
      <4>4. Granted(t, flight[t].token)
        BY <1>4, <4>2 DEF GrantInv
      <4> QED  BY <1>3, <2>t, <4>3, <4>4
    <3> QED  BY <3>1, <3>2
  <2> QED  BY <2>1, <2>2
<1> QED  BY <1>2, <1>4 DEF GrantInv, Granted, InFlight

-------------------------------------------------------------------------------
(* The answers *)

\* What each answer says of the token it was made of (NewBearerAuthMiddleware).
LEMMA AnswersMean ==
    ASSUME NEW token, NEW o \in Answers(token)
    PROVE  /\ o \in {"served", "no permission"} => Passes(token)
           /\ o = "invalid" => ~token.found
           /\ o = "expired" => token.found /\ Expired(token)
           /\ o = "no permission" => \E op \in Operations : ~ValidatePermissions(token, op)
           /\ o \notin {"unavailable", "malformed"}
<1>1. CASE ~token.found
  BY <1>1 DEF Answers
<1>2. CASE token.found /\ Expired(token)
  BY <1>2 DEF Answers
<1>3. CASE token.found /\ ~Expired(token)
  <2>1. PICK op \in Operations : o = IF ValidatePermissions(token, op)
                                            THEN "served" ELSE "no permission"
    BY <1>3 DEF Answers
  <2> QED  BY <1>3, <2>1 DEF Passes
<1> QED  BY <1>1, <1>2, <1>3

\* The key each handler asks the table Permissions for is in the table.
LEMMA GatesHaveKeys ==
    ASSUME NEW op \in Operations
    PROVE  \E p \in Permissions : GateOf(op) \in KeysOf[p]
<1>1. CASE op \in InvocationOps
  <2>1. CASE GateOf(op) \in {"CreateInvocationAsync", "CreateInvocationSync"}
    BY <2>1 DEF Permissions, KeysOf
  <2>2. CASE GateOf(op) \in {"GetNextInvocation", "ReturnInvocationResponse"}
    BY <2>2 DEF Permissions, KeysOf
  <2> QED  BY <1>1, <2>1, <2>2 DEF InvocationOps, GateOf
<1>2. CASE op \in ModelOps
  <2>1. CASE GateOf(op) = "ListEmbeddingModels"
    BY <2>1 DEF Permissions, KeysOf
  <2>2. CASE GateOf(op) = "CreateCompletion"
    BY <2>2 DEF Permissions, KeysOf
  <2>3. CASE GateOf(op) = "GetMCPServers"
    BY <2>3 DEF Permissions, KeysOf
  <2> QED  BY <1>2, <2>1, <2>2, <2>3 DEF ModelOps, GateOf
<1>3. CASE op \in ActorOps \cup DeploymentOps \cup SystemOps
  <2>1. GateOf(op) = "GetActors"
            \/ GateOf(op) \in SystemOps \cup DeploymentOps \cup (ActorOps \ {"GetActor"})
    BY <1>3 DEF GateOf, ActorOps, DeploymentOps, SystemOps
  <2>2. GateOf(op) \in KeysOf["admin"]
    BY <2>1 DEF KeysOf, Permissions
  <2> QED  BY <2>2 DEF Permissions
<1> QED  BY <1>1, <1>2, <1>3 DEF Operations

\* Nobody gets in too late: what an answer was made of was valid late enough.
LEMMA AcceptedStep ==
    ASSUME TypeOK, PastInv, AgeInv, SoundInv, Next
    PROVE  AcceptedWereValid'
<1> SUFFICES ASSUME NEW t \in Presented, NEW o, <<t, o>> \in answered'
             PROVE  o \in {"served", "no permission"} => now' <= lastValid'[t] + TTL + Latency
  BY DEF AcceptedWereValid, Answer
<1>n. /\ now \in Nat /\ TTL \in Nat /\ Latency \in Nat /\ lastValid[t] \in Nat
      /\ flight[t].since \in Nat /\ cache[t].until \in Nat
  BY Numbers
<1>m. now' \in Nat /\ lastValid'[t] \in Nat /\ lastValid[t] <= lastValid'[t]
  BY MemoryStep
<1>1. Server /\ now' = now
  BY AdminStep, ServerStep DEF Next, Tick, NoAnswer
<1>2. ASSUME Fresh(t), o \in Answers(cache[t].token), o \in {"served", "no permission"}
      PROVE  now' <= lastValid'[t] + TTL + Latency
  <2>1. cache[t].set /\ now <= cache[t].until /\ Passes(cache[t].token)
    BY <1>2, AnswersMean DEF Fresh
  <2>2. cache[t].until <= lastValid[t] + TTL + Latency
    BY <2>1 DEF SoundInv
  <2>3. now <= cache[t].until
    BY <2>1
  <2> QED  BY <1>n, <1>m, <1>1, <2>2, <2>3
<1>3. ASSUME InFlight(t, "store"), o \in Answers(flight[t].token), o \in {"served", "no permission"}
      PROVE  now' <= lastValid'[t] + TTL + Latency
  <2>1. Passes(flight[t].token)
    BY <1>3, AnswersMean
  <2>2. flight[t].since <= lastValid[t] /\ now <= flight[t].since + Latency
    BY <1>3, <2>1 DEF SoundInv, AgeInv, InFlight
  <2> QED  BY <1>n, <1>m, <1>1, <2>2
<1> QED  BY <1>1, <1>2, <1>3, AnswerStep

\* Nobody is kept out for long by what was cached, nor by a gate without a key.
LEMMA ValidStep ==
    ASSUME TypeOK, PastInv, AgeInv, CurrentInv, GrantInv, Next
    PROVE  ValidAreAccepted'
<1> SUFFICES ASSUME NEW t \in Presented, t # Bootstrap, NEW o, <<t, o>> \in answered'
             PROVE  /\ o \in {"invalid", "expired"} => now' <= lastUnsettled'[t] + TTL + Latency
                    /\ o = "no permission" => table'[t].perms # Permissions
  BY DEF ValidAreAccepted, Answer
<1>n. /\ now \in Nat /\ TTL \in Nat /\ Latency \in Nat /\ lastUnsettled[t] \in Nat
      /\ flight[t].since \in Nat /\ cache[t].until \in Nat /\ t \in Tokens /\ table[t].exp \in Nat
  BY Numbers
<1>m. /\ lastUnsettled'[t] \in Nat /\ lastUnsettled[t] <= lastUnsettled'[t]
      /\ ~Valid(t)' => lastUnsettled'[t] = now'
  BY MemoryStep
<1>1. Server /\ now' = now /\ UNCHANGED table
  BY AdminStep, ServerStep DEF Next, Tick, NoAnswer
<1>2. ASSUME NEW token, o \in Answers(token), o \in {"invalid", "expired"}, Mirrors(t, token)
      PROVE  now' <= lastUnsettled'[t] + TTL + Latency
  <2>1. token.exp = table[t].exp /\ token.exp < now
    BY <1>2, AnswersMean DEF Mirrors, Expired
  <2>2. ~Valid(t)'
    BY <1>n, <1>1, <2>1 DEF Valid
  <2> QED  BY <1>n, <1>m, <1>1, <2>2
<1>3. ASSUME NEW token, o \in Answers(token), o = "no permission", Granted(t, token)
      PROVE  table'[t].perms # Permissions
  <2>1. token.found /\ \E op \in Operations : ~ValidatePermissions(token, op)
    BY <1>3, AnswersMean DEF Passes
  <2>2. token.perms # Permissions
    BY <2>1, GatesHaveKeys DEF ValidatePermissions
  <2>3. CASE t \in Live
    BY <1>1, <1>3, <2>1, <2>2, <2>3 DEF Granted
  <2>4. CASE t \notin Live
    BY <1>n, <1>1, <2>4 DEF GrantInv, Permissions
  <2> QED  BY <2>3, <2>4
<1>4. CASE Fresh(t) /\ o \in Answers(cache[t].token)
  <2>1. cache[t].set /\ now <= cache[t].until
    BY <1>4 DEF Fresh
  <2>2. Mirrors(t, cache[t].token) \/ cache[t].until <= lastUnsettled[t] + TTL + Latency
    BY <2>1 DEF CurrentInv
  <2>3. Granted(t, cache[t].token)
    BY <2>1 DEF GrantInv
  <2>4. cache[t].until <= lastUnsettled[t] + TTL + Latency
            => now' <= lastUnsettled'[t] + TTL + Latency
    BY <1>n, <1>m, <1>1, <2>1
  <2> QED  BY <1>2, <1>3, <1>4, <2>2, <2>3, <2>4
<1>5. CASE InFlight(t, "store") /\ o \in Answers(flight[t].token)
  <2>1. now <= flight[t].since + Latency
    BY <1>5 DEF AgeInv, InFlight
  <2>2. Mirrors(t, flight[t].token) \/ flight[t].since <= lastUnsettled[t]
    BY <1>5 DEF CurrentInv
  <2>3. Granted(t, flight[t].token)
    BY <1>5 DEF GrantInv
  <2>4. flight[t].since <= lastUnsettled[t] => now' <= lastUnsettled'[t] + TTL + Latency
    BY <1>n, <1>m, <1>1, <2>1
  <2> QED  BY <1>2, <1>3, <1>5, <2>2, <2>3, <2>4
<1> QED  BY <1>1, <1>4, <1>5, AnswerStep

-------------------------------------------------------------------------------
(* The theorems *)

\* The invariants hold when the server starts on empty tables.
LEMMA Initially ==
    ASSUME Init
    PROVE  IInv
<1>1. TypeOK
  <2>1. 0 \in Time
    BY TicksAssumption DEF Time
  <2>2. NoRow \in Row
    BY DEF NoRow, Row
  <2>3. Live = {}
    BY DEF Init, Live, NoRow
  <2> QED  BY <2>1, <2>2, <2>3, NullRecords DEF Init, TypeOK
<1>2. PastInv
  BY DEF Init, PastInv
<1>3. \A t \in Presented : flight[t].pc = "none" /\ cache[t].set = FALSE
  BY NullRecords DEF Init
<1>4. AgeInv /\ SoundInv /\ CurrentInv
  BY <1>3 DEF AgeInv, SoundInv, CurrentInv, InFlight
<1>5. GrantInv
  BY <1>3 DEF Init, GrantInv, InFlight, NoRow
<1>6. AcceptedWereValid /\ ValidAreAccepted
  BY DEF Init, AcceptedWereValid, ValidAreAccepted, Answer
<1> QED  BY <1>1, <1>2, <1>4, <1>5, <1>6 DEF IInv

\* Every step of the admin API, of the server and of the clock keeps them.
LEMMA StepIInv ==
    ASSUME IInv, [Next]_vars
    PROVE  IInv'
<1>1. CASE UNCHANGED vars
  <2> USE <1>1 DEF vars, adminVars, cacheVars
  <2>1. TypeOK'
    BY TypeStep DEF IInv
  <2>2. PastInv' /\ AgeInv'
    BY DEF IInv, PastInv, AgeInv, InFlight
  <2>3. SoundInv'
    BY DEF IInv, SoundInv, Passes, Expired, InFlight
  <2>4. CurrentInv'
    BY DEF IInv, CurrentInv, Mirrors, Live, InFlight
  <2>5. GrantInv'
    BY DEF IInv, GrantInv, Granted, Live, InFlight
  <2>6. AcceptedWereValid'
    BY DEF IInv, AcceptedWereValid, Answer
  <2>7. ValidAreAccepted'
    BY DEF IInv, ValidAreAccepted, Answer
  <2> QED  BY <2>1, <2>2, <2>3, <2>4, <2>5, <2>6, <2>7 DEF IInv
<1>2. CASE Next
  BY <1>2, TypeStep, PastInvStep, AgeInvStep, SoundInvStep, CurrentInvStep, GrantInvStep,
     AcceptedStep, ValidStep DEF IInv
<1> QED  BY <1>1, <1>2

\* What every step of Access keeps.
THEOREM Inductive == Spec => []IInv
BY Initially, StepIInv, PTL DEF Spec

\* Every variable has its type; no token is without its actor (the foreign key), and
\* requests wait for a token just while its fetch is under way (singleflight).
THEOREM Types == Spec => []TypeOK
<1>1. IInv => TypeOK
  BY DEF IInv
<1> QED  BY <1>1, Inductive, PTL

\* A token that was deleted, expired or rotated away, and the bootstrap token once there
\* is another, gets nobody in later than a time to live and a fetch after that (GetToken).
THEOREM LetInInTime == Spec => []AcceptedWereValid
<1>1. IInv => AcceptedWereValid
  BY DEF IInv
<1> QED  BY <1>1, Inductive, PTL

\* Who holds a token that is good is not refused for longer than that because of what was
\* cached before, nor by any gate if it holds every permission (ValidatePermissions).
THEOREM KeptOutInTime == Spec => []ValidAreAccepted
<1>1. IInv => ValidAreAccepted
  BY DEF IInv
<1> QED  BY <1>1, Inductive, PTL
===============================================================================

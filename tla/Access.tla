-------------------------------- MODULE Access --------------------------------
(***************************************************************************)
(* Who may call the API of one server (src/middleware, src/handler): the   *)
(* api_tokens and actors tables that the admin API and ApiTokenRotate      *)
(* change, the fetch of a token (token_fetch.go), the cache of the fetches *)
(* (token_cache.go: a TTL, absent tokens cached too, one fetch per token   *)
(* at a time), the bearer check (auth.go) and the permission gates.        *)
(*                                                                         *)
(* Time is counted in ticks.  A request is served within the tick it       *)
(* arrives in, but for its fetch, which takes up to Latency ticks.         *)
(***************************************************************************)
EXTENDS Naturals, FiniteSets, Folds, Functions

CONSTANTS
    Actors,         \* names of actors
    Tokens,         \* the tokens that GenerateAPIToken will return
    OwnerOf,        \* the actor each token is made for
    Bootstrap,      \* the bootstrap token, which no table holds
    MaxWaiting,     \* bound: requests that wait for fetches
    Presented,      \* bound: the tokens that requests present
    Grants,         \* bound: the sets of permissions that are given
    Expiries,       \* bound: the expiry times that are given
    TTL,            \* ticks a cache entry lives (TOKEN_CACHE_TTL, 10 s)
    Latency,        \* bound: ticks a fetch takes
    Grace,          \* ticks the tokens replaced by a rotation live (5 minutes)
    BootstrapLife,  \* ticks the bootstrap token lives once fetched (1 minute)
    Horizon         \* bound: ticks in one behaviour

AnyToken    == Tokens \cup {Bootstrap}
Permissions == {"create:invocation", "read:invocation", "create:completion",
                "read:completion", "read:mcp", "admin"}

ASSUME OwnerAssumption == OwnerOf \in [Tokens -> Actors]
ASSUME BootstrapAssumption == Bootstrap \notin Tokens
ASSUME PresentedAssumption == Presented \subseteq AnyToken
ASSUME TicksAssumption == {TTL, Latency, Grace, BootstrapLife, Horizon} \subseteq Nat
ASSUME BoundsAssumption == MaxWaiting \in Nat /\ Expiries \subseteq Nat
ASSUME GrantsAssumption == Grants \subseteq SUBSET Permissions

VARIABLES
    now,            \* the clock
    actors,         \* permissions of the actors that exist
    queues,         \* names of the queues, which outlive their actors
    table,          \* api_tokens
    bootstrapping,  \* the package variable of token_fetch.go
    cache,          \* the entries of ApiTokenCache
    flight,         \* the fetch in flight for each token (singleflight)
    waiting,        \* how many requests wait for the fetch of each token
    answered,       \* history: the answers this step may give, with their tokens
    lastValid,      \* history: when each token was last valid in the tables
    lastUnsettled   \* history: when it was last not valid, or its row changed

adminVars == <<actors, queues, table>>
cacheVars == <<bootstrapping, cache, flight>>
vars == <<now, adminVars, cacheVars, waiting, answered, lastValid, lastUnsettled>>

-------------------------------------------------------------------------------
(* Types and null records *)

Time  == 0 .. Horizon

Row   == [state : {"new", "live", "deleted"}, exp : Nat, perms : SUBSET Permissions]
NoRow == [state |-> "new", exp |-> 0, perms |-> {}]

Token   == [found : BOOLEAN, exp : Nat, perms : SUBSET Permissions]
NoToken == [found |-> FALSE, exp |-> 0, perms |-> {}]

Entry    == [until : Nat, token : Token, set : BOOLEAN]
NoEntry  == [until |-> 0, token |-> NoToken, set |-> FALSE]
Flight   == [pc : {"none", "count", "counted", "find", "store"}, since : Time,
             empty : BOOLEAN, token : Token]
NoFlight == [pc |-> "none", since |-> 0, empty |-> FALSE, token |-> NoToken]

Outcome == {"served", "no permission", "expired", "invalid", "unavailable", "malformed"}

Live  == {t \in Tokens : table[t].state = "live"}
Valid(t) == IF t = Bootstrap THEN Live = {}
                             ELSE t \in Live /\ table[t].exp >= now

\* Types; what the foreign key of api_tokens promises (no token without its actor),
\* and what singleflight does (requests wait for a token iff its fetch is under way).
TypeOK ==
    /\ now \in Time
    /\ DOMAIN actors \subseteq Actors
    /\ \A a \in DOMAIN actors : actors[a] \subseteq Permissions
    /\ queues \subseteq Actors
    /\ table \in [Tokens -> Row]
    /\ \A t \in Live : OwnerOf[t] \in DOMAIN actors
    /\ bootstrapping \in BOOLEAN
    /\ cache \in [Presented -> Entry]
    /\ flight \in [Presented -> Flight]
    /\ waiting \in [Presented -> Nat]
    /\ answered \subseteq Presented \X Outcome
    /\ \A t \in Presented : waiting[t] > 0 <=> flight[t].pc # "none"
    /\ lastValid \in [Presented -> Time] /\ lastUnsettled \in [Presented \ {Bootstrap} -> Time]

Init ==
    /\ now = 0
    /\ actors = [a \in {} |-> {}]
    /\ queues = {}
    /\ table = [t \in Tokens |-> NoRow]
    /\ bootstrapping = TRUE
    /\ cache = [t \in Presented |-> NoEntry]
    /\ flight = [t \in Presented |-> NoFlight]
    /\ waiting = [t \in Presented |-> 0]
    /\ answered = {}
    /\ lastValid = [t \in Presented |-> 0]
    /\ lastUnsettled = [t \in Presented \ {Bootstrap} |-> 0]

NoAnswer == waiting' = waiting /\ answered' = {}

\* Whether each token is valid after a step is remembered with the time.
Remember ==
    /\ lastValid' = [t \in Presented |-> IF Valid(t)' THEN now' ELSE lastValid[t]]
    /\ lastUnsettled' = [t \in Presented \ {Bootstrap} |->
           IF Valid(t)' /\ table'[t] = table[t] THEN lastUnsettled[t] ELSE now']

-------------------------------------------------------------------------------
(* The admin API.  An operator Op_Variant states Op with one mistake in it;  *)
(* nothing uses it.                                                          *)

With(f, a, p) == [b \in DOMAIN f \cup {a} |-> IF b = a THEN p ELSE f[b]]
Without(f, a) == [b \in DOMAIN f \ {a} |-> f[b]]

\* The queue and the actor in one transaction; the name of a queue is unique.
CreateActor(a, perms) ==
    /\ a \notin queues
    /\ queues' = queues \cup {a}
    /\ actors' = With(actors, a, perms)
    /\ UNCHANGED <<now, table, cacheVars>> /\ NoAnswer

UpdateActor(a, perms) ==            \* the tokens made so far keep theirs
    /\ a \in DOMAIN actors
    /\ actors' = With(actors, a, perms)
    /\ UNCHANGED <<now, queues, table, cacheVars>> /\ NoAnswer

\* An actor with tokens is not deleted: their foreign key fails the statement, a 500.
\* One that configs refer to is answered 409; configs are left out here, so the
\* module deletes more actors than the code does.
Referenced_Never(a) == FALSE
Referenced(a)       == \E t \in Live : OwnerOf[t] = a

DeleteActor(a) ==                   \* its queue stays
    /\ a \in DOMAIN actors /\ ~Referenced(a)
    /\ actors' = Without(actors, a)
    /\ UNCHANGED <<now, queues, table, cacheVars>> /\ NoAnswer

NewRow(perms, exp) == [state |-> "live", exp |-> exp, perms |-> perms]

\* The permissions of the request, whatever those of the actor are.
CreateApiToken(t, perms, exp) ==
    /\ exp # 0
    /\ table[t].state = "new" /\ OwnerOf[t] \in DOMAIN actors
    /\ table' = [table EXCEPT ![t] = NewRow(perms, exp)]
    /\ UNCHANGED <<now, actors, queues, cacheVars>> /\ NoAnswer

DeleteApiToken(t) ==
    /\ t \in Live
    /\ table' = [table EXCEPT ![t] = [NoRow EXCEPT !.state = "deleted"]]
    /\ UNCHANGED <<now, actors, queues, cacheVars>> /\ NoAnswer

\* ApiTokenRotate, committed: a new token with the actor's permissions; all the
\* others of the actor, expired or not, expire after the grace period.
ApiTokenRotate(t) ==
    /\ table[t].state = "new" /\ OwnerOf[t] \in DOMAIN actors
    /\ table' = [u \in Tokens |->
           IF u = t THEN NewRow(actors[OwnerOf[t]], Horizon)
           ELSE IF u \in Live /\ OwnerOf[u] = OwnerOf[t]
                THEN [table[u] EXCEPT !.exp = now + Grace]
                ELSE table[u]]
    /\ UNCHANGED <<now, actors, queues, cacheVars>> /\ NoAnswer

-------------------------------------------------------------------------------
(* NewDatabaseApiTokenFetch, cut at its statements *)

InFlight(t, pc) == flight[t].pc = pc

CountTokens(t) ==                   \* ApiTokenCount
    /\ InFlight(t, "count")
    /\ flight' = [flight EXCEPT ![t] = [@ EXCEPT !.pc = "counted", !.empty = (Live = {})]]
    /\ UNCHANGED <<now, adminVars, bootstrapping, cache>> /\ NoAnswer

BootstrapToken == [found |-> TRUE, exp |-> now + BootstrapLife, perms |-> {"admin"}]

HonoursBootstrap_AnyCount(t) == t = Bootstrap
HonoursBootstrap(t) == flight[t].empty /\ t = Bootstrap

\* bootstrapping = count == 0 overwrites what a later count has found.
Bootstraps(t) ==
    /\ InFlight(t, "counted")
    /\ \/ /\ HonoursBootstrap(t)
          /\ flight' = [flight EXCEPT ![t] =
                           [@ EXCEPT !.pc = "store", !.token = BootstrapToken]]
          /\ UNCHANGED bootstrapping
       \/ /\ ~HonoursBootstrap(t)
          /\ bootstrapping' = flight[t].empty
          /\ flight' = [flight EXCEPT ![t] = [@ EXCEPT !.pc = "find"]]
    /\ UNCHANGED <<now, adminVars, cache>> /\ NoAnswer

\* ApiTokenFindByID: the row joined with its actor.
Found(t) == IF t \in Live /\ OwnerOf[t] \in DOMAIN actors
            THEN [found |-> TRUE, exp |-> table[t].exp, perms |-> table[t].perms]
            ELSE NoToken

FindToken(t) ==
    /\ InFlight(t, "find")
    /\ flight' = [flight EXCEPT ![t] = [@ EXCEPT !.pc = "store", !.token = Found(t)]]
    /\ UNCHANGED <<now, adminVars, bootstrapping, cache>> /\ NoAnswer

-------------------------------------------------------------------------------
(* ApiTokenCache.GetToken and the checks behind it *)

Until_Horizon(token) == IF token.found THEN now + TTL ELSE Horizon
Until(token)         == now + TTL

NewEntry(token) == [until |-> Until(token), token |-> token, set |-> TRUE]

\* The operations by the handlers that serve them; the first word of an Admin
\* handler's name is left out.
InvocationOps == {"CreateInvocationAsync", "CreateInvocationSync", "GetInvocationById",
                  "GetNextInvocation", "ReturnInvocationResponse", "ReturnInvocationError"}
ModelOps      == {"CreateCompletion", "ListCompletionModels", "GetMCPServers"}
ActorOps      == {"ListActors", "CreateActor", "GetActor", "UpdateActor", "DeleteActor",
                  "ListApiTokens", "CreateApiToken", "DeleteApiToken"}
DeploymentOps == {"ListDeployments", "GetDeployment", "GetDeploymentResult", "CreateDeployment",
                  "UpdateDeployment", "SubmitDeployment", "PublishDeployment",
                  "RejectDeployment", "DeleteDeployment", "RestartDeployment"}
SystemOps     == {"ListPodMetrics", "UpdateConfig", "GetSetting", "UpdateSetting",
                  "ListReferenceConfigSuites", "SyncReferenceConfigSuites", "ListSecrets",
                  "UpdateSecret", "DeleteSecret"}
Operations    == UNION {InvocationOps, ModelOps, ActorOps, DeploymentOps, SystemOps}

\* What is looked at before the token is: parameters that may not parse or be
\* missing (the wrappers of server.gen.go) and bodies (its strict handlers).
InvocationParams == {"GetNextInvocation", "CreateInvocationSync", "GetInvocationById"}
ModelParams      == {"ListCompletionModels", "GetMCPServers"}
ActorParams      == {"ListActors", "GetActor", "UpdateActor", "DeleteActor", "ListApiTokens"}
DeploymentParams == DeploymentOps \ {"CreateDeployment"}
SystemParams     == {"UpdateConfig"}
InvocationBodies == {"CreateInvocationAsync", "CreateInvocationSync",
                     "ReturnInvocationResponse", "ReturnInvocationError"}
ModelBodies      == {"CreateCompletion"}
ActorBodies      == {"CreateActor", "UpdateActor", "CreateApiToken"}
DeploymentBodies == {"CreateDeployment", "UpdateDeployment", "PublishDeployment",
                     "RejectDeployment", "RestartDeployment"}
SystemBodies     == {"UpdateConfig", "UpdateSecret", "UpdateSetting"}
Refusable == UNION {InvocationParams, ModelParams, ActorParams, DeploymentParams, SystemParams,
                    InvocationBodies, ModelBodies, ActorBodies, DeploymentBodies, SystemBodies}

\* 400, and the token is neither read from the cache nor fetched.
MalformedRequest(t) ==
    /\ answered' = {<<t, "malformed">> : op \in Refusable}
    /\ UNCHANGED <<now, adminVars, cacheVars, waiting>>

\* The key of the table Permissions that a handler asks for: mostly its own.
GateOf(op) == CASE op = "GetInvocationById"     -> "CreateInvocationSync"
                [] op = "ReturnInvocationError" -> "ReturnInvocationResponse"
                [] op = "ListCompletionModels"  -> "ListEmbeddingModels"
                [] op = "GetActor"              -> "GetActors"
                [] OTHER                        -> op

\* The table: its keys with the permission each requires.
KeysOf ==
    [p \in Permissions |->
        CASE p = "create:invocation" -> {"CreateInvocationAsync", "CreateInvocationSync"}
          [] p = "read:invocation"   -> {"GetNextInvocation", "ReturnInvocationResponse"}
          [] p = "read:completion"   -> {"ListEmbeddingModels"}
          [] p = "create:completion" -> {"CreateCompletion"}
          [] p = "read:mcp"          -> {"GetMCPServers"}
          [] p = "admin"             -> {"GetActors", "GetActorConfig"} \cup SystemOps
                                           \cup DeploymentOps \cup (ActorOps \ {"GetActor"})]

\* An operation with no key in the table is refused to everybody.
ValidatePermissions_OwnKey(token, op) == \E p \in token.perms : op \in KeysOf[p]
ValidatePermissions(token, op) == \E p \in token.perms : GateOf(op) \in KeysOf[p]

Expired_IfZero(token) == token.exp = 0
Expired(token) == token.exp < now

\* What NewBearerAuthMiddleware and the handler answer to whoever got token.
Answers(token) ==
    CASE ~token.found                   -> {"invalid"}
      [] token.found /\ Expired(token)  -> {"expired"}
      [] token.found /\ ~Expired(token) ->
             {IF ValidatePermissions(token, op) THEN "served" ELSE "no permission" :
                  op \in Operations}

Fresh_Always(t) == cache[t].set
Fresh(t)        == cache[t].set /\ now <= cache[t].until

GetTokenCached(t) ==
    /\ Fresh(t)
    /\ answered' = {t} \X Answers(cache[t].token)
    /\ UNCHANGED <<now, adminVars, cacheVars, waiting>>

Starts == [pc |-> IF bootstrapping THEN "count" ELSE "find",
           since |-> now, empty |-> FALSE, token |-> NoToken]

Waiting == FoldFunction(+, 0, waiting)

GetTokenMissed(t) ==                \* group.Do: start the fetch, or join it
    /\ ~Fresh(t) /\ Waiting < MaxWaiting
    /\ waiting' = [waiting EXCEPT ![t] = @ + 1]
    /\ flight' = [flight EXCEPT ![t] = IF InFlight(t, "none") THEN Starts ELSE @]
    /\ answered' = {}
    /\ UNCHANGED <<now, adminVars, bootstrapping, cache>>

\* The fetch of t is over for all who wait: each goes on with one of outcomes.
Answered_One(t, outcomes) ==
    waiting' = [waiting EXCEPT ![t] = @ - 1] /\ answered' = {t} \X outcomes
Answered(t, outcomes) ==
    waiting' = [waiting EXCEPT ![t] = 0] /\ answered' = {t} \X outcomes

FetchReturns(t) ==                  \* SetWithTTL, which may drop the entry
    /\ InFlight(t, "store")
    /\ cache' \in {cache, [cache EXCEPT ![t] = NewEntry(flight[t].token)]}
    /\ flight' = [flight EXCEPT ![t] = NoFlight]
    /\ Answered(t, Answers(flight[t].token))
    /\ UNCHANGED <<now, adminVars, bootstrapping>>

\* All who wait get nil, which the middleware answers as an invalid token.
FetchFails(t) ==                    \* the first caller's context ends, or the database fails
    /\ flight[t].pc \in {"count", "find"}
    /\ flight' = [flight EXCEPT ![t] = NoFlight]
    /\ Answered(t, {"unavailable"})
    /\ UNCHANGED <<now, adminVars, bootstrapping, cache>>

Evict(t) ==
    /\ cache[t].set
    /\ cache' = [cache EXCEPT ![t] = NoEntry]
    /\ UNCHANGED <<now, adminVars, bootstrapping, flight>> /\ NoAnswer

RestartServer ==                    \* those who wait lose their connections
    /\ bootstrapping' = TRUE
    /\ cache' = [t \in Presented |-> NoEntry]
    /\ flight' = [t \in Presented |-> NoFlight]
    /\ waiting' = [t \in Presented |-> 0] /\ answered' = {}
    /\ UNCHANGED <<now, adminVars>>

Tick ==
    /\ now < Horizon
    /\ \A t \in Presented : InFlight(t, "none") \/ now < flight[t].since + Latency
    /\ now' = now + 1
    /\ UNCHANGED <<adminVars, cacheVars>> /\ NoAnswer

-------------------------------------------------------------------------------
Admin ==
    \/ \E a \in Actors, perms \in Grants : CreateActor(a, perms) \/ UpdateActor(a, perms)
    \/ \E a \in Actors : DeleteActor(a)
    \/ \E t \in Tokens, perms \in Grants, exp \in Expiries : CreateApiToken(t, perms, exp)
    \/ \E t \in Tokens : DeleteApiToken(t) \/ ApiTokenRotate(t)

Server ==
    \/ \E t \in Presented : \/ CountTokens(t) \/ Bootstraps(t) \/ FindToken(t)
                           \/ FetchReturns(t) \/ FetchFails(t) \/ Evict(t)
    \/ \E t \in Presented : GetTokenCached(t) \/ GetTokenMissed(t) \/ MalformedRequest(t)
    \/ RestartServer

Next == (Admin \/ Server \/ Tick) /\ Remember

Spec == Init /\ [][Next]_vars

-------------------------------------------------------------------------------
(* Properties *)

Answer(t, outcomes) == \E o \in outcomes : <<t, o>> \in answered

\* Nobody gets past the bearer check later than a cache entry and a fetch after
\* the token was last good: deleted, expired and rotated tokens, and the bootstrap
\* token once a token exists, die within that time, whatever was cached, was in
\* flight or was counted when they did (GetToken, NewDatabaseApiTokenFetch).
AcceptedWereValid ==
    \A t \in Presented : Answer(t, {"served", "no permission"}) =>
        now <= lastValid[t] + TTL + Latency

\* A token of the table that has been good, and its row unchanged, for that long is
\* not refused because of what was cached before (absent tokens are cached, and a
\* rotation moves the expiry of those that are), and one that holds every permission
\* is refused by no gate (ValidatePermissions).
ValidAreAccepted ==
    \A t \in Presented \ {Bootstrap} :
        /\ Answer(t, {"invalid", "expired"}) => now <= lastUnsettled[t] + TTL + Latency
        /\ Answer(t, {"no permission"}) => table[t].perms # Permissions
===============================================================================

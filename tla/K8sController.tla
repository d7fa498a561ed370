----------------------------- MODULE K8sController -----------------------------
(***************************************************************************)
(* The Kubernetes controller (src/k8s/controller.go), one API call a step. *)
(* The callers are the goroutine that publishes a deployment               *)
(* (RunMigrations, then UpdateDeploymentSet) and the request that restarts *)
(* one (UpdateDeploymentSet alone); several may run at once, on one server *)
(* or on two, over one namespace.                                          *)
(*                                                                         *)
(* An object is the call that wrote it last: the spec it was given, and    *)
(* its resource version.  A read and the write that it decides on, with    *)
(* nothing between them (get or create, get then update) are one step.     *)
(***************************************************************************)
EXTENDS Naturals, Sequences, SequencesExt, FiniteSets

CONSTANTS
    Calls,      \* the calls of the callers
    Names,      \* of deployments; their key secrets and accounts are named alike
    Services,   \* names of services
    Jobs,       \* names of migration jobs
    None,       \* no object, no service
    Wants,      \* the deployment set of each call: its items, in order
    Migrations, \* the jobs each call runs first
    MaxOverlap, \* bound: calls at once
    MaxFaults   \* bound: API errors and crashes

Item == [name : Names, service : Services \cup {None}, ingress : BOOLEAN]

ASSUME NoneAssumption == None \notin Calls \cup Services /\ "edited" \notin Calls \cup {None}
ASSUME WantsAssumption ==
    /\ Wants \in [Calls -> Seq(Item)] /\ Migrations \in [Calls -> SUBSET Jobs]
    /\ \A c \in Calls : \A i, k \in DOMAIN Wants[c] : Wants[c][i].name = Wants[c][k].name => i = k
ASSUME BoundsAssumption == {MaxOverlap, MaxFaults} \subseteq Nat
ASSUME FiniteAssumption == IsFiniteSet(Calls) /\ \A c \in Calls : IsFiniteSet(Migrations[c])

VARIABLES
    deployments, services, ingresses,   \* the objects labelled created-by=maos
    keys,       \* the secrets <name>-api-key, with the key they hold
    accounts,   \* the service accounts
    jobs,       \* the state of the migration jobs
    ran,        \* history: the jobs that have succeeded
    call,       \* the state of each call
    alone,      \* history: the calls that no other call has overlapped
    latest,     \* history: the call that has begun last
    meddled,    \* history: the admin API has changed a key secret
    faults

objects == <<deployments, services, ingresses, keys, accounts>>
vars == <<objects, jobs, ran, call, alone, latest, meddled, faults>>

-------------------------------------------------------------------------------
Phase    == {"idle", "migrate", "list", "update", "done"}
Busy     == Phase \ {"idle", "done"}
JobState == {"absent", "running", "retrying", "succeeded", "failed"}

Objects(names) == [names -> Calls \cup {None}]
NoObjects(names) == [n \in names |-> None]
Listing   == [deployments : Objects(Names), services : Objects(Services), ingresses : Objects(Names)]
NoListing == [deployments |-> NoObjects(Names), services |-> NoObjects(Services),
              ingresses |-> NoObjects(Names)]

\* The API calls of RunMigrations, processDeploymentSet and deleteObsoleteResources.
ItemCalls == {"check", "account", "key", "create", "get_account", "update", "create_service",
              "update_service", "create_ingress", "update_ingress"}
Deletions == {"delete", "delete_key", "delete_account", "delete_service", "delete_ingress"}
APICalls  == ({"job"} \cup ItemCalls \cup Deletions) \X (Names \cup Services \cup Jobs)
Kinds     == {"deployment", "service", "ingress"}

\* todo: the API calls of the loop's round; item: the next item of the set;
\* skipped: a deletion failed, which is only logged.
Call == [phase : Phase, todo : Seq(APICalls),
         waits : SUBSET Jobs, failures : BOOLEAN, item : Nat \ {0},
         obsolete : SUBSET (Kinds \X (Names \cup Services)), listed : Listing, skipped : BOOLEAN,
         result : {"none", "ok", "error"}]
NewCall == [phase |-> "idle", todo |-> <<>>, waits |-> {}, failures |-> FALSE, item |-> 1,
            obsolete |-> {}, listed |-> NoListing, skipped |-> FALSE, result |-> "none"]

Present(f) == {x \in DOMAIN f : f[x] # None}

\* What a set asks for.
ServicesOf(c)  == {Wants[c][i].service : i \in DOMAIN Wants[c]} \ {None}
NamesOf(c)     == {Wants[c][i].name : i \in DOMAIN Wants[c]}
IngressesOf(c) == {Wants[c][i].name : i \in {k \in DOMAIN Wants[c] : Wants[c][k].ingress}}

\* Types; no call is about to delete what its set asks for.
TypeOK ==
    /\ deployments \in Objects(Names)
    /\ services \in Objects(Services)
    /\ ingresses \in Objects(Names)
    /\ keys \in [Names -> Calls \cup {None, "edited"}]
    /\ accounts \subseteq Names
    /\ jobs \in [Jobs -> JobState] /\ ran \subseteq Jobs
    /\ call \in [Calls -> Call]
    /\ \A c \in Calls : \A o \in call[c].obsolete :
           o[2] \notin (CASE o[1] = "deployment" -> NamesOf(c)
                          [] o[1] = "service"    -> ServicesOf(c)
                          [] o[1] = "ingress"    -> IngressesOf(c))
    /\ alone \subseteq Calls /\ latest \in Calls \cup {None}
    /\ meddled \in BOOLEAN /\ faults \in 0 .. MaxFaults

Init ==
    /\ deployments = NoObjects(Names)
    /\ services = NoObjects(Services)
    /\ ingresses = NoObjects(Names)
    /\ keys = NoObjects(Names)
    /\ accounts = {}
    /\ jobs = [j \in Jobs |-> "absent"]
    /\ ran = {}
    /\ call = [c \in Calls |-> NewCall]
    /\ alone = {} /\ latest = None /\ meddled = FALSE /\ faults = 0

-------------------------------------------------------------------------------
(* The steps of a call.  An operator Op_Variant states Op with one mistake  *)
(* in it; nothing uses it.                                                  *)

In(c, phase) == call[c].phase = phase
Making(c, op, n) == call[c].todo # <<>> /\ Head(call[c].todo) = <<op, n>>

\* The API call at the head of todo was made: with success, with an error that
\* ends the call, or with an error that is logged (what else was to be deleted
\* of this deployment then stays).
Succeeds(c) == call' = [call EXCEPT ![c].todo = Tail(@)]
Errs(c)     == call' = [call EXCEPT ![c].phase = "done", ![c].result = "error", ![c].todo = <<>>]
Skips(c)    == call' = [call EXCEPT ![c].todo = <<>>, ![c].skipped = TRUE]

Rest == <<alone, latest, meddled, faults>>

Running == {c \in Calls : call[c].phase \in Busy}

Begin(c) ==
    /\ In(c, "idle") /\ Cardinality(Running) < MaxOverlap
    /\ call' = [call EXCEPT ![c].phase = "migrate", ![c].waits = Migrations[c],
                            ![c].todo = SetToSeq({<<"job", j>> : j \in Migrations[c]})]
    /\ alone' = IF Running = {} THEN alone \cup {c} ELSE alone \ Running
    /\ latest' = c
    /\ UNCHANGED <<objects, jobs, ran, meddled, faults>>

(* RunMigrations *)

CreateMigrationJob(c, j) ==         \* an error leaves the jobs created before running
    /\ In(c, "migrate") /\ Making(c, "job", j)
    /\ IF jobs[j] = "absent"
       THEN Succeeds(c) /\ jobs' = [jobs EXCEPT ![j] = "running"]
       ELSE Errs(c) /\ UNCHANGED jobs
    /\ UNCHANGED <<objects, ran, Rest>>

Polling(c) == In(c, "migrate") /\ call[c].todo = <<>>

Settled_IfGone(j) == jobs[j] \in {"retrying", "failed", "succeeded", "absent"}
Settled(j)        == jobs[j] \in {"retrying", "failed", "succeeded"}

\* Status.Failed counts pods: it is positive before the job gives up.
Poll(c, j) ==
    /\ Polling(c) /\ j \in call[c].waits
    /\ Settled(j)
    /\ call' = [call EXCEPT ![c].waits = @ \ {j},
                            ![c].failures = @ \/ jobs[j] \in {"retrying", "failed"}]
    /\ UNCHANGED <<objects, jobs, ran, Rest>>

MigrationsDone(c) ==                \* nil, or the logs with "migration failed"
    /\ Polling(c) /\ call[c].waits = {}
    /\ IF call[c].failures THEN Errs(c) ELSE call' = [call EXCEPT ![c].phase = "list"]
    /\ UNCHANGED <<objects, jobs, ran, Rest>>

ContextEnds(c) ==                   \* the jobs go on
    /\ Polling(c) /\ call[c].waits # {}
    /\ Errs(c)
    /\ UNCHANGED <<objects, jobs, ran, Rest>>

(* UpdateDeploymentSet: listExistingResources *)

\* Every object that was listed and that the set does not ask for.
Obsolete_Updated(c) == {<<"deployment", n>> : n \in Present(deployments) \ NamesOf(c)}
                       \cup {<<"service", s>> : s \in Present(services)}
Obsolete_DeploymentsOnly(c) == {<<"deployment", n>> : n \in Present(deployments) \ NamesOf(c)}
Obsolete(c) == {<<"deployment", n>> : n \in Present(deployments) \ NamesOf(c)}
               \cup {<<"service", s>> : s \in Present(services) \ ServicesOf(c)}
               \cup {<<"ingress", n>> : n \in Present(ingresses) \ IngressesOf(c)}

\* The three List calls are one step: another call may come before or after them.
ListExistingResources(c) ==
    /\ In(c, "list")
    /\ call' = [call EXCEPT
           ![c].phase = "update",
           ![c].listed = [deployments |-> deployments, services |-> services,
                          ingresses |-> ingresses],
           ![c].obsolete = Obsolete(c)]
    /\ UNCHANGED <<objects, jobs, ran, Rest>>

(* processDeploymentSet: the first error ends it *)

\* What it does for an item p, by what was listed.
ForDeployment(listed, p) ==
    IF listed.deployments[p.name] # None
    THEN <<<<"key", p.name>>, <<"get_account", p.name>>, <<"update", p.name>>>>
    ELSE <<<<"check", p.name>>, <<"account", p.name>>, <<"key", p.name>>, <<"create", p.name>>>>
ForService(listed, p) ==
    IF p.service = None THEN <<>>
    ELSE IF listed.services[p.service] # None THEN <<<<"update_service", p.service>>>>
                                              ELSE <<<<"create_service", p.service>>>>
ForIngress(listed, p) ==
    IF ~p.ingress THEN <<>>
    ELSE IF listed.ingresses[p.name] # None THEN <<<<"update_ingress", p.name>>>>
                                            ELSE <<<<"create_ingress", p.name>>>>
ForItem(listed, p) ==
    ForDeployment(listed, p) \o ForService(listed, p) \o ForIngress(listed, p)

ProcessItem(c) ==                   \* the loop takes the next item
    /\ In(c, "update") /\ call[c].todo = <<>> /\ call[c].item <= Len(Wants[c])
    /\ call' = [call EXCEPT ![c].item = @ + 1,
                            ![c].todo = ForItem(call[c].listed, Wants[c][call[c].item])]
    /\ UNCHANGED <<objects, jobs, ran, Rest>>

Processed(c) == In(c, "update") /\ call[c].todo = <<>> /\ call[c].item > Len(Wants[c])

Updating(c, op, n) == In(c, "update") /\ Making(c, op, n)

CheckDeploymentExists(c, n) ==
    /\ Updating(c, "check", n)
    /\ IF deployments[n] = None THEN Succeeds(c) ELSE Errs(c)
    /\ UNCHANGED <<objects, jobs, ran, Rest>>

CreateServiceAccount(c, n) ==       \* unless it exists
    /\ Updating(c, "account", n)
    /\ Succeeds(c) /\ accounts' = accounts \cup {n}
    /\ UNCHANGED <<deployments, services, ingresses, keys, jobs, ran, Rest>>

CreateOrUpdateApiKey(c, n) ==       \* without a resource version: the last one wins
    /\ Updating(c, "key", n)
    /\ Succeeds(c) /\ keys' = [keys EXCEPT ![n] = c]
    /\ UNCHANGED <<deployments, services, ingresses, accounts, jobs, ran, Rest>>

GetServiceAccount(c, n) ==
    /\ Updating(c, "get_account", n)
    /\ IF n \in accounts THEN Succeeds(c) ELSE Errs(c)
    /\ UNCHANGED <<objects, jobs, ran, Rest>>

\* A create needs the name free, an update the object as it was listed.
Writes(c, kind, object, n, was) ==
    IF object[n] = was THEN Succeeds(c) /\ kind = [object EXCEPT ![n] = c]
                       ELSE Errs(c) /\ kind = object

CreateDeployment(c, n) ==
    /\ Updating(c, "create", n)
    /\ Writes(c, deployments', deployments, n, None)
    /\ UNCHANGED <<services, ingresses, keys, accounts, jobs, ran, Rest>>

UpdateDeployment(c, n) ==
    /\ Updating(c, "update", n)
    /\ Writes(c, deployments', deployments, n, call[c].listed.deployments[n])
    /\ UNCHANGED <<services, ingresses, keys, accounts, jobs, ran, Rest>>

CreateService(c, s) ==
    /\ Updating(c, "create_service", s)
    /\ Writes(c, services', services, s, None)
    /\ UNCHANGED <<deployments, ingresses, keys, accounts, jobs, ran, Rest>>

UpdateService(c, s) ==
    /\ Updating(c, "update_service", s)
    /\ Writes(c, services', services, s, call[c].listed.services[s])
    /\ UNCHANGED <<deployments, ingresses, keys, accounts, jobs, ran, Rest>>

CreateIngress(c, n) ==
    /\ Updating(c, "create_ingress", n)
    /\ Writes(c, ingresses', ingresses, n, None)
    /\ UNCHANGED <<deployments, services, keys, accounts, jobs, ran, Rest>>

UpdateIngress(c, n) ==
    /\ Updating(c, "update_ingress", n)
    /\ Writes(c, ingresses', ingresses, n, call[c].listed.ingresses[n])
    /\ UNCHANGED <<deployments, services, keys, accounts, jobs, ran, Rest>>

(* deleteObsoleteResources: deployments, then services, then ingresses, each  *)
(* in the order of a Go map                                                  *)

ToDelete(c, kind) == {o[2] : o \in {x \in call[c].obsolete : x[1] = kind}}

\* The secret and the account go once no deployment can start a pod with them.
Deletion_KeyFirst(n) == <<<<"delete_key", n>>, <<"delete", n>>, <<"delete_account", n>>>>
Deletion(n)          == <<<<"delete", n>>, <<"delete_key", n>>, <<"delete_account", n>>>>

Takes(c, kind, n, todo) ==
    /\ Processed(c) /\ n \in ToDelete(c, kind)
    /\ call' = [call EXCEPT ![c].todo = todo, ![c].obsolete = @ \ {<<kind, n>>}]
    /\ UNCHANGED <<objects, jobs, ran, Rest>>

DeleteDeploymentResources(c, n) == Takes(c, "deployment", n, Deletion(n))
DeleteObsoleteService(c, s) ==
    ToDelete(c, "deployment") = {} /\ Takes(c, "service", s, <<<<"delete_service", s>>>>)
DeleteObsoleteIngress(c, n) ==
    /\ ToDelete(c, "deployment") = {} /\ ToDelete(c, "service") = {}
    /\ Takes(c, "ingress", n, <<<<"delete_ingress", n>>>>)

DeleteDeployment(c, n) ==           \* here an absent object is an error, below it is not
    /\ Updating(c, "delete", n)
    /\ IF deployments[n] = None THEN Skips(c) ELSE Succeeds(c)
    /\ deployments' = [deployments EXCEPT ![n] = None]
    /\ UNCHANGED <<services, ingresses, keys, accounts, jobs, ran, Rest>>

DeleteApiKey(c, n) ==
    /\ Updating(c, "delete_key", n)
    /\ Succeeds(c) /\ keys' = [keys EXCEPT ![n] = None]
    /\ UNCHANGED <<deployments, services, ingresses, accounts, jobs, ran, Rest>>

DeleteServiceAccount(c, n) ==
    /\ Updating(c, "delete_account", n)
    /\ Succeeds(c) /\ accounts' = accounts \ {n}
    /\ UNCHANGED <<deployments, services, ingresses, keys, jobs, ran, Rest>>

DeleteService(c, s) ==
    /\ Updating(c, "delete_service", s)
    /\ Succeeds(c) /\ services' = [services EXCEPT ![s] = None]
    /\ UNCHANGED <<deployments, ingresses, keys, accounts, jobs, ran, Rest>>

DeleteIngress(c, n) ==
    /\ Updating(c, "delete_ingress", n)
    /\ Succeeds(c) /\ ingresses' = [ingresses EXCEPT ![n] = None]
    /\ UNCHANGED <<deployments, services, keys, accounts, jobs, ran, Rest>>

UpdateDeploymentSetReturns(c) ==
    /\ Processed(c) /\ call[c].obsolete = {}
    /\ call' = [call EXCEPT ![c].phase = "done", ![c].result = "ok"]
    /\ UNCHANGED <<objects, jobs, ran, Rest>>

-------------------------------------------------------------------------------
(* The admin API on secrets, the jobs, and what goes wrong *)

\* Bound: one of these steps in a behaviour.
UpdateSecret(n) ==                  \* created, or some of its keys set or removed
    /\ ~meddled
    /\ keys' = [keys EXCEPT ![n] = "edited"] /\ meddled' = TRUE
    /\ UNCHANGED <<deployments, services, ingresses, accounts, jobs, ran, call,
                   alone, latest, faults>>

DeleteSecret(n) ==                  \* ListSecrets offers the key secrets too
    /\ ~meddled /\ keys[n] # None
    /\ keys' = [keys EXCEPT ![n] = None] /\ meddled' = TRUE
    /\ UNCHANGED <<deployments, services, ingresses, accounts, jobs, ran, call,
                   alone, latest, faults>>

JobStep(j, from, to) ==
    /\ jobs[j] \in from /\ jobs' = [jobs EXCEPT ![j] = to]
    /\ ran' = IF to = "succeeded" THEN ran \cup {j} ELSE ran
    /\ UNCHANGED <<objects, call, Rest>>

PodFails(j)     == JobStep(j, {"running"}, "retrying")
JobSucceeds(j)  == JobStep(j, {"running", "retrying"}, "succeeded")
JobFails(j)     == JobStep(j, {"retrying"}, "failed")
JobIsRemoved(j) == JobStep(j, {"succeeded", "failed"}, "absent")    \* 600 s later

\* An API call fails, or its answer is lost: then the step before it was made.
ApiFails(c) ==
    /\ faults < MaxFaults /\ faults' = faults + 1
    /\ \/ In(c, "list") /\ Errs(c)
       \/ call[c].todo # <<>> /\ IF Head(call[c].todo)[1] \in Deletions THEN Skips(c) ELSE Errs(c)
    /\ UNCHANGED <<objects, jobs, ran, alone, latest, meddled>>

Crash(c) ==                         \* the server of c dies
    /\ call[c].phase \in Busy
    /\ faults < MaxFaults /\ faults' = faults + 1
    /\ Errs(c)
    /\ UNCHANGED <<objects, jobs, ran, alone, latest, meddled>>

-------------------------------------------------------------------------------
Migrating(c) ==
    \/ \E j \in Jobs : CreateMigrationJob(c, j) \/ Poll(c, j)
    \/  MigrationsDone(c) \/ ContextEnds(c)

Processing(c) ==
    \/ ListExistingResources(c) \/ ProcessItem(c)
    \/ \E n \in Names :
           \/ CheckDeploymentExists(c, n) \/ CreateServiceAccount(c, n)
           \/ CreateOrUpdateApiKey(c, n) \/ GetServiceAccount(c, n)
           \/ CreateDeployment(c, n) \/ UpdateDeployment(c, n)
           \/ CreateIngress(c, n) \/ UpdateIngress(c, n)
    \/ \E s \in Services : CreateService(c, s) \/ UpdateService(c, s)

Obsoleting(c) ==
    \/ \E n \in Names :
           \/ DeleteDeploymentResources(c, n) \/ DeleteDeployment(c, n)
           \/ DeleteApiKey(c, n) \/ DeleteServiceAccount(c, n)
           \/ DeleteObsoleteIngress(c, n) \/ DeleteIngress(c, n)
    \/ \E s \in Services : DeleteObsoleteService(c, s) \/ DeleteService(c, s)
    \/ UpdateDeploymentSetReturns(c)

Next ==
    \/ \E c \in Calls : \/ Begin(c) \/ Migrating(c) \/ Processing(c) \/ Obsoleting(c)
                        \/ ApiFails(c) \/ Crash(c)
    \/ \E n \in Names : UpdateSecret(n) \/ DeleteSecret(n)
    \/ \E j \in Jobs : PodFails(j) \/ JobSucceeds(j) \/ JobFails(j) \/ JobIsRemoved(j)

Spec == Init /\ [][Next]_vars

-------------------------------------------------------------------------------
(* Properties *)

\* A deployment has its key secret and its service account from the moment it
\* exists until it is deleted, at every step of a call and after an error or a
\* crash in any of them (createDeployment, deleteDeploymentResources), as long as
\* calls do not overlap and nobody deletes the secret by the admin API.
PodsCanStart ==
    alone = {c \in Calls : ~In(c, "idle")} /\ ~meddled =>
        \A n \in Present(deployments) : keys[n] # None /\ n \in accounts

\* A call that no other overlapped and that returned nil has left exactly the set
\* it was given, with its own spec and key, whatever earlier calls left half done
\* (obsolete objects whose deletion failed excepted, which it only logs).
SetIsApplied ==
    \A c \in alone : c = latest /\ call[c].result = "ok" =>
        /\ \A n \in NamesOf(c) : deployments[n] = c /\ n \in accounts
        /\ \A n \in NamesOf(c) : ~meddled => keys[n] = c
        /\ \A s \in ServicesOf(c) : services[s] = c
        /\ \A n \in IngressesOf(c) : ingresses[n] = c
        /\ ~call[c].skipped =>
               /\ Present(deployments) = NamesOf(c)
               /\ Present(services) = ServicesOf(c)
               /\ Present(ingresses) = IngressesOf(c)

\* Nothing is deployed by a call whose migrations have not all succeeded, in spite
\* of failed status reads, of jobs that are retried and of those that are removed
\* (RunMigrations).
DeployedAfterMigrations ==
    \A c \in Calls : \A n \in Names :
        c \in {deployments[n], keys[n]} => Migrations[c] \subseteq ran
===============================================================================

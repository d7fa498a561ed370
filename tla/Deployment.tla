------------------------------ MODULE Deployment ------------------------------
(***************************************************************************)
(* The life of a deployment (src/admin/deployment_manage.go and the        *)
(* deployment, config and config-suite queries): drafts, review, and the   *)
(* publish run, a goroutine that migrates, activates the config suite,     *)
(* writes it to S3, rotates the API tokens and rolls the cluster out, all  *)
(* but the migrations inside one READ COMMITTED transaction.               *)
(*                                                                         *)
(* A request that takes several statements occupies a slot (of any         *)
(* server).  What a transaction writes is applied when it commits; the row *)
(* locks it holds until then make the others wait.  Each deployment is     *)
(* created with its suite, so both have one id.  The configs of a suite    *)
(* are one value, as are the tokens of the actors.                         *)
(***************************************************************************)
EXTENDS Naturals, FiniteSets

CONSTANTS
    Slots,           \* concurrent multi-step requests
    MaxDeployments,  \* bound: deployments ever created
    Contents,        \* contents the configs of a suite may have
    Empty,           \* '{}', the content of a config without a predecessor
    Keys,            \* bound: API tokens that can be told apart at one time
    Migratable,      \* deployments with the configs of an actor that migrates
    MaxRestarts,     \* bound: restart requests in one behaviour
    MaxFaults        \* bound: faults in one behaviour

ASSUME DeploymentBounds == MaxDeployments \in Nat /\ MaxRestarts \in Nat /\ MaxFaults \in Nat
ASSUME ContentsAssumption == Empty \in Contents
ASSUME MigratableAssumption == Migratable \subseteq 1 .. MaxDeployments
ASSUME KeysAssumption == Keys \subseteq Nat \ {0}

VARIABLES
    nextId,      \* the sequence of deployments and config_suites
    status,      \* deployments.status
    content,     \* the newest configs of each suite
    active,      \* suites with active = TRUE
    deployedAt,  \* suites with a deployed_at
    tokens,      \* committed tokens of the actors that no rotation has set to expire
    slot,        \* the requests and runs in flight
    jobs,        \* Kubernetes: the migration jobs of each deployment
    cluster,     \* Kubernetes: what was rolled out last, and its API key
    s3,          \* the suite object of this server in the bucket
    restarts,    \* restart requests so far
    faults,      \* faults so far
    overtaken    \* history: what the code leaves unguarded has happened

rowVars   == <<nextId, status>>
suiteVars == <<content, active, deployedAt>>
kubeVars  == <<jobs, cluster>>
vars == <<rowVars, suiteVars, tokens, slot, kubeVars, s3, restarts, faults, overtaken>>

-------------------------------------------------------------------------------
(* Types and null records *)

Ids   == 1 .. MaxDeployments
NoId  == 0
NoKey == 0

Status == {"absent", "draft", "reviewing", "rejected", "deploying", "deployed",
           "retired", "failed"}

\* Where a request stands: the next thing it does.
RunPC     == {"start", "migrate", "await", "begin", "activate", "publish", "store",
              "rotate", "rotating", "kube", "commit"}
RestartPC == {"re_rotate", "re_rotating", "re_kube", "re_commit"}
SlotPC    == RunPC \cup RestartPC \cup {"idle", "approve", "fail", "edit"}

Slot == [pc : SlotPC, d : Ids \cup {NoId}, cfg : Contents, key : Keys \cup {NoKey},
         seen : SUBSET Keys]
Idle == [pc |-> "idle", d |-> NoId, cfg |-> Empty, key |-> NoKey, seen |-> {}]

Rollout == [d : Ids \cup {NoId}, cfg : Contents, key : Keys \cup {NoKey}]
Stored  == [d : Ids \cup {NoId}, cfg : Contents]

TypeOK ==
    /\ nextId \in 1 .. MaxDeployments + 1
    /\ status \in [Ids -> Status]
    /\ \A d \in Ids : d >= nextId => status[d] = "absent"
    /\ content \in [Ids -> Contents]
    /\ active \subseteq deployedAt /\ deployedAt \subseteq Ids
    /\ tokens \subseteq Keys
    /\ slot \in [Slots -> Slot]
    /\ jobs \in [Ids -> {"none", "running", "failed", "succeeded"}]
    /\ cluster \in Rollout
    /\ s3 \in Stored
    /\ restarts \in 0 .. MaxRestarts
    /\ faults \in 0 .. MaxFaults
    /\ overtaken \subseteq {"restart", "edit"}

Init ==
    /\ nextId = 1
    /\ status = [d \in Ids |-> "absent"]
    /\ content = [d \in Ids |-> Empty]
    /\ active = {} /\ deployedAt = {}
    /\ tokens = {}
    /\ slot = [p \in Slots |-> Idle]
    /\ jobs = [d \in Ids |-> "none"]
    /\ cluster = [d |-> NoId, cfg |-> Empty, key |-> NoKey]
    /\ s3 = [d |-> NoId, cfg |-> Empty]
    /\ restarts = 0
    /\ faults = 0
    /\ overtaken = {}

Fault == faults < MaxFaults /\ faults' = faults + 1

At(p, pc)   == slot[p].pc = pc
Goto(p, pc) == slot' = [slot EXCEPT ![p] = [@ EXCEPT !.pc = pc]]
Ends(p)     == slot' = [slot EXCEPT ![p] = Idle]
Begins(p, pc, d) == At(p, "idle") /\ slot' = [slot EXCEPT ![p] = [Idle EXCEPT !.pc = pc, !.d = d]]

-------------------------------------------------------------------------------
(* Single-statement requests.  An operator Op_Variant states Op with one     *)
(* mistake in it; nothing uses it.                                           *)

Newest(S) == CHOOSE d \in S : \A e \in S : e <= d

\* The configs a new suite starts with: those of the active suite, else the
\* newest of all (the suites of deleted deployments included), else '{}'.
InitialContent ==
    CASE active # {}             -> content[Newest(active)]
      [] active = {} /\ nextId > 1 -> content[nextId - 1]
      [] OTHER                   -> Empty

Created(c) ==
    /\ nextId \in Ids
    /\ nextId' = nextId + 1
    /\ status' = [status EXCEPT ![nextId] = "draft"]
    /\ content' = [content EXCEPT ![nextId] = c]
    /\ UNCHANGED <<active, deployedAt, tokens, slot, kubeVars, s3, restarts, faults, overtaken>>

CreateDeployment == Created(InitialContent)

CloneDeployment(d) ==
    /\ status[d] # "absent"
    /\ Created(content[d])

\* The row after DeploymentSubmitForReview, DeploymentReject, DeploymentDelete.
Submitted(d) == [status EXCEPT ![d] = "reviewing"]
Rejected(d)  == [status EXCEPT ![d] = "rejected"]
Deleted(d)   == [status EXCEPT ![d] = "absent"]

SubmitDeployment(d) ==              \* if it has reviewers
    /\ status[d] = "draft"
    /\ status' = Submitted(d)
    /\ UNCHANGED <<nextId, suiteVars, tokens, slot, kubeVars, s3, restarts, faults, overtaken>>

RejectDeployment(d) ==              \* by one of its reviewers
    /\ status[d] = "reviewing"
    /\ status' = Rejected(d)
    /\ UNCHANGED <<nextId, suiteVars, tokens, slot, kubeVars, s3, restarts, faults, overtaken>>

DeleteDeployment(d) ==              \* its suite and configs stay
    /\ status[d] = "draft"
    /\ status' = Deleted(d)
    /\ UNCHANGED <<nextId, suiteVars, tokens, slot, kubeVars, s3, restarts, faults, overtaken>>

-------------------------------------------------------------------------------
(* UpdateConfig is one statement, but what it checks is its snapshot, and    *)
(* the row it writes is locked later.                                        *)

UpdateConfig(p, d) ==               \* by the creator or a reviewer
    /\ d < nextId /\ d \notin deployedAt
    /\ Begins(p, "edit", d)
    /\ UNCHANGED <<rowVars, suiteVars, tokens, kubeVars, s3, restarts, faults, overtaken>>

\* Is a run or restart in flight that has read the configs of d already?
ConfigsRead(d) == \E p \in Slots :
    slot[p].d = d /\ slot[p].pc \in (RunPC \cup RestartPC) \ {"start"}

WriteConfig(p) ==
    /\ At(p, "edit")
    /\ \E c \in Contents : content' = [content EXCEPT ![slot[p].d] = c]
    /\ overtaken' = IF slot[p].d \in deployedAt \/ ConfigsRead(slot[p].d)
                    THEN overtaken \cup {"edit"} ELSE overtaken
    /\ Ends(p)
    /\ UNCHANGED <<rowVars, active, deployedAt, tokens, kubeVars, s3, restarts, faults>>

-------------------------------------------------------------------------------
(* PublishDeployment: SetDeploymentDeploying, then the run in a goroutine.   *)

MayPublish(d) == /\ status[d] \in {"draft", "reviewing"}
                 /\ \A e \in Ids : status[e] # "deploying"

PublishDeployment(p, d) ==          \* the snapshot: deployment_info
    /\ MayPublish(d)
    /\ Begins(p, "approve", d)
    /\ UNCHANGED <<rowVars, suiteVars, tokens, kubeVars, s3, restarts, faults, overtaken>>

\* The deployments another transaction has locked: the one it publishes and
\* the one it retires.
Publishing(p) == slot[p].pc \in {"store", "rotate", "rotating", "kube", "commit"}
Locked(d) == \E p \in Slots : Publishing(p) /\ (slot[p].d = d \/ status[d] = "deployed")

Deploying(d) == IF status[d] = "absent" THEN status
                                        ELSE [status EXCEPT ![d] = "deploying"]

\* The update of the row waits for its lock and re-checks the id alone: the
\* status it overwrites may have changed.  Two deployments cannot both become
\* 'deploying' (deployments_unique_deploying): the second statement fails.
SetDeploymentDeploying(p) ==
    /\ At(p, "approve") /\ ~Locked(slot[p].d)
    /\ IF \E e \in Ids \ {slot[p].d} : status[e] = "deploying"
       THEN Ends(p) /\ UNCHANGED status
       ELSE Goto(p, "start") /\ status' = Deploying(slot[p].d)
    /\ UNCHANGED <<nextId, suiteVars, tokens, kubeVars, s3, restarts, faults, overtaken>>

\* The statement commits and its answer is lost: the handler returns an error
\* and starts no run.
PublishAnswerLost(p) ==
    /\ At(p, "approve") /\ ~Locked(slot[p].d)
    /\ \A e \in Ids \ {slot[p].d} : status[e] # "deploying"
    /\ Fault
    /\ status' = Deploying(slot[p].d)
    /\ Ends(p)
    /\ UNCHANGED <<nextId, suiteVars, tokens, kubeVars, s3, restarts, overtaken>>

-------------------------------------------------------------------------------
(* The publish run.  A step that returns an error goes to "fail".            *)

StartRun(p) ==                      \* DeploymentGetById, the configs of its suite
    /\ At(p, "start")
    /\ IF status[slot[p].d] = "absent"
       THEN Goto(p, "fail")
       ELSE slot' = [slot EXCEPT ![p] =
                        [@ EXCEPT !.pc = "migrate", !.cfg = content[slot[p].d]]]
    /\ UNCHANGED <<rowVars, suiteVars, tokens, kubeVars, s3, restarts, faults, overtaken>>

\* One job per migratable actor, named by actor and deployment: a second run of
\* the deployment finds the names taken.
RunMigrations(p) ==
    /\ At(p, "migrate")
    /\ IF slot[p].d \notin Migratable
       THEN Goto(p, "begin") /\ UNCHANGED jobs
       ELSE IF jobs[slot[p].d] = "none"
       THEN Goto(p, "await") /\ jobs' = [jobs EXCEPT ![slot[p].d] = "running"]
       ELSE Goto(p, "fail") /\ UNCHANGED jobs
    /\ UNCHANGED <<rowVars, suiteVars, tokens, cluster, s3, restarts, faults, overtaken>>

MigrationRefused(p) ==              \* an actor without a migration image
    /\ At(p, "migrate") /\ slot[p].d \in Migratable
    /\ Goto(p, "fail")
    /\ UNCHANGED <<rowVars, suiteVars, tokens, kubeVars, s3, restarts, faults, overtaken>>

JobsEnd(d) ==                       \* Kubernetes
    /\ jobs[d] = "running"
    /\ \E r \in {"succeeded", "failed"} : jobs' = [jobs EXCEPT ![d] = r]
    /\ UNCHANGED <<rowVars, suiteVars, tokens, slot, cluster, s3, restarts, faults, overtaken>>

AfterMigrations_ErrorDropped(d) == "begin"
AfterMigrations(d) == IF jobs[d] = "succeeded" THEN "begin" ELSE "fail"

MigrationsEnd(p) ==                 \* the poll; the logs are written either way
    /\ At(p, "await") /\ jobs[slot[p].d] # "running"
    /\ Goto(p, AfterMigrations(slot[p].d))
    /\ UNCHANGED <<rowVars, suiteVars, tokens, kubeVars, s3, restarts, faults, overtaken>>

MayBegin(d) == status[d] = "deploying"

BeginTransaction(p) ==              \* the row is read again
    /\ At(p, "begin")
    /\ Goto(p, IF MayBegin(slot[p].d) THEN "activate" ELSE "fail")
    /\ UNCHANGED <<rowVars, suiteVars, tokens, kubeVars, s3, restarts, faults, overtaken>>

\* ConfigSuiteActivate locks the suites it changes; another run's waits for
\* the end of that transaction, whose suite is the same, or is rolled back.
Activating == \E p \in Slots : At(p, "publish") \/ Publishing(p)

ConfigSuiteActivate(p) ==
    /\ At(p, "activate") /\ ~Activating
    /\ Goto(p, "publish")
    /\ UNCHANGED <<rowVars, suiteVars, tokens, kubeVars, s3, restarts, faults, overtaken>>

\* A deployment that is 'deployed' already is retired by the statement that
\* should publish it.
DeploymentPublish(p) ==
    /\ At(p, "publish")
    /\ Goto(p, IF status[slot[p].d] = "deploying" THEN "store" ELSE "fail")
    /\ UNCHANGED <<rowVars, suiteVars, tokens, kubeVars, s3, restarts, faults, overtaken>>

\* The suite activated and its configs, read again inside the transaction.
StoredSuite_BeforeActivation(p) == IF active = {} THEN slot[p].d ELSE Newest(active)
StoredSuite(p) == slot[p].d
SuiteObject(p) == [d |-> StoredSuite(p), cfg |-> content[StoredSuite(p)]]

PublishToS3(p) ==
    /\ At(p, "store")
    /\ s3' = SuiteObject(p)
    /\ Goto(p, "rotate")
    /\ UNCHANGED <<rowVars, suiteVars, tokens, kubeVars, restarts, faults, overtaken>>

-------------------------------------------------------------------------------
(* rotateActorApiKeys and updateKubernetesDeployments, for runs and restarts *)

KeysInUse == tokens \cup {cluster.key}
                    \cup UNION {slot[p].seen \cup {slot[p].key} : p \in Slots}
Restarting(p) == slot[p].pc \in RestartPC

\* ApiTokenRotate: the tokens in the statement's snapshot will expire; their row
\* locks, held until the commit, make the statement of another rotation wait.
HoldsTokens(q) == slot[q].pc \in {"kube", "commit", "re_kube", "re_commit"}
RotationWaits(p, seen) ==
    \E q \in Slots \ {p} : HoldsTokens(q) /\ slot[q].seen \cap seen # {}

Rotating(p, waits) ==
    CASE waits                      -> IF Restarting(p) THEN "re_rotating" ELSE "rotating"
      [] ~waits /\ Restarting(p)    -> "re_kube"
      [] ~waits /\ ~Restarting(p)   -> "kube"

RotateKeys(p) ==
    /\ slot[p].pc \in {"rotate", "re_rotate"}
    /\ \E k \in Keys \ KeysInUse :
           /\ \A j \in Keys \ KeysInUse : k <= j
           /\ slot' = [slot EXCEPT ![p] =
                  [@ EXCEPT !.pc = Rotating(p, RotationWaits(p, tokens)),
                            !.key = k, !.seen = tokens]]
    /\ UNCHANGED <<rowVars, suiteVars, tokens, kubeVars, s3, restarts, faults, overtaken>>

RotateDone(p) ==
    /\ slot[p].pc \in {"rotating", "re_rotating"}
    /\ ~RotationWaits(p, slot[p].seen)
    /\ Goto(p, Rotating(p, FALSE))
    /\ UNCHANGED <<rowVars, suiteVars, tokens, kubeVars, s3, restarts, faults, overtaken>>

\* The configs rolled out are those read before the migrations.
RolledOut(p) == [d |-> slot[p].d, cfg |-> slot[p].cfg, key |-> slot[p].key]

\* A restart that passed its test of the status, and whose deployment is being,
\* or has been, replaced since.
Overtaken(p) == Restarting(p) /\ (\/ status[slot[p].d] # "deployed"
                                  \/ \E q \in Slots : At(q, "commit"))

UpdateKubernetes(p) ==
    /\ slot[p].pc \in {"kube", "re_kube"}
    /\ cluster' = RolledOut(p)
    /\ overtaken' = IF Overtaken(p) THEN overtaken \cup {"restart"} ELSE overtaken
    /\ Goto(p, IF Restarting(p) THEN "re_commit" ELSE "commit")
    /\ UNCHANGED <<rowVars, suiteVars, tokens, jobs, s3, restarts, faults>>

-------------------------------------------------------------------------------
(* The end of a run *)

Activated_Added(d) == active \cup {d}
Activated(d)       == {d}                   \* the others are deactivated

Stamped(d) == deployedAt \cup {d}

Published(d) == [e \in Ids |-> CASE e = d                        -> "deployed"
                                 [] e # d /\ status[e] = "deployed" -> "retired"
                                 [] OTHER                        -> status[e]]

Rotated_Uncommitted(p) == tokens \ slot[p].seen
Rotated(p) == (tokens \ slot[p].seen) \cup {slot[p].key}

Commits(p) ==                       \* what the transaction wrote is in the tables
    /\ At(p, "commit")
    /\ active' = Activated(slot[p].d)
    /\ deployedAt' = Stamped(slot[p].d)
    /\ status' = Published(slot[p].d)
    /\ tokens' = Rotated(p)
    /\ UNCHANGED <<nextId, content, kubeVars, s3, restarts, overtaken>>

Commit(p) == Commits(p) /\ Ends(p) /\ UNCHANGED faults

\* The commit succeeds and its answer is lost: the run records an error of what
\* it has deployed.
CommitAnswerLost(p) == Commits(p) /\ Goto(p, "fail") /\ Fault

\* A statement, the store or Kubernetes fails, the 120 seconds are over, or the
\* commit fails: the transaction is rolled back, S3 and the cluster are not.
RunFails(p) ==
    /\ slot[p].pc \in RunPC
    /\ Fault
    /\ cluster' \in IF At(p, "kube") THEN {cluster, RolledOut(p)} ELSE {cluster}
    /\ s3' \in IF At(p, "store") THEN {s3, SuiteObject(p)} ELSE {s3}
    /\ Goto(p, "fail")
    /\ UNCHANGED <<rowVars, suiteVars, tokens, jobs, restarts, overtaken>>

AfterFailure_Unrecorded(d) == status
AfterFailure(d) == IF status[d] = "absent" THEN status ELSE [status EXCEPT ![d] = "failed"]

RecordError(p) ==                   \* UpdateDeploymentLastError, whatever the status
    /\ At(p, "fail") /\ ~Locked(slot[p].d)
    /\ status' = AfterFailure(slot[p].d)
    /\ Ends(p)
    /\ UNCHANGED <<nextId, suiteVars, tokens, kubeVars, s3, restarts, faults, overtaken>>

RecordErrorFails(p) ==              \* only logged
    /\ At(p, "fail")
    /\ Fault
    /\ Ends(p)
    /\ UNCHANGED <<rowVars, suiteVars, tokens, kubeVars, s3, restarts, overtaken>>

-------------------------------------------------------------------------------
(* RestartDeployment: the deployed configs again, with new keys, in one      *)
(* transaction that locks nothing but the tokens.                            *)

RestartDeployment(p, d) ==          \* the row and the configs of its suite
    /\ status[d] = "deployed" /\ restarts < MaxRestarts
    /\ restarts' = restarts + 1
    /\ At(p, "idle")
    /\ slot' = [slot EXCEPT ![p] =
                   [Idle EXCEPT !.pc = "re_rotate", !.d = d, !.cfg = content[d]]]
    /\ UNCHANGED <<rowVars, suiteVars, tokens, kubeVars, s3, faults, overtaken>>

RestartCommit(p) ==
    /\ At(p, "re_commit")
    /\ tokens' = Rotated(p)
    /\ Ends(p)
    /\ UNCHANGED <<rowVars, suiteVars, kubeVars, s3, restarts, faults, overtaken>>

RestartFails(p) ==                  \* an error, or the commit whose error is dropped
    /\ Restarting(p)
    /\ Fault
    /\ cluster' \in IF At(p, "re_kube") THEN {cluster, RolledOut(p)} ELSE {cluster}
    /\ Ends(p)
    /\ UNCHANGED <<rowVars, suiteVars, tokens, jobs, s3, restarts, overtaken>>

Crash ==                            \* requests, runs and their transactions are gone
    /\ Fault
    /\ slot' = [p \in Slots |-> Idle]
    /\ UNCHANGED <<rowVars, suiteVars, tokens, kubeVars, s3, restarts, overtaken>>

-------------------------------------------------------------------------------
Request ==
    \/ CreateDeployment
    \/ \E d \in Ids : \/ CloneDeployment(d) \/ SubmitDeployment(d)
                      \/ RejectDeployment(d) \/ DeleteDeployment(d)
    \/ \E p \in Slots, d \in Ids :
           UpdateConfig(p, d) \/ PublishDeployment(p, d) \/ RestartDeployment(p, d)

RunStep(p) ==
    \/ StartRun(p) \/ RunMigrations(p) \/ MigrationRefused(p) \/ MigrationsEnd(p)
    \/ BeginTransaction(p) \/ ConfigSuiteActivate(p) \/ DeploymentPublish(p)
    \/ PublishToS3(p) \/ Commit(p) \/ RecordError(p)

SlotStep(p) ==
    \/ WriteConfig(p) \/ SetDeploymentDeploying(p)
    \/ RunStep(p)
    \/ RotateKeys(p) \/ RotateDone(p) \/ UpdateKubernetes(p)
    \/ RestartCommit(p)

Failure ==
    \/ \E p \in Slots : \/ PublishAnswerLost(p) \/ CommitAnswerLost(p) \/ RunFails(p)
                        \/ RecordErrorFails(p) \/ RestartFails(p)
    \/ Crash

Next == Request \/ (\E p \in Slots : SlotStep(p)) \/ (\E d \in Ids : JobsEnd(d)) \/ Failure

\* Goroutines keep running, and a job ends (if it does not, the 120 seconds of
\* the run do).
Spec == /\ Init /\ [][Next]_vars
        /\ \A p \in Slots : WF_vars(SlotStep(p))
        /\ \A d \in Ids : WF_vars(JobsEnd(d))

-------------------------------------------------------------------------------
(* Safety *)

\* The deployed deployment is the only one, and its suite is the only active
\* one, whatever publishes, restarts and failures overlap (ConfigSuiteActivate
\* and DeploymentPublish in one transaction).
DeployedIsActive ==
    \A d \in Ids : status[d] = "deployed" =>
        active = {d} /\ \A e \in Ids \ {d} : status[e] # "deployed"

\* Nothing is deployed whose migrations have not all succeeded, whichever of
\* several runs of the deployment published it (runDeploymentMigrations before
\* the transaction).
DeployedWasMigrated ==
    \A d \in deployedAt \cap Migratable : jobs[d] = "succeeded"

Quiet == \A p \in Slots : At(p, "idle")

\* Once nothing is in flight, and if nothing failed, the agents in the cluster
\* hold an API key that is in the tokens table and not about to expire,
\* however rotations overlapped (rotateActorApiKeys, updateKubernetesDeployments).
ClusterKeysAreKnown ==
    Quiet /\ faults = 0 /\ cluster.d # NoId => cluster.key \in tokens

\* What GetCallerConfig answers: the config of the active suite, else that of
\* the newest suite that was active.
ActiveConfig  == {content[d] : d \in active}
RetiredConfig == {content[d] : d \in {e \in deployedAt \ active :
                                         \A f \in deployedAt \ active : f <= e}}
Served == IF ActiveConfig # {} THEN ActiveConfig ELSE RetiredConfig

\* Once nothing is in flight, and if nothing failed, the deployed deployment is
\* the one in S3; unless a publish overtook a restart, the one in the cluster;
\* and unless configs were edited behind a run that had read them, both have
\* the configs the API serves (publishConfigSuiteToS3, updateKubernetesDeployments,
\* GetActorConfig).
PublishedEverywhere ==
    Quiet /\ faults = 0 =>
        \A d \in Ids : status[d] = "deployed" =>
            /\ s3.d = d
            /\ "restart" \notin overtaken => cluster.d = d
            /\ overtaken = {} => Served = {s3.cfg} /\ Served = {cluster.cfg}

\* At most one publish run is in flight ("it also checks if there are no other
\* deploying deployments", SetDeploymentDeploying).
OneRunAtATime ==
    \A p, q \in Slots : slot[p].pc \in RunPC /\ slot[q].pc \in RunPC => p = q

-------------------------------------------------------------------------------
(* Liveness *)

\* Unless something fails, no deployment stays 'deploying': its run publishes it
\* or records an error (runDeploymentMigrationsAndUpdateDeployment), also when
\* two runs meet.
RunsEnd ==
    (\E d \in Ids : status[d] = "deploying")
        ~> (\A d \in Ids : status[d] # "deploying") \/ faults > 0
===============================================================================

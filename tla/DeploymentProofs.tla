--------------------------- MODULE DeploymentProofs ---------------------------
(***************************************************************************)
(* Proofs about Deployment for every number of requests in flight,         *)
(* deployments, API tokens, restarts and faults: every invariant of the    *)
(* module follows from IInv, which says what each request in flight has    *)
(* already seen to.                                                        *)
(***************************************************************************)
EXTENDS Deployment, TLAPS

-------------------------------------------------------------------------------
(* The inductive invariant *)

\* A request in flight is about a suite that exists.
SlotInv == \A p \in Slots :
    slot[p].pc # "idle" => slot[p].d \in Ids /\ slot[p].d < nextId

\* One suite is active at most, and a suite that was deployed exists.
ActiveInv ==
    /\ active = {} \/ \E d \in Ids : active = {d}
    /\ \A d \in deployedAt : d < nextId

\* Whoever is past the migrations has seen those of its deployment succeed.
Migrated == {"begin", "activate", "publish", "store", "rotate", "rotating", "kube", "commit"}
MigrationsInv == \A p \in Slots :
    slot[p].pc \in Migrated /\ slot[p].d \in Migratable => jobs[slot[p].d] = "succeeded"

\* One run at a time is past ConfigSuiteActivate: it holds the suites' locks.
Exclusive == {"publish", "store", "rotate", "rotating", "kube", "commit"}
OnePublishes == \A p, q \in Slots :
    slot[p].pc \in Exclusive /\ slot[q].pc \in Exclusive => p = q

\* A new key is nobody else's, and no snapshot holds it, until it is committed.
NewKey == {"rotating", "kube", "commit", "re_rotating", "re_kube", "re_commit"}
KeyInv == \A p \in Slots : slot[p].pc \in NewKey =>
    /\ slot[p].key \in Keys \ tokens
    /\ \A q \in Slots : slot[p].key \notin slot[q].seen
    /\ \A q \in Slots \ {p} : slot[q].pc \in NewKey => slot[q].key # slot[p].key

\* Without faults, the key in the cluster is committed or about to be, and no
\* rotation about to commit lets it expire.
RolledOutPC == {"commit", "re_commit"}
ClusterInv == faults = 0 =>
    /\ cluster.d # NoId =>
           \/ cluster.key \in tokens
           \/ \E p \in Slots : slot[p].pc \in RolledOutPC /\ slot[p].key = cluster.key
    /\ \A p \in Slots : slot[p].pc \in RolledOutPC => cluster.key \notin slot[p].seen

\* What was read of a suite's configs is what they are, unless they were edited
\* behind the reader.
Reads == (RunPC \cup RestartPC) \ {"start"}
ReadInv == overtaken = {} =>
    \A p \in Slots : slot[p].pc \in Reads => slot[p].cfg = content[slot[p].d]

\* Without faults, S3 and the cluster hold the deployment of the run that is
\* past writing them, and otherwise the deployed one.
InS3(d)      == s3.d = d /\ (overtaken = {} => s3.cfg = content[d])
InCluster(d) == /\ "restart" \notin overtaken => cluster.d = d
                /\ overtaken = {} => cluster.cfg = content[d]
StoredPC == {"rotate", "rotating", "kube", "commit"}
StoreInv == faults = 0 =>
    /\ \A p \in Slots : slot[p].pc \in StoredPC => InS3(slot[p].d)
    /\ (\A p \in Slots : slot[p].pc \notin StoredPC)
           => \A d \in Ids : status[d] = "deployed" => InS3(d)
RolloutInv == faults = 0 =>
    /\ \A p \in Slots : At(p, "commit") => InCluster(slot[p].d)
    /\ (\A p \in Slots : ~At(p, "commit"))
           => \A d \in Ids : status[d] = "deployed" => InCluster(d)

IInv == /\ TypeOK /\ SlotInv /\ ActiveInv /\ MigrationsInv /\ OnePublishes
        /\ KeyInv /\ ClusterInv /\ ReadInv /\ StoreInv /\ RolloutInv
        /\ DeployedIsActive /\ DeployedWasMigrated

-------------------------------------------------------------------------------
(* How the slots move *)

\* Everyone but p stands where it stood; p holds what it held.
Stays(p)    == \A q \in Slots \ {p} : slot'[q] = slot[q]
SameJob(p)  == /\ slot'[p].d = slot[p].d /\ slot'[p].cfg = slot[p].cfg
               /\ slot'[p].key = slot[p].key /\ slot'[p].seen = slot[p].seen
SlotTyped   == slot \in [Slots -> Slot]

\* The fields of a slot.
LEMMA SlotFields ==
    ASSUME SlotTyped, NEW p \in Slots
    PROVE  /\ slot[p].pc \in SlotPC /\ slot[p].d \in Ids \cup {NoId}
           /\ slot[p].cfg \in Contents /\ slot[p].key \in Keys \cup {NoKey}
           /\ slot[p].seen \subseteq Keys
BY DEF SlotTyped, Slot

\* A slot nobody uses.
LEMMA IdleIsASlot ==
    /\ Idle \in Slot /\ Idle.pc = "idle" /\ Idle.seen = {} /\ Idle.key = NoKey /\ Idle.d = NoId
BY ContentsAssumption DEF Idle, Slot, SlotPC

\* A request goes on (Goto), ends (Ends) or begins (Begins) in its slot alone.
LEMMA GotoMoves ==
    ASSUME SlotTyped, NEW p \in Slots, NEW x \in SlotPC, Goto(p, x)
    PROVE  SlotTyped' /\ Stays(p) /\ SameJob(p) /\ slot'[p].pc = x
<1>1. [slot[p] EXCEPT !.pc = x] \in Slot
  BY DEF SlotTyped, Slot
<1>2. /\ [slot[p] EXCEPT !.pc = x].pc = x /\ [slot[p] EXCEPT !.pc = x].d = slot[p].d
      /\ [slot[p] EXCEPT !.pc = x].cfg = slot[p].cfg /\ [slot[p] EXCEPT !.pc = x].key = slot[p].key
      /\ [slot[p] EXCEPT !.pc = x].seen = slot[p].seen
  BY DEF SlotTyped, Slot
<1> QED  BY <1>1, <1>2 DEF Goto, SlotTyped, Stays, SameJob

\* A request that returns frees its slot.
LEMMA EndsMoves ==
    ASSUME SlotTyped, NEW p \in Slots, Ends(p)
    PROVE  SlotTyped' /\ Stays(p) /\ slot'[p] = Idle
BY IdleIsASlot DEF Ends, SlotTyped, Stays

\* A slot that a request has just taken.
LEMMA FreshSlots ==
    \A d \in Ids, x \in SlotPC, c \in Contents :
       /\ [Idle EXCEPT !.pc = x, !.d = d] \in Slot
       /\ [Idle EXCEPT !.pc = x, !.d = d].pc = x
       /\ [Idle EXCEPT !.pc = x, !.d = d].d = d
       /\ [Idle EXCEPT !.pc = x, !.d = d].seen = {}
       /\ [Idle EXCEPT !.pc = x, !.d = d, !.cfg = c] \in Slot
       /\ [Idle EXCEPT !.pc = x, !.d = d, !.cfg = c].pc = x
       /\ [Idle EXCEPT !.pc = x, !.d = d, !.cfg = c].d = d
       /\ [Idle EXCEPT !.pc = x, !.d = d, !.cfg = c].cfg = c
       /\ [Idle EXCEPT !.pc = x, !.d = d, !.cfg = c].seen = {}
<1> TAKE d \in Ids, x \in SlotPC, c \in Contents
<1>1. Idle \in Slot /\ Idle.seen = {}
  BY IdleIsASlot
<1> QED  BY <1>1 DEF Slot

\* Whatever is put into one slot leaves the others as they are.
LEMMA SetMoves ==
    ASSUME SlotTyped, NEW p \in Slots, NEW n \in Slot, slot' = [slot EXCEPT ![p] = n]
    PROVE  SlotTyped' /\ Stays(p) /\ slot'[p] = n
BY DEF SlotTyped, Stays

\* The steps that bring a request nearer to what it writes.
Advances(p) ==
    \/ StartRun(p) \/ RunMigrations(p) \/ MigrationsEnd(p) \/ BeginTransaction(p)
    \/ ConfigSuiteActivate(p) \/ DeploymentPublish(p) \/ PublishToS3(p)
    \/ RotateKeys(p) \/ RotateDone(p) \/ UpdateKubernetes(p)
    \/ \E d \in Ids : RestartDeployment(p, d)

\* All others leave a slot as it is or at a place where it has seen to nothing.
Settled == {"idle", "edit", "approve", "start", "fail"}
Settles == \A q \in Slots :
    \/ slot'[q] = slot[q]
    \/ /\ slot'[q].pc \in Settled /\ slot'[q].seen \in {slot[q].seen, {}}
       /\ slot'[q].pc # "idle" => slot'[q].d \in Ids /\ slot'[q].d < nextId

\* Every step of the module is of one of the two kinds.
LEMMA SlotSteps ==
    ASSUME TypeOK, SlotInv, [Next]_vars
    PROVE  SlotTyped' /\ (Settles \/ \E p \in Slots : Advances(p))
<1>1. SlotTyped
  BY DEF TypeOK, SlotTyped
<1>2. ASSUME UNCHANGED slot PROVE SlotTyped' /\ Settles
  BY <1>1, <1>2 DEF SlotTyped, Settles
<1>3. ASSUME NEW p \in Slots, Ends(p) PROVE SlotTyped' /\ Settles
  BY <1>1, <1>3, EndsMoves, IdleIsASlot DEF Stays, Settles, Settled
<1>4. ASSUME NEW p \in Slots, NEW x \in {"start", "fail"}, Goto(p, x), slot[p].pc # "idle"
      PROVE SlotTyped' /\ Settles
  BY <1>1, <1>4, GotoMoves DEF SlotInv, Stays, SameJob, Settles, Settled, SlotPC, RunPC
<1>5. ASSUME NEW p \in Slots, NEW d \in Ids, d < nextId, NEW x \in SlotPC, x \in Settled,
             Begins(p, x, d)
      PROVE SlotTyped' /\ Settles
  <2>1. slot' = [slot EXCEPT ![p] = [Idle EXCEPT !.pc = x, !.d = d]]
    BY <1>5 DEF Begins
  <2>2. /\ [Idle EXCEPT !.pc = x, !.d = d] \in Slot
        /\ [Idle EXCEPT !.pc = x, !.d = d].pc = x
        /\ [Idle EXCEPT !.pc = x, !.d = d].d = d
        /\ [Idle EXCEPT !.pc = x, !.d = d].seen = {}
    BY FreshSlots, ContentsAssumption
  <2>3. SlotTyped' /\ Stays(p) /\ slot'[p] = [Idle EXCEPT !.pc = x, !.d = d]
    BY <1>1, <2>1, <2>2, SetMoves
  <2>4. slot'[p].pc = x /\ slot'[p].d = d /\ slot'[p].seen = {}
    BY <2>2, <2>3
  <2> QED  BY <1>5, <2>3, <2>4 DEF Stays, Settles
<1>6. ASSUME NEW p \in Slots, NEW d \in Ids, UpdateConfig(p, d) PROVE SlotTyped' /\ Settles
  BY <1>5, <1>6 DEF UpdateConfig, SlotPC, Settled
<1>7. ASSUME NEW p \in Slots, NEW d \in Ids, PublishDeployment(p, d) PROVE SlotTyped' /\ Settles
  BY <1>5, <1>7 DEF PublishDeployment, MayPublish, TypeOK, Ids, SlotPC, Settled
<1>8. ASSUME NEW p \in Slots, SetDeploymentDeploying(p) PROVE SlotTyped' /\ Settles
  BY <1>3, <1>4, <1>8 DEF SetDeploymentDeploying, At
<1>9. ASSUME NEW p \in Slots, 
             MigrationRefused(p) \/ RunFails(p) \/ CommitAnswerLost(p)
      PROVE SlotTyped' /\ Settles
  BY <1>4, <1>9 DEF MigrationRefused, RunFails, CommitAnswerLost, Commits, At, RunPC
<1>10. ASSUME NEW p \in Slots,
              \/ WriteConfig(p) \/ PublishAnswerLost(p) \/ Commit(p) \/ RecordError(p)
              \/ RecordErrorFails(p) \/ RestartCommit(p) \/ RestartFails(p)
       PROVE SlotTyped' /\ Settles
  BY <1>3, <1>10 DEF WriteConfig, PublishAnswerLost, Commit, RecordError, RecordErrorFails,
                     RestartCommit, RestartFails
<1>11. ASSUME Crash PROVE SlotTyped' /\ Settles
  BY <1>11, IdleIsASlot DEF Crash, SlotTyped, Settles, Settled
<1>12. ASSUME NEW p \in Slots, Advances(p) PROVE SlotTyped'
  <2>1. ASSUME NEW x \in SlotPC, Goto(p, x) PROVE SlotTyped'
    BY <1>1, <2>1, GotoMoves
  <2>2. CASE StartRun(p)
    <3>1. CASE Goto(p, "fail")
      BY <2>1, <3>1 DEF SlotPC
    <3>2. CASE slot' = [slot EXCEPT ![p] = [@ EXCEPT !.pc = "migrate", !.cfg = content[slot[p].d]]]
      <4>1. content[slot[p].d] \in Contents
        BY <2>2 DEF StartRun, At, SlotInv, TypeOK
      <4>2. [slot[p] EXCEPT !.pc = "migrate", !.cfg = content[slot[p].d]] \in Slot
        BY <1>1, <4>1 DEF SlotTyped, Slot, SlotPC, RunPC
      <4> QED  BY <1>1, <3>2, <4>2 DEF SlotTyped
    <3> QED  BY <2>2, <3>1, <3>2 DEF StartRun
  <2>3. CASE RotateKeys(p)
    <3>1. PICK k \in Keys : slot' = [slot EXCEPT ![p] =
                  [@ EXCEPT !.pc = Rotating(p, RotationWaits(p, tokens)), !.key = k, !.seen = tokens]]
      BY <2>3 DEF RotateKeys
    <3>2. Rotating(p, RotationWaits(p, tokens)) \in SlotPC /\ tokens \subseteq Keys
      BY DEF Rotating, SlotPC, RunPC, RestartPC, TypeOK
    <3>3. [slot[p] EXCEPT !.pc = Rotating(p, RotationWaits(p, tokens)), !.key = k, !.seen = tokens] \in Slot
      BY <1>1, <3>2 DEF SlotTyped, Slot
    <3> QED  BY <1>1, <3>1, <3>3 DEF SlotTyped
  <2>4. CASE RotateDone(p)
    BY <2>1, <2>4 DEF RotateDone, Rotating, SlotPC, RunPC, RestartPC
  <2>5. ASSUME NEW d \in Ids, RestartDeployment(p, d) PROVE SlotTyped'
    <3>1. content[d] \in Contents /\ "re_rotate" \in SlotPC
      BY DEF TypeOK, SlotPC, RestartPC
    <3> QED  BY <1>1, <2>5, <3>1, FreshSlots, SetMoves DEF RestartDeployment
  <2>6. CASE RunMigrations(p) \/ MigrationsEnd(p) \/ BeginTransaction(p) \/ ConfigSuiteActivate(p)
    BY <2>1, <2>6 DEF RunMigrations, MigrationsEnd, BeginTransaction, ConfigSuiteActivate,
                      AfterMigrations, SlotPC, RunPC
  <2>7. CASE DeploymentPublish(p) \/ PublishToS3(p) \/ UpdateKubernetes(p)
    BY <2>1, <2>7 DEF DeploymentPublish, PublishToS3, UpdateKubernetes, SlotPC, RunPC, RestartPC
  <2> QED  BY <1>12, <2>2, <2>3, <2>4, <2>5, <2>6, <2>7 DEF Advances
<1>13. ASSUME \/ CreateDeployment
              \/ \E d \in Ids : \/ CloneDeployment(d) \/ SubmitDeployment(d)
                                \/ RejectDeployment(d) \/ DeleteDeployment(d) \/ JobsEnd(d)
       PROVE SlotTyped' /\ Settles
  BY <1>2, <1>13 DEF CreateDeployment, CloneDeployment, Created, SubmitDeployment,
                     RejectDeployment, DeleteDeployment, JobsEnd
<1>14. CASE UNCHANGED vars
  BY <1>2, <1>14 DEF vars
<1> QED
  BY <1>6, <1>7, <1>8, <1>9, <1>10, <1>11, <1>12, <1>13, <1>14
  DEF Next, Request, SlotStep, RunStep, Failure, Advances

-------------------------------------------------------------------------------
(* Who writes what *)

\* The statements that write a row of deployments.
LEMMA StatusWriters ==
    ASSUME [Next]_vars
    PROVE  \/ UNCHANGED rowVars
           \/ CreateDeployment
           \/ \E d \in Ids : \/ CloneDeployment(d) \/ SubmitDeployment(d)
                             \/ RejectDeployment(d) \/ DeleteDeployment(d)
           \/ \E p \in Slots : \/ SetDeploymentDeploying(p) \/ PublishAnswerLost(p)
                               \/ Commits(p) \/ RecordError(p)
BY DEF Next, Commit, CommitAnswerLost, Request, SlotStep, RunStep, Failure, vars, rowVars, UpdateConfig, PublishDeployment,
      RestartDeployment, WriteConfig, StartRun, RunMigrations, MigrationRefused, MigrationsEnd,
      BeginTransaction, ConfigSuiteActivate, DeploymentPublish, PublishToS3, RotateKeys,
      RotateDone, UpdateKubernetes, RestartCommit, RunFails, RecordErrorFails, RestartFails,
      Crash, JobsEnd

\* Suites, their configs, and who commits.
LEMMA SuiteWriters ==
    ASSUME [Next]_vars
    PROVE  \/ UNCHANGED suiteVars
           \/ CreateDeployment \/ \E d \in Ids : CloneDeployment(d)
           \/ \E p \in Slots : WriteConfig(p) \/ Commits(p)
BY DEF Next, Commit, CommitAnswerLost, Request, SlotStep, RunStep, Failure, vars, suiteVars, SubmitDeployment,
   RejectDeployment, DeleteDeployment, SetDeploymentDeploying, PublishAnswerLost, RecordError,
   UpdateConfig, PublishDeployment, RestartDeployment, StartRun, RunMigrations,
   MigrationRefused, MigrationsEnd, BeginTransaction, ConfigSuiteActivate, DeploymentPublish,
   PublishToS3, RotateKeys, RotateDone, UpdateKubernetes, RestartCommit, RunFails,
   RecordErrorFails, RestartFails, Crash, JobsEnd

\* Tokens change when a rotation commits.
LEMMA TokenWriters ==
    ASSUME [Next]_vars
    PROVE  \/ UNCHANGED tokens
           \/ \E p \in Slots : Commit(p) \/ CommitAnswerLost(p) \/ RestartCommit(p)
BY DEF Next, Request, SlotStep, RunStep, Failure, vars, Created, CreateDeployment,
   CloneDeployment, SubmitDeployment, RejectDeployment, DeleteDeployment,
   SetDeploymentDeploying, PublishAnswerLost, RecordError, UpdateConfig, PublishDeployment,
   WriteConfig, RestartDeployment, StartRun, RunMigrations, MigrationRefused, MigrationsEnd,
   BeginTransaction, ConfigSuiteActivate, DeploymentPublish, PublishToS3, RotateKeys,
   RotateDone, UpdateKubernetes, RunFails, RecordErrorFails, RestartFails, Crash, JobsEnd

\* Jobs are started by a run and ended by Kubernetes.
LEMMA JobWriters ==
    ASSUME [Next]_vars
    PROVE  UNCHANGED jobs \/ (\E p \in Slots : RunMigrations(p)) \/ \E d \in Ids : JobsEnd(d)
BY DEF Next, Request, SlotStep, RunStep, Failure, vars, kubeVars, Created, CreateDeployment,
   CloneDeployment, SubmitDeployment, RejectDeployment, DeleteDeployment, Commits, Commit,
   CommitAnswerLost,
   SetDeploymentDeploying, PublishAnswerLost, RecordError, UpdateConfig, PublishDeployment,
   WriteConfig, RestartDeployment, StartRun, MigrationRefused, MigrationsEnd, BeginTransaction,
   ConfigSuiteActivate, DeploymentPublish, PublishToS3, RotateKeys, RotateDone,
   UpdateKubernetes, RestartCommit, RunFails, RecordErrorFails, RestartFails, Crash

\* What the cluster runs and what S3 holds, and what else a failing step writes.
LEMMA OutsideWriters ==
    ASSUME [Next]_vars
    PROVE  /\ cluster' = cluster \/ \E p \in Slots : UpdateKubernetes(p) \/ RunFails(p)
                  \/ RestartFails(p)
           /\ s3' = s3 \/ \E p \in Slots : PublishToS3(p) \/ RunFails(p)
           /\ overtaken' = overtaken \/ \E p \in Slots : UpdateKubernetes(p) \/ WriteConfig(p)
           /\ faults' = faults \/ Fault
           /\ restarts' = restarts \/ \E p \in Slots, d \in Ids : RestartDeployment(p, d)
BY DEF Next, Request, SlotStep, RunStep, Failure, vars, kubeVars, Created, CreateDeployment,
   CloneDeployment, SubmitDeployment, RejectDeployment, DeleteDeployment, Commits, Commit,
   CommitAnswerLost,
   SetDeploymentDeploying, PublishAnswerLost, RecordError, UpdateConfig, PublishDeployment,
   WriteConfig, RunMigrations, RestartDeployment, StartRun, MigrationRefused, MigrationsEnd,
   BeginTransaction, ConfigSuiteActivate, DeploymentPublish, PublishToS3, RotateKeys,
   RotateDone, UpdateKubernetes, RestartCommit, RunFails, RecordErrorFails, RestartFails, Crash,
   JobsEnd

-------------------------------------------------------------------------------
(* Types, and the suites that exist *)

\* Suites and deployments are created in order, and a status has its type.
LEMMA RowStep ==
    ASSUME TypeOK, SlotInv, [Next]_vars
    PROVE  /\ nextId' \in 1 .. MaxDeployments + 1 /\ nextId' >= nextId
           /\ status' \in [Ids -> Status]
           /\ \A d \in Ids : d >= nextId' => status'[d] = "absent"
<1> USE DeploymentBounds DEF Ids, Status
<1>1. nextId \in 1 .. MaxDeployments + 1 /\ status \in [Ids -> Status]
      /\ \A d \in Ids : d >= nextId => status[d] = "absent"
  BY DEF TypeOK
<1>2. CASE UNCHANGED rowVars
  BY <1>1, <1>2 DEF rowVars
<1>3. CASE CreateDeployment \/ \E d \in Ids : CloneDeployment(d)
  BY <1>1, <1>3 DEF CreateDeployment, CloneDeployment, Created
<1>4. CASE \E d \in Ids : SubmitDeployment(d) \/ RejectDeployment(d) \/ DeleteDeployment(d)
  BY <1>1, <1>4 DEF SubmitDeployment, RejectDeployment, DeleteDeployment, Submitted, Rejected,
                    Deleted
<1>5. ASSUME NEW p \in Slots,
             SetDeploymentDeploying(p) \/ PublishAnswerLost(p) \/ RecordError(p)
      PROVE  /\ nextId' = nextId
             /\ \E x \in {"deploying", "failed"} : 
                  status' \in {status, [status EXCEPT ![slot[p].d] = x]}
             /\ slot[p].pc # "idle"
  BY <1>5 DEF SetDeploymentDeploying, PublishAnswerLost, RecordError, Deploying, AfterFailure, At
<1>6. ASSUME NEW p \in Slots,
             SetDeploymentDeploying(p) \/ PublishAnswerLost(p) \/ RecordError(p)
      PROVE  /\ nextId' = nextId /\ status' \in [Ids -> Status]
             /\ \A d \in Ids : d >= nextId' => status'[d] = "absent"
  BY <1>1, <1>5, <1>6 DEF SlotInv
<1>7. ASSUME NEW p \in Slots, Commits(p)
      PROVE  /\ nextId' = nextId /\ status' \in [Ids -> Status]
             /\ \A d \in Ids : d >= nextId' => status'[d] = "absent"
  BY <1>1, <1>7 DEF Commits, At, Published, SlotInv
<1> QED
  BY <1>1, <1>2, <1>3, <1>4, <1>6, <1>7, StatusWriters

\* A suite becomes active when its run commits, and is the only one then.
LEMMA SuiteStep ==
    ASSUME TypeOK, SlotInv, ActiveInv, [Next]_vars
    PROVE  /\ content' \in [Ids -> Contents]
           /\ active' \subseteq deployedAt' /\ deployedAt' \subseteq Ids
           /\ ActiveInv'
<1>1. /\ content \in [Ids -> Contents] /\ active \subseteq deployedAt /\ deployedAt \subseteq Ids
      /\ nextId \in Nat /\ nextId' \in Nat /\ nextId' >= nextId /\ \A d \in Ids : d \in Nat
  BY RowStep, DeploymentBounds DEF TypeOK, Ids
<1>2. CASE UNCHANGED suiteVars
  BY <1>1, <1>2 DEF suiteVars, ActiveInv
<1>3. ASSUME NEW c \in Contents, Created(c)
      PROVE  content' \in [Ids -> Contents] /\ UNCHANGED <<active, deployedAt>>
  BY <1>1, <1>3 DEF Created
<1>4. InitialContent \in Contents
  <2>1. active # {} => content[Newest(active)] \in Contents
    <3>1. ASSUME NEW d \in Ids, active = {d} PROVE Newest(active) = d
      <4>1. \A e \in {d} : e <= d
        BY <1>1
      <4>2. (CHOOSE x \in {d} : \A e \in {d} : e <= x) \in {d}
        BY <4>1
      <4> QED  BY <3>1, <4>2 DEF Newest
    <3> QED  BY <1>1, <3>1 DEF ActiveInv
  <2>2. nextId > 1 => content[nextId - 1] \in Contents
    BY <1>1, DeploymentBounds DEF TypeOK, Ids
  <2> QED  BY <2>1, <2>2, ContentsAssumption DEF InitialContent
<1>5. CASE CreateDeployment \/ \E d \in Ids : CloneDeployment(d)
  BY <1>1, <1>3, <1>4, <1>5 DEF CreateDeployment, CloneDeployment, ActiveInv
<1>6. ASSUME NEW p \in Slots, WriteConfig(p)
      PROVE  content' \in [Ids -> Contents] /\ UNCHANGED <<active, deployedAt>>
  BY <1>1, <1>6 DEF WriteConfig
<1>7. ASSUME NEW p \in Slots, Commits(p)
      PROVE  /\ content' = content /\ slot[p].d \in Ids /\ slot[p].d < nextId
             /\ active' = {slot[p].d} /\ deployedAt' = deployedAt \cup {slot[p].d}
  BY <1>1, <1>7 DEF Commits, At, SlotInv, Activated, Stamped
<1>8. (\E p \in Slots : Commits(p))
          => active' \subseteq deployedAt' /\ deployedAt' \subseteq Ids /\ ActiveInv'
  BY <1>1, <1>7 DEF ActiveInv
<1> QED
  BY <1>1, <1>2, <1>5, <1>6, <1>7, <1>8, SuiteWriters DEF ActiveInv

\* Tokens are keys: what a rotation commits is the key it made.
LEMMA TypeStep ==
    ASSUME TypeOK, SlotInv, ActiveInv, KeyInv, [Next]_vars
    PROVE  TypeOK'
<1>1. /\ SlotTyped /\ jobs \in [Ids -> {"none", "running", "failed", "succeeded"}]
      /\ cluster \in Rollout /\ s3 \in Stored /\ tokens \subseteq Keys
      /\ restarts \in 0 .. MaxRestarts /\ faults \in 0 .. MaxFaults
      /\ overtaken \subseteq {"restart", "edit"} /\ content \in [Ids -> Contents]
  BY DEF TypeOK, SlotTyped
<1>2. tokens' \subseteq Keys
  BY <1>1, TokenWriters
  DEF Commit, CommitAnswerLost, Commits, RestartCommit, Rotated, At, KeyInv, NewKey
<1>3. jobs' \in [Ids -> {"none", "running", "failed", "succeeded"}]
  BY <1>1, JobWriters DEF RunMigrations, JobsEnd
<1>4. cluster' \in Rollout
  <2>1. \A p \in Slots : RolledOut(p) \in Rollout
    BY <1>1, SlotFields DEF RolledOut, Rollout
  <2> QED  BY <1>1, <2>1, OutsideWriters DEF UpdateKubernetes, RunFails, RestartFails
<1>5. s3' \in Stored
  <2>1. \A p \in Slots : At(p, "store") => SuiteObject(p) \in Stored
    BY <1>1 DEF SuiteObject, StoredSuite, Stored, SlotInv, At
  <2> QED  BY <1>1, <2>1, OutsideWriters DEF PublishToS3, RunFails
<1>6. restarts' \in 0 .. MaxRestarts /\ faults' \in 0 .. MaxFaults
  <2>1. restarts' = restarts \/ (restarts < MaxRestarts /\ restarts' = restarts + 1)
    BY OutsideWriters DEF RestartDeployment
  <2>2. faults' = faults \/ (faults < MaxFaults /\ faults' = faults + 1)
    BY OutsideWriters DEF Fault
  <2> QED  BY <1>1, <2>1, <2>2, DeploymentBounds
<1>7. overtaken' \subseteq {"restart", "edit"}
  BY <1>1, OutsideWriters DEF UpdateKubernetes, WriteConfig
<1> QED
  BY <1>2, <1>3, <1>4, <1>5, <1>6, <1>7, RowStep, SuiteStep, SlotSteps DEF TypeOK, SlotTyped

-------------------------------------------------------------------------------
(* The steps, invariant by invariant *)

\* Where each advancing step takes its request, and with what.
Move(p, from, to) == /\ Stays(p) /\ slot[p].pc \in from /\ slot'[p].pc \in to
                     /\ slot[p].pc # "idle" /\ slot'[p].d = slot[p].d
Goes(p, from, to) == Move(p, from, to) /\ SameJob(p)

\* A step that only goes on keeps the request's suite, configs and key.
LEMMA GotoGoes ==
    ASSUME SlotTyped, NEW p \in Slots, NEW x \in SlotPC, NEW y \in SlotPC \ {"idle"},
           At(p, y), Goto(p, x)
    PROVE  Goes(p, {y}, {x})
BY GotoMoves DEF Goes, Move, SameJob, At

\* The publish run and the restart, step by step: the order of
\* runDeploymentMigrationsAndUpdateDeployment, PublishDeployment and RestartDeployment.
LEMMA AdvanceMoves ==
    ASSUME SlotTyped, NEW p \in Slots
    PROVE  /\ StartRun(p) => /\ Move(p, {"start"}, {"migrate", "fail"})
                             /\ slot'[p].key = slot[p].key /\ slot'[p].seen = slot[p].seen
                             /\ slot'[p].pc = "migrate" => slot'[p].cfg = content[slot[p].d]
           /\ RunMigrations(p) => /\ Goes(p, {"migrate"}, {"begin", "await", "fail"})
                                  /\ slot'[p].pc = "begin" => slot[p].d \notin Migratable
           /\ MigrationsEnd(p) => /\ Goes(p, {"await"}, {"begin", "fail"})
                                  /\ slot'[p].pc = "begin" => jobs[slot[p].d] = "succeeded"
           /\ BeginTransaction(p) => Goes(p, {"begin"}, {"activate", "fail"})
           /\ ConfigSuiteActivate(p) => Goes(p, {"activate"}, {"publish"})
           /\ DeploymentPublish(p) => Goes(p, {"publish"}, {"store", "fail"})
           /\ PublishToS3(p) => Goes(p, {"store"}, {"rotate"})
           /\ RotateKeys(p) => /\ \/ Move(p, {"rotate"}, {"rotating", "kube"})
                                  \/ Move(p, {"re_rotate"}, {"re_rotating", "re_kube"})
                               /\ slot'[p].cfg = slot[p].cfg /\ slot'[p].seen = tokens
                               /\ slot'[p].key \in Keys \ KeysInUse
           /\ RotateDone(p) => \/ Goes(p, {"rotating"}, {"kube"})
                               \/ Goes(p, {"re_rotating"}, {"re_kube"})
           /\ UpdateKubernetes(p) => \/ Goes(p, {"kube"}, {"commit"})
                                     \/ Goes(p, {"re_kube"}, {"re_commit"})
           /\ \A d \in Ids : RestartDeployment(p, d) =>
                  /\ Stays(p) /\ slot[p].pc = "idle" /\ slot'[p].pc = "re_rotate"
                  /\ slot'[p].d = d /\ slot'[p].cfg = content[d] /\ slot'[p].seen = {}
<1>1. ASSUME NEW x \in SlotPC, NEW y \in SlotPC \ {"idle"}, At(p, y), Goto(p, x)
      PROVE  Goes(p, {y}, {x})
  BY <1>1, GotoGoes
<1> USE DEF SlotPC, RunPC, RestartPC
<1>2. ASSUME StartRun(p)
      PROVE  /\ Move(p, {"start"}, {"migrate", "fail"})
             /\ slot'[p].key = slot[p].key /\ slot'[p].seen = slot[p].seen
             /\ slot'[p].pc = "migrate" => slot'[p].cfg = content[slot[p].d]
  <2>1. CASE Goto(p, "fail")
    BY <1>1, <1>2, <2>1 DEF StartRun, Goes, Move, SameJob, At
  <2>2. CASE slot' = [slot EXCEPT ![p] = [@ EXCEPT !.pc = "migrate", !.cfg = content[slot[p].d]]]
    BY <1>2, <2>2 DEF SlotTyped, Slot, Move, Stays, StartRun, At
  <2> QED  BY <1>2, <2>1, <2>2 DEF StartRun
<1>3. ASSUME RunMigrations(p)
      PROVE  /\ Goes(p, {"migrate"}, {"begin", "await", "fail"})
             /\ slot'[p].pc = "begin" => slot[p].d \notin Migratable
  BY <1>1, <1>3 DEF RunMigrations, Goes, Move
<1>4. ASSUME MigrationsEnd(p)
      PROVE  /\ Goes(p, {"await"}, {"begin", "fail"})
             /\ slot'[p].pc = "begin" => jobs[slot[p].d] = "succeeded"
  BY <1>1, <1>4 DEF MigrationsEnd, AfterMigrations, Goes, Move
<1>5. /\ BeginTransaction(p) => Goes(p, {"begin"}, {"activate", "fail"})
      /\ ConfigSuiteActivate(p) => Goes(p, {"activate"}, {"publish"})
      /\ DeploymentPublish(p) => Goes(p, {"publish"}, {"store", "fail"})
      /\ PublishToS3(p) => Goes(p, {"store"}, {"rotate"})
  BY <1>1 DEF BeginTransaction, ConfigSuiteActivate, DeploymentPublish, PublishToS3, Goes, Move
<1>6. ASSUME RotateKeys(p)
      PROVE  /\ \/ Move(p, {"rotate"}, {"rotating", "kube"})
                \/ Move(p, {"re_rotate"}, {"re_rotating", "re_kube"})
             /\ slot'[p].cfg = slot[p].cfg /\ slot'[p].seen = tokens
             /\ slot'[p].key \in Keys \ KeysInUse
  <2> DEFINE x == Rotating(p, RotationWaits(p, tokens))
  <2>1. PICK k \in Keys \ KeysInUse :
            slot' = [slot EXCEPT ![p] = [@ EXCEPT !.pc = x, !.key = k, !.seen = tokens]]
    BY <1>6 DEF RotateKeys
  <2>2. \/ slot[p].pc = "rotate" /\ x \in {"rotating", "kube"}
        \/ slot[p].pc = "re_rotate" /\ x \in {"re_rotating", "re_kube"}
    BY <1>6 DEF Rotating, RotateKeys, Restarting
  <2> HIDE DEF x
  <2>3. Stays(p) /\ slot'[p].pc = x /\ slot'[p].key = k /\ slot'[p].seen = tokens
        /\ slot'[p].d = slot[p].d /\ slot'[p].cfg = slot[p].cfg
    BY <2>1 DEF SlotTyped, Slot, Stays
  <2> QED  BY <2>2, <2>3 DEF Move
<1>7. ASSUME RotateDone(p)
      PROVE  Goes(p, {"rotating"}, {"kube"}) \/ Goes(p, {"re_rotating"}, {"re_kube"})
  BY <1>1, <1>7 DEF RotateDone, Rotating, Restarting, At
<1>8. ASSUME UpdateKubernetes(p)
      PROVE  Goes(p, {"kube"}, {"commit"}) \/ Goes(p, {"re_kube"}, {"re_commit"})
  BY <1>1, <1>8 DEF UpdateKubernetes, Restarting, At
<1>9. ASSUME NEW d \in Ids, RestartDeployment(p, d)
      PROVE  /\ Stays(p) /\ slot[p].pc = "idle" /\ slot'[p].pc = "re_rotate"
             /\ slot'[p].d = d /\ slot'[p].cfg = content[d] /\ slot'[p].seen = {}
  BY <1>9, IdleIsASlot DEF RestartDeployment, At, Stays, SlotTyped, Slot
<1> QED
  BY <1>2, <1>3, <1>4, <1>5, <1>6, <1>7, <1>8, <1>9

\* A request never loses its suite: rows of config_suites are not deleted.
LEMMA SlotInvStep ==
    ASSUME TypeOK, SlotInv, [Next]_vars
    PROVE  SlotInv'
<1>1. SlotTyped /\ \A d \in Ids : (status[d] = "deployed" => d < nextId)
          /\ (d < nextId => d < nextId')
  BY RowStep, DeploymentBounds DEF TypeOK, SlotTyped, Ids
<1>2. CASE Settles
  <2>1. ASSUME NEW q \in Slots, slot'[q].pc # "idle" PROVE slot'[q].d \in Ids /\ slot'[q].d < nextId
    BY <1>2, <2>1 DEF Settles, SlotInv
  <2> QED  BY <1>1, <2>1 DEF SlotInv
<1>3. ASSUME NEW p \in Slots, Advances(p)
      PROVE  Stays(p) /\ (slot'[p].d \in Ids /\ slot'[p].d < nextId)
  <2>1. ASSUME NEW d \in Ids, RestartDeployment(p, d)
        PROVE  Stays(p) /\ slot'[p].d \in Ids /\ slot'[p].d < nextId
    <3>1. status[d] = "deployed"
      BY <2>1 DEF RestartDeployment
    <3> QED  BY <1>1, <2>1, <3>1, AdvanceMoves
  <2>2. CASE ~\E d \in Ids : RestartDeployment(p, d)
    <3>1. Stays(p) /\ slot[p].pc # "idle" /\ slot'[p].d = slot[p].d
      BY <1>1, <1>3, <2>2, AdvanceMoves DEF Advances, Goes, Move
    <3> QED  BY <3>1 DEF SlotInv
  <2> QED  BY <2>1, <2>2
<1>4. ASSUME NEW p \in Slots, Advances(p) PROVE SlotInv'
  <2>1. ASSUME NEW q \in Slots, slot'[q].pc # "idle" PROVE slot'[q].d \in Ids /\ slot'[q].d < nextId
    BY <1>3, <1>4, <2>1 DEF SlotInv, Stays
  <2> QED  BY <1>1, <2>1 DEF SlotInv
<1> QED
  BY <1>2, <1>4, SlotSteps

\* A run passes "await" only with jobs that succeeded, "migrate" only without
\* jobs; and a job that succeeded stays so.
LEMMA MigrationsStep ==
    ASSUME TypeOK, SlotInv, MigrationsInv, [Next]_vars
    PROVE  MigrationsInv' /\ \A d \in Ids : jobs[d] = "succeeded" => jobs'[d] = "succeeded"
<1>1. SlotTyped
  BY DEF TypeOK, SlotTyped
<1>2. \A d \in Ids : jobs[d] = "succeeded" => jobs'[d] = "succeeded"
  BY JobWriters DEF RunMigrations, JobsEnd, TypeOK
<1>3. CASE Settles
  BY <1>2, <1>3 DEF Settles, Settled, MigrationsInv, Migrated, SlotInv
<1>4. ASSUME NEW p \in Slots, Advances(p) 
      PROVE  Stays(p) /\ (slot'[p].pc \in Migrated /\ slot'[p].d \in Migratable
                             => slot[p].d = slot'[p].d /\ slot'[p].d \in Ids
                                 /\ jobs[slot[p].d] = "succeeded")
  BY <1>1, <1>4, AdvanceMoves DEF Advances, Goes, Move, SlotInv, MigrationsInv, Migrated
<1>5. (\E p \in Slots : Advances(p)) => MigrationsInv'
  BY <1>2, <1>4 DEF MigrationsInv, Stays, SlotInv, Migrated
<1> QED
  BY <1>2, <1>3, <1>5, SlotSteps

\* ConfigSuiteActivate waits for the suites' locks.
LEMMA OnePublishesStep ==
    ASSUME TypeOK, SlotInv, OnePublishes, [Next]_vars
    PROVE  OnePublishes'
<1>1. SlotTyped
  BY DEF TypeOK, SlotTyped
<1>2. CASE Settles
  BY <1>2 DEF Settles, Settled, OnePublishes, Exclusive
<1>3. ASSUME NEW p \in Slots, Advances(p)
      PROVE  /\ Stays(p)
             /\ slot'[p].pc \in Exclusive => \/ slot[p].pc \in Exclusive
                                             \/ \A q \in Slots : slot[q].pc \notin Exclusive
  BY <1>1, <1>3, AdvanceMoves
  DEF Advances, Goes, Move, Exclusive, ConfigSuiteActivate, Activating, At, Publishing
<1>4. (\E p \in Slots : Advances(p)) => OnePublishes'
  BY <1>3 DEF OnePublishes, Stays
<1> QED
  BY <1>2, <1>4, SlotSteps

\* A key is made fresh (rotateActorApiKeys) and becomes a token when its
\* transaction commits.
LEMMA KeyStep ==
    ASSUME TypeOK, SlotInv, KeyInv, [Next]_vars
    PROVE  KeyInv'
<1>1. SlotTyped
  BY DEF TypeOK, SlotTyped
<1>2. \/ tokens' = tokens
      \/ \E p \in Slots : /\ slot[p].pc \in NewKey /\ slot'[p].pc \notin NewKey
                          /\ tokens' \subseteq tokens \cup {slot[p].key}
  <2>1. ASSUME NEW p \in Slots, Commit(p) \/ CommitAnswerLost(p) \/ RestartCommit(p)
        PROVE  /\ slot[p].pc \in NewKey /\ slot'[p].pc \notin NewKey
               /\ tokens' \subseteq tokens \cup {slot[p].key}
    <3>1. /\ tokens' = Rotated(p) /\ slot[p].pc \in {"commit", "re_commit"}
          /\ Ends(p) \/ Goto(p, "fail")
      BY <2>1 DEF Commit, CommitAnswerLost, Commits, RestartCommit, At
    <3>2. slot'[p].pc \in {"idle", "fail"}
      <4>1. CASE Ends(p)
        BY <1>1, <4>1, EndsMoves, IdleIsASlot
      <4>2. CASE Goto(p, "fail")
        <5>1. "fail" \in SlotPC
          BY DEF SlotPC
        <5> QED  BY <1>1, <4>2, <5>1, GotoMoves
      <4> QED  BY <3>1, <4>1, <4>2
    <3> QED  BY <3>1, <3>2 DEF Rotated, NewKey
  <2> QED  BY <2>1, TokenWriters
<1>3. CASE Settles
  <2>1. \A q \in Slots : slot'[q].pc \in NewKey => slot'[q] = slot[q]
    BY <1>3 DEF Settles, Settled, NewKey
  <2>2. \A q \in Slots : slot'[q].seen \subseteq slot[q].seen
    BY <1>3 DEF Settles
  <2>3. \A q \in Slots : slot'[q].pc \in NewKey => slot'[q].key \in Keys \ tokens'
    BY <1>2, <2>1 DEF KeyInv, NewKey
  <2> QED  BY <2>1, <2>2, <2>3 DEF KeyInv
<1>4. ASSUME NEW p \in Slots, Advances(p) PROVE KeyInv'
  <2>1. tokens' = tokens /\ Stays(p)
    BY <1>1, <1>4, AdvanceMoves DEF Advances, StartRun, RunMigrations, MigrationsEnd,
       BeginTransaction, ConfigSuiteActivate, DeploymentPublish, PublishToS3, RotateKeys,
       RotateDone, UpdateKubernetes, RestartDeployment, Goes, Move
  <2>2. CASE RotateKeys(p)
    <3>1. /\ slot'[p].key \in Keys \ tokens /\ slot'[p].seen = tokens
          /\ \A q \in Slots : slot'[p].key \notin slot[q].seen /\ slot'[p].key # slot[q].key
      BY <1>1, <2>2, AdvanceMoves DEF KeysInUse
    <3> QED  BY <2>1, <3>1 DEF KeyInv, Stays
  <2>3. CASE ~RotateKeys(p)
    <3>1. slot'[p].pc \in NewKey => slot[p].pc \in NewKey /\ slot'[p].key = slot[p].key
      BY <1>1, <1>4, <2>3, AdvanceMoves DEF Advances, Goes, Move, SameJob, NewKey
    <3>2. slot'[p].seen \subseteq slot[p].seen
      BY <1>1, <1>4, <2>3, AdvanceMoves DEF Advances, Goes, Move, SameJob
    <3> QED  BY <2>1, <3>1, <3>2 DEF KeyInv, Stays
  <2> QED  BY <2>2, <2>3
<1> QED
  BY <1>3, <1>4, SlotSteps

\* Without a fault, whoever has written S3 goes on to commit, and so does whoever
\* has rolled out.
LEMMA LateSteps ==
    ASSUME TypeOK, SlotInv, [Next]_vars, faults' = 0
    PROVE  /\ faults = 0
           /\ \A q \in Slots : slot[q].pc \in RolledOutPC =>
                  slot'[q] = slot[q] \/ Commit(q) \/ RestartCommit(q)
           /\ \A q \in Slots : slot[q].pc \in StoredPC =>
                  Commit(q) \/ (slot'[q].pc \in StoredPC /\ slot'[q].d = slot[q].d)
           /\ \A q \in Slots : slot'[q].pc \in RolledOutPC =>
                  slot'[q] = slot[q] \/ UpdateKubernetes(q)
           /\ \A q \in Slots : slot'[q].pc \in StoredPC =>
                  (slot[q].pc \in StoredPC /\ slot'[q].d = slot[q].d) \/ PublishToS3(q)
<1>1. SlotTyped
  BY DEF TypeOK, SlotTyped
<1>2. faults = 0 /\ ~Fault
  BY OutsideWriters, DeploymentBounds DEF TypeOK, Fault
<1> DEFINE Late == StoredPC \cup RolledOutPC
           Ended(q) == slot'[q] = slot[q] \/ Commit(q) \/ RestartCommit(q)
<1>3. ASSUME NEW p \in Slots, Advances(p)
      PROVE  /\ Stays(p) /\ slot[p].pc \notin RolledOutPC
             /\ slot[p].pc \in StoredPC => slot'[p].pc \in StoredPC /\ slot'[p].d = slot[p].d
             /\ slot'[p].pc \in RolledOutPC => UpdateKubernetes(p)
             /\ slot'[p].pc \in StoredPC =>
                    (slot[p].pc \in StoredPC /\ slot'[p].d = slot[p].d) \/ PublishToS3(p)
  BY <1>1, <1>3, AdvanceMoves DEF Advances, Goes, Move, StoredPC, RolledOutPC
<1>4. ASSUME ~\E p \in Slots : Advances(p), NEW q \in Slots, slot[q].pc \in Late
      PROVE  Ended(q)
  <2>1. ASSUME NEW p \in Slots, Ends(p), slot[p].pc \notin Late PROVE Ended(q)
    BY <1>1, <1>4, <2>1 DEF Ends, SlotTyped
  <2>2. ASSUME NEW p \in Slots, NEW n, slot' = [slot EXCEPT ![p] = n], slot[p].pc \notin Late
        PROVE Ended(q)
    BY <1>1, <1>4, <2>2 DEF SlotTyped
  <2>3. CASE UNCHANGED slot
    BY <2>3
  <2>4. ASSUME NEW p \in Slots,
            \/ WriteConfig(p) \/ SetDeploymentDeploying(p) \/ MigrationRefused(p) \/ RecordError(p)
            \/ \E d \in Ids : UpdateConfig(p, d) \/ PublishDeployment(p, d)
        PROVE Ended(q)
    BY <2>1, <2>2, <2>4 DEF WriteConfig, SetDeploymentDeploying, MigrationRefused, RecordError,
          UpdateConfig, PublishDeployment, Begins, Goto, At, StoredPC, RolledOutPC
  <2>5. ASSUME NEW p \in Slots, Commit(p) \/ RestartCommit(p) PROVE Ended(q)
    BY <1>1, <2>5 DEF Commit, RestartCommit, Ends, SlotTyped
  <2>6. CASE \/ CreateDeployment
             \/ \E d \in Ids : \/ CloneDeployment(d) \/ SubmitDeployment(d)
                               \/ RejectDeployment(d) \/ DeleteDeployment(d) \/ JobsEnd(d)
    BY <2>3, <2>6 DEF CreateDeployment, CloneDeployment, Created, SubmitDeployment,
                      RejectDeployment, DeleteDeployment, JobsEnd
  <2>7. ~Failure
    BY <1>2 DEF Failure, PublishAnswerLost, CommitAnswerLost, RunFails, RecordErrorFails,
          RestartFails, Crash
  <2>8. CASE UNCHANGED vars
    BY <2>3, <2>8 DEF vars
  <2> HIDE DEF Ended, Late
  <2> QED
    BY <1>4, <2>4, <2>5, <2>6, <2>7, <2>8 DEF Next, Request, SlotStep, RunStep, Advances
<1>5. CASE \E p \in Slots : Advances(p)
  BY <1>2, <1>3, <1>5 DEF Stays
<1>6. CASE ~\E p \in Slots : Advances(p)
  <2>1. \A q \in Slots : slot'[q] = slot[q] \/ slot'[q].pc \in Settled
    BY <1>6, SlotSteps DEF Settles
  <2>2. \A q \in Slots : slot[q].pc \in StoredPC => ~RestartCommit(q)
    BY DEF RestartCommit, At, StoredPC
  <2>3. \A q \in Slots : slot[q].pc \in Late => Ended(q)
    BY <1>4, <1>6
  <2> QED  BY <1>2, <2>1, <2>2, <2>3 DEF Settled, StoredPC, RolledOutPC
<1> QED
  BY <1>5, <1>6

\* A deployment is deployed when a run commits, alone, and as its suite is the
\* active one.
LEMMA DeployedMoves ==
    ASSUME TypeOK, SlotInv, [Next]_vars
    PROVE  \/ \E p \in Slots : /\ Commits(p) /\ slot[p].d \in Ids
                               /\ active' = {slot[p].d}
                               /\ deployedAt' = deployedAt \cup {slot[p].d}
                               /\ \A d \in Ids : status'[d] = "deployed" <=> d = slot[p].d
           \/ /\ UNCHANGED <<active, deployedAt>>
              /\ \A d \in Ids : status'[d] = "deployed" => status[d] = "deployed"
<1>1. \A p \in Slots : slot[p].pc # "idle" => slot[p].d \in Ids
  BY DEF SlotInv
<1>2. status \in [Ids -> Status]
  BY DEF TypeOK
<1>3. ASSUME NEW p \in Slots, Commits(p)
      PROVE  /\ slot[p].d \in Ids /\ active' = {slot[p].d}
             /\ deployedAt' = deployedAt \cup {slot[p].d}
             /\ \A d \in Ids : status'[d] = "deployed" <=> d = slot[p].d
  BY <1>1, <1>3 DEF Commits, At, Published, Activated, Stamped
<1>4. CASE ~\E p \in Slots : Commits(p)
  <2>1. UNCHANGED <<active, deployedAt>>
    BY <1>4, SuiteWriters DEF suiteVars, CreateDeployment, CloneDeployment, Created, WriteConfig
  <2>2. ASSUME NEW p \in Slots,
               SetDeploymentDeploying(p) \/ PublishAnswerLost(p) \/ RecordError(p)
        PROVE  \A d \in Ids : status'[d] = "deployed" => status[d] = "deployed"
    BY <1>1, <1>2, <2>2 DEF SetDeploymentDeploying, PublishAnswerLost, RecordError, Deploying,
                            AfterFailure, At
  <2>3. ASSUME CreateDeployment \/ \E d \in Ids : CloneDeployment(d)
        PROVE  \A d \in Ids : status'[d] = "deployed" => status[d] = "deployed"
    BY <1>2, <2>3 DEF CreateDeployment, CloneDeployment, Created
  <2>4. ASSUME NEW e \in Ids, SubmitDeployment(e) \/ RejectDeployment(e) \/ DeleteDeployment(e)
        PROVE  \A d \in Ids : status'[d] = "deployed" => status[d] = "deployed"
    BY <1>2, <2>4 DEF SubmitDeployment, RejectDeployment, DeleteDeployment, Submitted, Rejected,
                      Deleted
  <2> QED  BY <1>4, <2>1, <2>2, <2>3, <2>4, StatusWriters DEF rowVars
<1> QED
  BY <1>3, <1>4

\* Only Commit deploys, and it retires the others (DeploymentPublish).
LEMMA DeployedStep ==
    ASSUME TypeOK, SlotInv, MigrationsInv, DeployedIsActive, DeployedWasMigrated, [Next]_vars
    PROVE  DeployedIsActive' /\ DeployedWasMigrated'
<1>1. \A d \in Ids : jobs[d] = "succeeded" => jobs'[d] = "succeeded"
  BY MigrationsStep
<1>2. DeployedIsActive'
  BY DeployedMoves DEF DeployedIsActive
<1>3. \A p \in Slots : Commits(p) /\ slot[p].d \in Migratable => jobs[slot[p].d] = "succeeded"
  BY DEF Commits, At, MigrationsInv, Migrated
<1>4. DeployedWasMigrated'
  BY <1>1, <1>3, DeployedMoves DEF DeployedWasMigrated, TypeOK
<1> QED  BY <1>2, <1>4

\* Without faults, the key in the cluster is, or will be, a token: what a
\* rotation lets expire was read before the key was rolled out.
LEMMA ClusterStep ==
    ASSUME TypeOK, SlotInv, KeyInv, ClusterInv, [Next]_vars
    PROVE  ClusterInv'
<1> SUFFICES ASSUME faults' = 0 PROVE ClusterInv'
  BY DEF ClusterInv
<1>1. /\ faults = 0 /\ SlotTyped
      /\ \A q \in Slots : slot[q].pc \in RolledOutPC =>
             slot'[q] = slot[q] \/ Commit(q) \/ RestartCommit(q)
      /\ \A q \in Slots : slot'[q].pc \in RolledOutPC => slot'[q] = slot[q] \/ UpdateKubernetes(q)
  BY LateSteps DEF TypeOK, SlotTyped
<1>2. ASSUME NEW p \in Slots, UpdateKubernetes(p) PROVE ClusterInv'
  <2>1. /\ cluster'.key = slot[p].key /\ slot[p].pc \in NewKey
        /\ slot'[p].pc \in RolledOutPC /\ slot'[p].key = slot[p].key
        /\ slot'[p].seen = slot[p].seen /\ Stays(p)
    BY <1>1, <1>2, AdvanceMoves
    DEF UpdateKubernetes, RolledOut, Goes, Move, SameJob, NewKey, RolledOutPC
  <2>2. \A q \in Slots : slot[p].key \notin slot'[q].seen
    BY <2>1 DEF KeyInv, Stays
  <2> QED  BY <2>1, <2>2 DEF ClusterInv
<1>3. CASE ~\E p \in Slots : UpdateKubernetes(p)
  <2>1. cluster' = cluster
    BY <1>1, <1>3, OutsideWriters, DeploymentBounds DEF RunFails, RestartFails, Fault
  <2>2. \A p \in Slots : slot'[p].pc \in RolledOutPC => cluster'.key \notin slot'[p].seen
    BY <1>1, <1>3, <2>1 DEF ClusterInv
  <2>3. ASSUME NEW p \in Slots, Commit(p) \/ RestartCommit(p)
        PROVE  /\ Stays(p) /\ slot[p].pc \in RolledOutPC
               /\ tokens' = (tokens \ slot[p].seen) \cup {slot[p].key}
    BY <1>1, <2>3, EndsMoves DEF Commit, Commits, RestartCommit, At, RolledOutPC, Rotated
  <2>4. cluster'.d # NoId =>
           \/ cluster'.key \in tokens'
           \/ \E p \in Slots : slot'[p].pc \in RolledOutPC /\ slot'[p].key = cluster'.key
    <3>1. CASE \E p \in Slots : Commit(p) \/ RestartCommit(p)
      <4>1. PICK p \in Slots : Commit(p) \/ RestartCommit(p)
        BY <3>1
      <4> QED  BY <1>1, <2>1, <2>3, <4>1 DEF ClusterInv, Stays
    <3>2. CASE ~\E p \in Slots : Commit(p) \/ RestartCommit(p)
      <4>1. tokens' = tokens
        BY <1>1, <3>2, TokenWriters, DeploymentBounds DEF CommitAnswerLost, Fault
      <4> QED  BY <1>1, <2>1, <3>2, <4>1 DEF ClusterInv
    <3> QED  BY <3>1, <3>2
  <2> QED  BY <2>2, <2>4 DEF ClusterInv
<1> QED  BY <1>2, <1>3

\* Edits behind a reader, or of a suite that was deployed, are recorded.
LEMMA ContentStays ==
    ASSUME TypeOK, SlotInv, ActiveInv, [Next]_vars
    PROVE  /\ overtaken \subseteq overtaken'
           /\ overtaken' = {} => \A d \in Ids :
                  d \in deployedAt \/ ConfigsRead(d) => content'[d] = content[d]
<1>1. \A d \in Ids : d \in deployedAt \/ ConfigsRead(d) => d # nextId
  BY DeploymentBounds
  DEF ActiveInv, SlotInv, ConfigsRead, RunPC, RestartPC, TypeOK, Ids
<1>2. overtaken \subseteq overtaken'
  BY OutsideWriters DEF UpdateKubernetes, WriteConfig
<1>3. CASE UNCHANGED content
  BY <1>2, <1>3
<1>4. CASE CreateDeployment \/ \E d \in Ids : CloneDeployment(d)
  <2>1. \A d \in Ids : d # nextId => content'[d] = content[d]
    BY <1>4 DEF CreateDeployment, CloneDeployment, Created, TypeOK
  <2> QED  BY <1>1, <1>2, <2>1
<1>5. ASSUME NEW p \in Slots, WriteConfig(p), overtaken' = {}
      PROVE  \A d \in Ids : d \in deployedAt \/ ConfigsRead(d) => content'[d] = content[d]
  <2>1. ~(slot[p].d \in deployedAt \/ ConfigsRead(slot[p].d))
    BY <1>5 DEF WriteConfig
  <2>2. \A d \in Ids : d # slot[p].d => content'[d] = content[d]
    BY <1>5 DEF WriteConfig, TypeOK
  <2> QED  BY <2>1, <2>2
<1> QED
  BY <1>2, <1>3, <1>4, <1>5, SuiteWriters DEF suiteVars, Commits

\* StartRun and RestartDeployment read what is there, and edits behind them are
\* recorded (UpdateConfig checks a snapshot).
LEMMA ReadStep ==
    ASSUME TypeOK, SlotInv, ActiveInv, ReadInv, [Next]_vars
    PROVE  ReadInv'
<1> SUFFICES ASSUME overtaken' = {}, NEW q \in Slots, slot'[q].pc \in Reads
             PROVE  slot'[q].cfg = content'[slot'[q].d]
  BY DEF ReadInv
<1>1. SlotTyped /\ overtaken = {} /\ \A d \in Ids : ConfigsRead(d) => content'[d] = content[d]
  BY ContentStays DEF TypeOK, SlotTyped
<1>2. ASSUME slot'[q] = slot[q] PROVE slot'[q].cfg = content'[slot'[q].d]
  <2>1. slot[q].d \in Ids /\ ConfigsRead(slot[q].d)
    BY <1>2 DEF SlotInv, ConfigsRead, Reads, RunPC, RestartPC
  <2> QED  BY <1>1, <1>2, <2>1 DEF ReadInv
<1>3. CASE Settles
  BY <1>2, <1>3 DEF Settles, Settled, Reads, RunPC, RestartPC
<1>4. ASSUME NEW p \in Slots, Advances(p) PROVE slot'[q].cfg = content'[slot'[q].d]
  <2>1. content' = content
    BY <1>4 DEF Advances, StartRun, RunMigrations, MigrationsEnd, BeginTransaction,
          ConfigSuiteActivate, DeploymentPublish, PublishToS3, RotateKeys, RotateDone,
          UpdateKubernetes, RestartDeployment, suiteVars
  <2>2. CASE p # q
    BY <1>1, <1>2, <1>4, <2>2, AdvanceMoves DEF Advances, Goes, Move, Stays
  <2>3. CASE p = q
    BY <1>1, <1>4, <2>1, <2>3, AdvanceMoves
    DEF Advances, Goes, Move, SameJob, ReadInv, Reads, RunPC, RestartPC
  <2> QED  BY <2>2, <2>3
<1> QED  BY <1>3, <1>4, SlotSteps

\* The bucket holds the suite of the run that wrote it until that run commits,
\* and then the deployed one's (publishConfigSuiteToS3).
LEMMA StoreStep ==
    ASSUME TypeOK, SlotInv, ActiveInv, OnePublishes, DeployedIsActive, StoreInv, [Next]_vars
    PROVE  StoreInv'
<1> SUFFICES ASSUME faults' = 0 PROVE StoreInv'
  BY DEF StoreInv
<1>1. /\ faults = 0 /\ SlotTyped
      /\ \A q \in Slots : slot[q].pc \in StoredPC =>
             Commit(q) \/ (slot'[q].pc \in StoredPC /\ slot'[q].d = slot[q].d)
      /\ \A q \in Slots : slot'[q].pc \in StoredPC =>
             (slot[q].pc \in StoredPC /\ slot'[q].d = slot[q].d) \/ PublishToS3(q)
  BY LateSteps DEF TypeOK, SlotTyped
<1>2. \A d \in Ids : status[d] = "deployed" => d \in deployedAt
  BY DEF DeployedIsActive, TypeOK
<1>3. ASSUME NEW d \in Ids, InS3(d), s3' = s3, d \in deployedAt \/ ConfigsRead(d)
      PROVE  s3'.d = d /\ (overtaken' = {} => s3'.cfg = content'[d])
  BY <1>3, ContentStays DEF InS3
<1>4. \A q \in Slots : slot[q].pc \in StoredPC => slot[q].d \in Ids /\ ConfigsRead(slot[q].d)
  BY DEF SlotInv, ConfigsRead, StoredPC, RunPC, RestartPC
<1>5. ASSUME NEW p \in Slots, PublishToS3(p) PROVE StoreInv'
  <2>1. /\ Stays(p) /\ slot[p].pc = "store" /\ slot'[p].pc = "rotate"
        /\ slot'[p].d = slot[p].d /\ s3'.d = slot[p].d
        /\ s3'.cfg = content'[slot[p].d]
    BY <1>1, <1>5, AdvanceMoves
    DEF PublishToS3, SuiteObject, StoredSuite, suiteVars, InS3, Goes, Move
  <2>2. \A q \in Slots : slot'[q].pc \in StoredPC => q = p
    BY <2>1 DEF OnePublishes, Exclusive, StoredPC, Stays
  <2> QED  BY <2>1, <2>2 DEF StoreInv, StoredPC, InS3
<1>6. CASE ~\E p \in Slots : PublishToS3(p)
  <2>1. s3' = s3
    BY <1>1, <1>6, OutsideWriters, DeploymentBounds DEF RunFails, Fault
  <2>2. \A q \in Slots : slot'[q].pc \in StoredPC =>
            s3'.d = slot'[q].d /\ (overtaken' = {} => s3'.cfg = content'[slot'[q].d])
    BY <1>1, <1>3, <1>4, <1>6, <2>1 DEF StoreInv
  <2>3. ASSUME \A q \in Slots : slot'[q].pc \notin StoredPC, NEW d \in Ids, status'[d] = "deployed"
        PROVE  s3'.d = d /\ (overtaken' = {} => s3'.cfg = content'[d])
    <3>1. CASE \E p \in Slots : Commits(p)
      <4>1. PICK p \in Slots : Commits(p)
        BY <3>1
      <4>2. slot[p].pc \in StoredPC
        BY <4>1 DEF Commits, At, StoredPC
      <4>3. d = slot[p].d
        BY <2>3, <4>1 DEF Commits, Published
      <4> QED  BY <1>1, <1>3, <1>4, <2>1, <4>2, <4>3 DEF StoreInv
    <3>2. CASE ~\E p \in Slots : Commits(p)
      <4>1. status[d] = "deployed" /\ \A q \in Slots : slot[q].pc \notin StoredPC
        BY <1>1, <2>3, <3>2, DeployedMoves DEF Commit
      <4> QED  BY <1>1, <1>2, <1>3, <2>1, <4>1 DEF StoreInv
    <3> QED  BY <3>1, <3>2
  <2> QED  BY <2>2, <2>3 DEF StoreInv, InS3
<1> QED  BY <1>5, <1>6

\* The cluster runs the suite of the run about to commit, else the deployed one,
\* unless a restart was overtaken (updateKubernetesDeployments).
LEMMA RolloutStep ==
    ASSUME TypeOK, SlotInv, ActiveInv, OnePublishes, DeployedIsActive, ReadInv, RolloutInv,
           [Next]_vars
    PROVE  RolloutInv'
<1> SUFFICES ASSUME faults' = 0 PROVE RolloutInv'
  BY DEF RolloutInv
<1>1. /\ faults = 0 /\ SlotTyped
      /\ \A q \in Slots : At(q, "commit") => Commit(q) \/ slot'[q] = slot[q]
      /\ \A q \in Slots : slot'[q].pc = "commit" => slot'[q] = slot[q] \/ UpdateKubernetes(q)
  BY LateSteps DEF TypeOK, SlotTyped, RolledOutPC, At, RestartCommit
<1>2. \A d \in Ids : status[d] = "deployed" => d \in deployedAt
  BY DEF DeployedIsActive, TypeOK
<1>3. ASSUME NEW d \in Ids, InCluster(d), cluster' = cluster, d \in deployedAt \/ ConfigsRead(d)
      PROVE  /\ "restart" \notin overtaken' => cluster'.d = d
             /\ overtaken' = {} => cluster'.cfg = content'[d]
  BY <1>3, ContentStays DEF InCluster
<1>4. \A q \in Slots : At(q, "commit") => slot[q].d \in Ids /\ ConfigsRead(slot[q].d)
  BY DEF At, SlotInv, ConfigsRead, RunPC, RestartPC
<1>5. ASSUME NEW p \in Slots, UpdateKubernetes(p) PROVE RolloutInv'
  <2>1. /\ cluster'.d = slot[p].d /\ cluster'.cfg = slot[p].cfg /\ content' = content
        /\ status' = status /\ overtaken \subseteq overtaken'
        /\ Overtaken(p) => "restart" \in overtaken'
    BY <1>5 DEF UpdateKubernetes, RolledOut, suiteVars, rowVars
  <2>2. overtaken' = {} => cluster'.cfg = content'[slot[p].d]
    BY <1>5, <2>1 DEF ReadInv, Reads, UpdateKubernetes, RunPC, RestartPC
  <2>3. CASE Goes(p, {"kube"}, {"commit"})
    <3>1. \A q \in Slots : slot'[q].pc = "commit" => q = p
      BY <2>3 DEF Goes, Move, Stays, OnePublishes, Exclusive
    <3>2. slot'[p].pc = "commit" /\ slot'[p].d = slot[p].d
      BY <2>3 DEF Goes, Move
    <3> QED  BY <2>1, <2>2, <3>1, <3>2 DEF RolloutInv, InCluster, At
  <2>4. CASE Goes(p, {"re_kube"}, {"re_commit"})
    <3>1. CASE Overtaken(p)
      BY <2>1, <3>1 DEF RolloutInv, InCluster
    <3>2. CASE ~Overtaken(p)
      <4>1. status[slot[p].d] = "deployed" /\ \A q \in Slots : ~At(q, "commit")
        BY <2>4, <3>2 DEF Overtaken, Restarting, RestartPC, Goes, Move
      <4>2. \A q \in Slots : slot'[q].pc # "commit"
        BY <2>4, <4>1 DEF Goes, Move, Stays, At
      <4>3. \A d \in Ids : status'[d] = "deployed" => d = slot[p].d
        BY <2>1, <2>4, <4>1 DEF DeployedIsActive, SlotInv, Goes, Move
      <4> QED  BY <2>1, <2>2, <4>2, <4>3 DEF RolloutInv, InCluster, At
    <3> QED  BY <3>1, <3>2
  <2> QED  BY <1>1, <1>5, <2>3, <2>4, AdvanceMoves
<1>6. CASE ~\E p \in Slots : UpdateKubernetes(p)
  <2>1. cluster' = cluster
    BY <1>1, <1>6, OutsideWriters, DeploymentBounds DEF RunFails, RestartFails, Fault
  <2>2. \A q \in Slots : slot'[q].pc = "commit" =>
            /\ "restart" \notin overtaken' => cluster'.d = slot'[q].d
            /\ overtaken' = {} => cluster'.cfg = content'[slot'[q].d]
    BY <1>1, <1>3, <1>4, <1>6, <2>1 DEF RolloutInv, At
  <2>3. ASSUME \A q \in Slots : slot'[q].pc # "commit", NEW d \in Ids, status'[d] = "deployed"
        PROVE  /\ "restart" \notin overtaken' => cluster'.d = d
               /\ overtaken' = {} => cluster'.cfg = content'[d]
    <3>1. CASE \E p \in Slots : Commits(p)
      <4>1. PICK p \in Slots : Commits(p)
        BY <3>1
      <4>2. At(p, "commit")
        BY <4>1 DEF Commits
      <4>3. d = slot[p].d
        BY <2>3, <4>1 DEF Commits, Published
      <4> QED  BY <1>1, <1>3, <1>4, <2>1, <4>2, <4>3 DEF RolloutInv
    <3>2. CASE ~\E p \in Slots : Commits(p)
      <4>1. status[d] = "deployed" /\ \A q \in Slots : ~At(q, "commit")
        BY <1>1, <2>3, <3>2, DeployedMoves DEF At, Commit
      <4> QED  BY <1>1, <1>2, <1>3, <2>1, <4>1 DEF RolloutInv
    <3> QED  BY <3>1, <3>2
  <2> QED  BY <2>2, <2>3 DEF RolloutInv, InCluster, At
<1> QED  BY <1>5, <1>6

-------------------------------------------------------------------------------
(* Theorems *)

\* The invariant holds at the start.
LEMMA Initially == Init => IInv
<1> SUFFICES ASSUME Init PROVE IInv
  OBVIOUS
<1>1. \A p \in Slots : slot[p] = Idle /\ slot[p].pc = "idle"
  BY IdleIsASlot DEF Init
<1>2. TypeOK
  <2>1. cluster \in Rollout /\ s3 \in Stored
    BY ContentsAssumption DEF Init, Rollout, Stored
  <2>2. slot \in [Slots -> Slot]
    BY IdleIsASlot DEF Init
  <2> QED  BY <2>1, <2>2, DeploymentBounds, ContentsAssumption DEF Init, TypeOK, Ids, Status
<1>3. SlotInv /\ MigrationsInv /\ OnePublishes /\ KeyInv /\ ReadInv
  BY <1>1 DEF SlotInv, MigrationsInv, Migrated, OnePublishes, Exclusive, KeyInv, NewKey, ReadInv,
              Reads, RunPC, RestartPC
<1>4. ClusterInv
  BY <1>1 DEF Init, ClusterInv, RolledOutPC
<1>5. ActiveInv /\ DeployedIsActive /\ DeployedWasMigrated
  BY DEF Init, ActiveInv, DeployedIsActive, DeployedWasMigrated
<1>6. StoreInv /\ RolloutInv
  BY <1>1 DEF Init, StoreInv, RolloutInv, StoredPC, At
<1> QED  BY <1>2, <1>3, <1>4, <1>5, <1>6 DEF IInv

\* Every request, step, job end and failure keeps the invariant.
LEMMA Step == IInv /\ [Next]_vars => IInv'
<1> SUFFICES ASSUME IInv, [Next]_vars PROVE IInv'
  OBVIOUS
<1> QED
  BY TypeStep, SlotInvStep, SuiteStep, MigrationsStep, OnePublishesStep, KeyStep, ClusterStep,
     ReadStep, StoreStep, RolloutStep, DeployedStep DEF IInv

\* What each request in flight has seen to holds in every behaviour.
THEOREM Inductive == Spec => []IInv
<1>1. Init => IInv
  BY Initially
<1>2. IInv /\ [Next]_vars => IInv'
  BY Step
<1> QED  BY <1>1, <1>2, PTL DEF Spec

\* The rows, suites, tokens, slots, jobs, cluster and bucket keep their types,
\* and no deployment beyond the sequence exists.
THEOREM Types == Spec => []TypeOK
<1>1. IInv => TypeOK
  BY DEF IInv
<1> QED  BY <1>1, Inductive, PTL

\* Commit makes one deployment the deployed one and its suite the active one,
\* however many runs, restarts, edits and failures overlap.
THEOREM OneDeployed == Spec => []DeployedIsActive
<1>1. IInv => DeployedIsActive
  BY DEF IInv
<1> QED  BY <1>1, Inductive, PTL

\* No run of runDeploymentMigrationsAndUpdateDeployment deploys a suite whose
\* migration jobs did not all succeed.
THEOREM DeployedMigrated == Spec => []DeployedWasMigrated
<1>1. IInv => DeployedWasMigrated
  BY DEF IInv
<1> QED  BY <1>1, Inductive, PTL

\* rotateActorApiKeys and updateKubernetesDeployments: when all is quiet and
\* nothing failed, the agents hold a key the tokens table knows.
THEOREM ClusterKeys == Spec => []ClusterKeysAreKnown
<1>1. IInv => ClusterKeysAreKnown
  BY DEF IInv, ClusterInv, ClusterKeysAreKnown, Quiet, At, RolledOutPC
<1> QED  BY <1>1, Inductive, PTL

\* publishConfigSuiteToS3 and updateKubernetesDeployments: when all is quiet
\* and nothing failed, the API, S3 and the cluster agree on what is deployed.
THEOREM Everywhere == Spec => []PublishedEverywhere
<1>1. IInv => PublishedEverywhere
  <2> SUFFICES ASSUME IInv, Quiet, faults = 0, NEW d \in Ids, status[d] = "deployed"
               PROVE  /\ s3.d = d
                      /\ "restart" \notin overtaken => cluster.d = d
                      /\ overtaken = {} => Served = {s3.cfg} /\ Served = {cluster.cfg}
    BY DEF PublishedEverywhere
  <2>1. InS3(d) /\ InCluster(d)
    BY DEF IInv, StoreInv, RolloutInv, Quiet, At, StoredPC
  <2>2. Served = {content[d]}
    BY DEF IInv, DeployedIsActive, Served, ActiveConfig
  <2> QED  BY <2>1, <2>2 DEF InS3, InCluster
<1> QED  BY <1>1, Inductive, PTL
===============================================================================

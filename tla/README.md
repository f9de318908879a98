# Formal models of gardener-extension-ontap

TLA+ modules, TLC configurations and TLAPS proofs for the Gardener extension
that gives a shoot cluster NetApp ONTAP storage: it finds or creates a storage
virtual machine (SVM) for the shoot's project, gives the shoot a user on it,
and deploys the Trident CSI driver with that user's credentials.

All paths below are relative to `src/`, all line numbers refer to the commit
the models were written from.

## 1. The system

| Part | Source | State | Operations |
| --- | --- | --- | --- |
| SVM manager | `pkg/trident/svm.go` | none of its own; SVMs and LIFs in ONTAP | `EnsureCompleteSVM`, which looks the SVM up and completes or creates it |
| Users and secrets | `pkg/trident/user.go` | ONTAP accounts; secrets in `kube-system` of the seed | `CreateUserAndSecret`, four ways depending on what exists |
| Deployment | `pkg/trident/deploy_trident.go` | ManagedResources in the shoot's namespace on the seed | `DeployTrident`, `DeleteManagedResources` |
| Actuator | `pkg/controller/ontap/actuator.go` | the list of ONTAP clients, in configuration order | `Reconcile`, `Delete`, `ForceDelete`, `Migrate`, `Restore` |
| Admin clients | `actuator.go:64-120` | the same list, built once | `createAdminClient` |
| Shoot webhook | `pkg/webhook/shoot` | none | `Mutate` on CRDs, DaemonSets and Deployments |
| Configuration | `pkg/apis/ontap/v1alpha1/types.go`, `pkg/apis/config/types.go` | none | `Validate` |
| Templates | `charts/trident/resources` | none | the shoot's secret and network policy |
| Process | `cmd`, `pkg/cmd`, `pkg/controller/ontap/add.go` | none | options, wiring, leader election, health checks |

How they interact. The controller runtime calls the actuator, for one Extension
at a time but for several Extensions at once.
`Reconcile` runs three phases: (1) `ensureSvmForProject` -> `EnsureCompleteSVM`,
which ends with the user and the seed secret; (2) it reads the seed secret again;
(3) `DeployTrident` and the webhook configuration. An error at any point returns,
and the work queue calls `Reconcile` again from the start. Nothing is kept in
memory between two reconciliations: all state is in ONTAP, on the seed and in the
shoot, and nothing spans them transactionally. The ONTAP side is shared: all
shoots of a project use one SVM, from extensions on any number of seeds that
do not know of each other. ONTAP itself changes underneath (SVMs start in
their own time, clusters go down, a MetroCluster switchover moves an SVM to the
partner under the name `<project>-mc`), and so does the shoot side, where the
gardener-resource-manager (GRM) applies and deletes ManagedResources in its own
time.

What makes each part correct, and what is hard:

* *SVM manager.* A project gets one complete SVM, whatever dies on the way;
  an SVM that works and can be seen is not doubled, and where one is, the shoots still
  end up sharing one; success means completeness. Hard: races
  between shoots, a lookup that takes many calls while clusters and SVMs come and
  go, a wait that times out, a write client that may differ from the cluster the
  SVM was found on, interface lists that are stale when used.
* *Users and secrets.* The account and the seed secret hold one password;
  credentials that work are not replaced; damage heals. Hard: two writes to
  two systems with a crash or a lost reply in between, a query whose error is
  ignored, secrets that people delete, accounts that two shoots share, migration.
* *Deployment.* Parts arrive although they depend on each other; nothing is left
  after deletion. Hard: nothing but the CRDs is awaited, deletions overlap with
  new deployments.
* *Addresses.* What the owner configures is what the SVM has and what the shoot is
  given. Hard: the SVM gets them once and the shoot at every reconciliation, shoots
  of a project may ask for different ones, ONTAP refuses those in use.
* *Actuator and process.* Success and deletion mean what they say however often
  the process dies. Hard: a restart while a cluster is away, objects that go
  between two reads.
* *Webhook.* Trident's workloads are mutated, and nothing is refused because of it.
  Hard: the webhook comes after the operator, need not be reached, and meets
  objects that others edited.
* *Names.* Nothing but names keeps shoots apart; hard at lengths and hyphens.

The hazards, each at its line and with the properties that cover it, are in
`PROJECT.json`.

## 2. Modules

| Module | Models |
| --- | --- |
| `Actuator` | the process, startup, and the control of `Reconcile`, `Delete`, `ForceDelete`, `Migrate`, phase by phase |
| `ExtensionContract` | what the control of an Extension promises; `Actuator` and `Deployment` implement it (`Contract`) |
| `SvmManager` | `EnsureCompleteSVM` of all shoots of one project over several clusters |
| `ProjectService` | what that promises the project; `SvmManager` implements it (`Service`) |
| `Interfaces` | the addresses, from `Validate` to the LIFs, the backend and the network policy |
| `Credentials` | `validateAndEnsureCompleteUserState` and the way of the secret into the shoot |
| `CredentialRegister` | what that phase promises; `Credentials` implements it (`Register`) |
| `Deployment` | `DeployTrident`, the webhook configuration, `Delete`, and the GRM |
| `Webhook` | `Mutate` as an operator on objects |
| `Admission` | `Deployment` and `Webhook` composed, with the operator and the API server between them |
| `Names` | SVM, account and secret names, as operators |
| `MC...` | values of the constants for TLC |
| `...Proofs` | theorems and proofs of the module they are named after; `SvmServiceProofs` are those of `SvmManager` about `ProjectService` |

The models cut `Reconcile` where its state changes hands. `Actuator` has each phase
as one step or a few; the others are the insides. `SvmManager` has the
user and the secret as one step (`EnsureUser`), `Credentials` is the inside of
that step and assumes an SVM; both assume nothing of each other's state but that
an SVM's accounts move with it. `Interfaces` is the inside of the LIF steps on one
cluster, with an SVM that is ready once created. `Deployment` starts where the
credentials are known.

### Actuator

`process`, `probe` and `clients` are the process; `job[s]` is what a worker does;
`extension`, `valid` and `known` are the Extension, its provider configuration and
the Cluster resource; `deployed`, `webhook` and `succeeded` the results. `Start`,
`CreateAdminClient` and `StartManager` are `run` and `createAdminClient`: a cluster
that does not answer ends the process, which Kubernetes starts again. `Stop` ends
it anywhere. `ReconcileShootWebhookConfig` reads the Cluster a second time; without it
the nil pointer is used, and the panic, which the controller runtime recovers
(external), counts as an error. `LetGo` is `ForceDelete` or `Migrate`, which do
nothing: the Extension is then `left` and not `none`, for what it deployed stays. A call
that fails returns with its error (`Interrupted`), except in the lookup, which skips the
cluster (`Overlook`, or `GetSVMByName` where the cluster is away). `NumClusters > 0` is what `config.Validate` leaves of the configuration.
An SVM here runs once created and does not move.

`ExtensionContract` is the abstract specification: each shoot has an Extension, work
that is done for it (`nothing`, `reconcile` or `delete`) and the parts it has been
`given`. Only a reconciliation that began while the Extension was wanted gives, and it
may go on giving when a deletion was asked for meanwhile; only a deletion takes; and the
Extension goes in one step with the last part. `Actuator` has two parts per shoot,
Trident's resources and the webhook; the phases of `job` are the work. That success
is complete is not part of it: `SuccessIsComplete` holds in `Actuator`, which has the
ManagedResources as one, whereas in `Deployment` the GRM may take a part whose
deletion an update did not stop.

### Interfaces

`config[s]` is the provider configuration in the Extension, `job[s].request` the copy
that a reconciliation reads. `Validate` guards it. `KeepLif` leaves a LIF that was seen
alone whatever its address (`ServedOrRefused` counts on it); `CreateLif` creates one, and
ONTAP refuses a name that the SVM has or an address that is `InUse` (external). The
loop of `CreateSVM` and that of the validation each choose the node on their own
(`NodeAtCreation`, `NodeOfMissing`); `LifsAreSpread` needs them to agree. Their order
of LIFs is the same and one operator (`AfterLif`): creation looks at nothing, validation reads the
interfaces before the data LIFs and again before the management LIF.
`DeployBackend` and `DeployCwnp` take the addresses from the configuration, so that
after an edit the shoot has the new ones and the SVM the old ones: the code logs
and skips such a LIF on purpose ("Don't try to fix IP mismatches for now",
`svm.go:430-433`), and nothing is claimed of it. The list of nodes is assumed not to change and to name each node once (`svm.go:235-260` lists
the cluster's nodes); an empty one is an error return and so
`Interrupted`. There is one cluster, and always a firewall.

### SvmManager

`svm`, `lifs`, `users` and `up` are ONTAP; `job[s]` holds the local variables of
shoot `s`'s reconciliation. An SVM is a pair of cluster and name (`"primary"` for
the project's name, `"mc"` for the one with the suffix); this pair stands for its
UUID, which only its own cluster knows.

| Action | Code |
| --- | --- |
| `Begin`, `Probe`, `NotFound` | `GetSVMByName`, one cluster and one name per step; a cluster that is away is skipped, an SVM that does not run is ignored; the list of a cluster is read once, so the `-mc` name is tried only if it was listed |
| `Overlook` | a call of the lookup that fails although the cluster answers: without `SvmCollectionGet` the cluster is skipped (`svm.go:524-527`), without `SvmGet` the SVM counts as not running (`svm.go:577-581`) |
| `SelectWriteClient` | `getWriteClient`: any cluster may have the fewest volumes (the counts are data that nothing else depends on), one that fails ends it |
| `CreateSvm` | `CreateSVM` up to `SvmCreate` |
| `Probe`, `AwaitNvme`, `Retry` with `creating` | `waitForSvmReady`: look up on *all* clusters, then demand NVMe; the UUID found is then used with the write client (`at`) |
| `ValidateSVMRunningState`, `GetExistingNetworkInterfaces`, `KeepLif`, `CreateLif` | `validateAndEnsureCompleteSVMState` |
| `KeepLif`/`CreateLif` with `creating` | the LIFs of `CreateSVM`, which creates without looking |
| `EnsureUser` | `CreateUserAndSecret` and the successful return |
| `AttemptFails` | the query of `waitForSvmReady` itself fails: one more attempt |
| `Interrupted` | a call that fails anywhere else and ends the reconciliation with an error, or the end of the process |

Every remote call that changes something can succeed with its reply lost
(`Applied`). Read-only calls followed by a call to the same cluster share its
step: nothing was changed, and outside the lookup, where `Overlook` tells them apart, a
failure of either ends in the same return.
`steady` is history: the SVMs that have been running since the lookup began, whose
cluster has not come or gone, and that no failed call has hidden from this lookup. It loses what
`Overlook` hides, since the code may really double that: `getWriteClient` succeeds, and
a cluster with fewer volumes is given a second SVM. What `NeverDoublesASteadySvm` says is
that nothing else does, above all not a cluster that stays away.
`lost` is history: the LIFs that ONTAP lost and nobody has created again, so that
`Given(id)`, with `lifs`, is all an SVM was given. `ServedIsComplete` speaks of that: no
reconciliation looks after a LIF that is lost behind its back, the next one does.
Not told apart: addresses, nodes, aggregates, netmasks. All shoots of a project
are assumed to ask for the same number of data LIFs.

`ProjectService` is the abstract specification, without lookups, retries and write
clients. A shoot asks, and from then on `watched` has the SVMs that have been steady
ever since; it creates only while it watches none, adds LIFs one by one, and is served
with an SVM that was given all LIFs. It has a budget of `failures`, and only by spending
one may a shoot `Overlook` SVMs, those of one cluster that answers; whatever runs and
was not overlooked is not doubled. The refinement reads `watched` from `steady`,
`asking` from `pc`, `failures` from `faults`, and the phase of an SVM from its state: one that runs is `on` with or
without NVMe.

### Credentials

`secret[d][s]` (seed `d`), `account[u]` and `deployed[s]` are the three places of a
password; `pc[s]` and `held[s]` are the reconciliation and the password it
carries. `runsAs` is the name the SVM has at the moment. `setter[u]` is history:
who set the account's password last. A secret with a missing or empty password
is `Empty`; one that lost its username is in `nameless`. `user.go` looks at the
password only, so that a secret with a password and no username (`UsernameLost`) is
never written again, and `FetchCredentials` fails at it each time (`actuator.go:185-188`):
such a shoot waits for somebody to mend the secret, and `CredentialsHeal` leaves it out. `UserOf` stands for `getClusterUsername`, which cuts names to 25
characters, so that two shoots may share an account. Each action is one function of
`user.go` or one remote call in it; `NextStep` is the `switch` of
`validateAndEnsureCompleteUserState`. `UpdateSecret` merges `Get` and `Update`
because the resource version makes a change in between an error.

`CredentialRegister` is the abstract specification for shoots with accounts of their
own: `Renew` only when no secret could know the password, `Restore` only what
the secret kept, `Publish` and `Deploy` only the account's password. The refinement
maps the account to `account[UserOf[s]]` and the secret to the one on the shoot's seed.

### Deployment

`mr` is the ManagedResources, `shoot` the parts whose objects are in the shoot,
`pc`/`next` the controller in its loop over `Order` (`tridentResources` and then the
webhook). For `ExtensionContract` there is one shoot, whose given parts are the
ManagedResources that are `present`: one that is being deleted counts as taken, since
the GRM finishes in its own time. `Apply`, `Prune` and `OperatorInstalls` are the external GRM and
Trident operator: an object is applied only when its kind is known,
which makes `init` depend on `crds` and `backends` on the operator that `init`
installs; `keepObjects` parts survive `Prune`. `WaitUntilHealthy` ends when the CRDs
are healthy or their ManagedResource is gone: `DeployTrident` passes on a context
without a deadline, so there is no timeout, and the library's retries and the end
of the process are `Interrupted`.

### Webhook and Admission

An object is a record of its kind, its labels and its pod template; a map of
labels is `Nil` or has a state per key that the webhook knows. Containers have names
and the volumes they mount, volumes names: what the API server's validation, the
operator `Valid`, looks at. `Mutate` follows the `switch`; `MutateObjectLabels` returns `Nil`
for `Nil`, because the function writes into a map the caller does not get.

`Admission` extends `Deployment`: each of its actions is one of `Deployment`'s or leaves
`Deployment`'s variables alone. Added are Trident's objects in the shoot (`stored`), the
operator that writes them and applies the workloads again (`OperatorApplies`),
others that edit them, and what decides whether the webhook is asked: the
configuration in the shoot, the server, and the CA. All three are needed
(`Intercepted`); otherwise the object passes as it is, which is the library's
`failurePolicy: Ignore`. `RotateCA` changes the server's CA; the bundle in the
ManagedResource changes with the next `ReconcileShootWebhookConfig` only, because the
library would refresh ManagedResources named `ShootWebhooksResourceName` of the
library (`options.go:84`), while the actuator writes `extension-ontap-shoot`
(`actuator.go:46`). There is no firewall.

### Names

Names are sequences of characters, since the properties are about hyphens and
lengths; the prefix `shoot--` is a flag, the suffix one character. `ShootName` is
`strings.Cut` at the first `--`, `Username` replaces a hyphen at the front and cuts.
`SvmName` takes the kept places of the ID by their rank, which is what replacing
hyphens by nothing does. The word `credentials` in a secret's name counts as one character of
`Characters`.
The module has no state; `MCSharedAccount` takes `UserOf` of `Credentials` from it, for
two shoots whose names differ only where they are cut.
`AccountNamesFit`, `SecretNamesDiffer` and `AccountNamesDiffer` do not depend on the state;
the invariants of the run compare them in the initial state.

## 3. Runs

Bounds are the constants of the `.cfg` files. `MaxFaults` bounds how many
disturbances a behaviour has; what the disturbances are is `FaultKinds`.
Everything else is unbounded: reconciliations repeat for ever.

| Run | Instance | Checks | Shows |
| --- | --- | --- | --- |
| `CredentialsShared` | 2 shoots, 2 seeds, 1 shared account, 2 passwords, 3 disturbances of 9 kinds; all pairs out of 5 project IDs and some 90 namespaces, accounts cut to 2 | `TypeOK`, `LastSetterMatches`, `IInv`, `AccountsMeetOntap`, `SecretsAreApart`, `AccountsAreApart` | two writes that are not atomic never leave different passwords behind by themselves; the proofs' invariant; names keep shoots apart where they can |
| `CredentialsSole` | 1 shoot, 1 seed, 3 passwords, 4 disturbances of 8 kinds, fairness | `SecretMatchesAccount`, `NeverRotatesWorkingPassword`, `DeploysWorkingPassword`, `ImplementsRegister`, `CredentialsHeal` | no mismatch, no needless rotation, nothing stale deployed; the refinement; damage heals in all three places, but for a username that was lost alone |
| `CredentialsMigrated` | 1 shoot, 2 seeds, 2 migrations | `PasswordConsistencyEnsured` violated | finding 1 |
| `CredentialsSwitchedOver` | 1 shoot, secret lost, switchover, fairness | `MissingSecretIsRecreated` violated | finding 2 |
| `SvmShared` | 2 shoots, 2 clusters that are partners, 2 LIFs, 2 attempts, 2 disturbances of 5 kinds (outages, switchovers, failures, lost replies, lost LIFs) | `TypeOK`, `NeverDoublesASteadySvm`, `ServedIsComplete`, `IInv` | no doubling of what works but by a failed call of the lookup itself, success means completeness; the proofs' invariant |
| `SvmConverges` | 2 shoots, 2 clusters, 2 LIFs, 1 attempt, 1 disturbance of 6 kinds, fairness | `ProjectConverges`, `ServedDespiteOutage`, `ImplementsService` | two racing creators converge, after a failure in any place, one that makes a lookup overlook the SVM included; one cluster that is away for good does not keep a shoot from an SVM on the other; the refinement |
| `SvmSlowStart` | 1 shoot, 2 clusters, no disturbance | `CreatedOnlyIfAbsent` violated | finding 3 |
| `Deployment` | one Extension, 4 disturbances (failures, enabling and disabling, firewall), fairness | `TypeOK`, `InitFindsItsCrds`, `WithdrawnInOrder`, `ImplementsContract`, `DeploymentCompletes`, `DeletionCompletes` | order of CRDs and orchestrator, order of deletions; the refinement; completion |
| `Interfaces` | 2 shoots, 2 nodes, 6 quarrelling configurations of up to 3 data LIFs, 1 disturbance (edit, failure, lost reply, lost LIF), fairness | `TypeOK`, `LifsAreSpread`, `AddressesAreValid`, `ServedOrRefused` | LIFs stay spread whoever creates them; nothing invalid gets anywhere; only an address that is taken keeps a shoot waiting |
| `Actuator` | 2 shoots, 2 clusters, 3 disturbances of 6 kinds, fairness | `TypeOK`, `NeverDoublesASteadySvm`, `SuccessIsComplete`, `GoneIsClean`, `ImplementsContract`, `Settles` | restarts do not double SVMs that no failed call hid; success and deletion are complete; the refinement; every shoot gets what its owner asked for last |
| `Admission` | one Extension, 1 disturbance of the deployment and 2 of the webhook, fairness | `NeverRefused`, `WritesSettle`, `WorkloadsGetReady` | the webhook does its work although it comes last |
| `AdmissionLabels` | one Extension, nothing goes wrong | `LabelsAreAdded` violated | finding 4 |

Why the bounds are enough. Two shoots are the smallest race, and the code never
looks at another shoot but through the SVM; two clusters are what a MetroCluster
has and the smallest number for which the lookup order, the partner and a "wrong"
write client exist. Two LIFs are one data LIF and the management LIF, which
have different code; the data loop iterates in `Interfaces`. Two attempts make `Retry` take both branches. Passwords: an old, a
new and one in flight; the safety runs with a shared account need no third,
since only equality matters (and the theorems hold for any set). Two to four
disturbances cover every pair (a failure and a failure during its repair). The symmetry sets are of shoots, seeds and
passwords, which are only compared, and used in safety runs only. Two
disturbances and two shoots are what TLC manages for the safety of `SvmManager`
(4.2 million states, stopped SVMs left to `SvmConverges`), one for its liveness,
next to the race that needs none; the theorems have no such bound. Three data LIFs on two nodes are the smallest number for which the
node index wraps around; the configurations of `Interfaces` differ in length, in an
exchanged pair of addresses, in an address given twice, in one of another SVM and
in one that does not parse, or have no data LIFs at all, and each shoot may begin
with any of them, so that one edit is a second change. `Actuator` needs a stop and an outage for a restart during an outage, and one
more to disturb the repair. The names have every combination of hyphens and
one letter (`s`, which is what a hyphen at the front becomes) up to
two characters of project and three of shoot, around a limit of two. In `Admission`
the two mishaps are pairs such as an edit while the server is away, or two
rotations.

`CHECK_DEADLOCK FALSE` is set where the system may stop: `Deployment`,
`Admission`, `AdmissionLabels` and `Actuator`, with nothing left to do, and
`Interfaces`, with shoots that wait for their owners.

### Fairness

* `WF(Reconcile(s))`: a step that can be taken is taken eventually. The controller
  runtime goes on with a running reconciliation, requeues one that returned
  an error (rate limited), and gardenlet asks for reconciliations regularly
  (with `ignoreOperationAnnotation: false`, the value in
  `charts/gardener-extension-ontap/values.yaml:15`).
  The fairness is per shoot: several reconciliations run in parallel
  (`options.go:64`), and the queue does not starve a key. Weak
  fairness is enough, because a job's next step stays enabled until it is taken.
* `WF(Progress(id))`: ONTAP starts what is to run. Nothing is assumed in `SvmManager`
  of a cluster that is away: `ProjectConverges` has the premise that clusters come
  back, `ServedDespiteOutage` is about those that do not. `Actuator`, whose
  process cannot start without all clusters, has `WF(Recover(c))`.
* `WF(Apply(p) \/ Prune(p))`, `WF(OperatorInstalls)`: the GRM retries each
  ManagedResource, the operator is a controller.
* `WF(Process)`: Kubernetes restarts the pod. `WF(Worker(s))`: as for `Reconcile`.
  `WF(Mend(s))`: owners and gardenlet repair configurations and Clusters; only `Settles`
  needs it.
* `WF(ApplyWebhook)`, `WF(UpdateWebhook)`: the GRM again. `WF(OperatorApplies(o))`: the
  operator reconciles Trident's workloads periodically (external). `WF(Gone(o))`:
  deletions end. `WF(Reachable)`: the extension's server comes back.
* No fairness for any disturbance. The liveness properties speak of the time
  after the last one, which `MaxFaults` makes come. `CredentialsHeal` has the
  premise that a switchover is followed by a switchback; finding 2 is why. It also
  leaves out a shoot whose secret stays without a username.

### Findings

1. *Password consistency is not checked.* The comment at `pkg/trident/user.go:260`
   says that `validatePasswordConsistency` "ensures ONTAP and K8s passwords
   match", and `README.md:299` lists the check; the function compares
   nothing. A shoot that migrates to another seed, gets a new password there,
   and migrates back finds its old secret, which `Migrate` left. The
   old password is deployed and stays.
2. *No reset during a switchover.* `README.md:297` promises "Reset ONTAP password +
   Create K8s secret" for a lost secret. The reset names the SVM by the
   project (`user.go:310`), every other call by UUID; while the SVM has its `-mc`
   name the reset fails.
3. *Not running counts as absent.* `svm.go:497` says "SVM doesn't exist, create it
   completely", but an SVM that exists and does not run is also "not found".
   With a slow start (more than ten attempts), a second SVM is created on
   the other cluster without any failure. `ProjectConverges` shows that the
   shoots nevertheless end up on one complete SVM; the other one stays behind.
   The same becomes of an SVM that does run, on a cluster that answers, when a single
   call of the lookup fails or is throttled (`svm.go:524-527`, `577-581`): `Overlook` has
   it, `NeverDoublesASteadySvm` exempts it, and `ProjectConverges` covers what follows.
4. *Labels lost.* `mutateObjectLabels` "adds labels to the given object"
   (`mutator.go:135`), but not to one without labels: it makes a map that
   nobody gets (`mutator.go:138`). A CRD that is written without labels stays
   without `shoot-no-cleanup`.

## 4. Proofs

All theorems hold for every value of the constants that the modules' assumptions
allow: any number of shoots, seeds, clusters, LIFs, attempts, disturbances,
and any function from shoots to accounts.

**Credentials.** `TypeOK` and `LastSetterMatches` alone are not inductive: a
reconciliation that carries a password it read or generated several calls ago
could write it next to one that changed since. `CarriedPasswordFits` says, for
each step a job can be at, what its `held` password still has in common with the
secret and with the account: as long as the shoot is at `createSecret`, its
secret holds no password, and if it still is the last setter, `held` is the
account's. `SetByAnOwner` adds that a password was set by somebody the account
belongs to, from which `SoleOwnerConsistency` follows for shoots with an account of
their own. `Invariance` proves the conjunction `IInv` step by step;
`DeployedPasswordsWork` and `WorkingPasswordsStay` are the action properties that
follow from it; the second one adds what each kind of step can write
(`WorkingPairStays`).

**SvmManager.** `IInv` has three parts, proved one after the other, each using
the former. `Control`: types, and what the control flow guarantees. `Steadiness`: at
each point of the lookup, an SVM that has been running steadily lies on a cluster
still to come or unreachable; past the lookup it lies on an unreachable cluster
that `getWriteClient` has still to ask; hence `create` is not reached
(`NoDoubleOfSteadySvm`). The theorem shows what the code relies on here: the lookup
may skip a cluster that stays away, because the selection does not. Nothing of the kind
protects an SVM from a single call that fails at a cluster that answers: `Overlook` takes it out of
`steady`, and the code may double it. `Completeness`: what a job
saw or passed exists, and the inactive half of a MetroCluster SVM is never ahead of
the active one, so that a switchover loses nothing (`ServedAreComplete`). It is about
what an SVM was `Given`, LIFs that ONTAP lost included; with `lifs` alone it would not be
inductive, nor true, since a LIF may go right after it was seen. No theorem of
`SvmManager` needs an assumption about the kinds of disturbances.

**ProjectService.** `RefinesService`: every step of `SvmManager` is a step of the service
or a stutter. `Steadiness` gives the guard of `Create` (what is watched is empty at `create`),
`Completeness` those of `Serve` and `Move`; `OverlookEffect` shows that a shoot overlooks only
what is on a cluster that answers, and that it costs a failure; a lemma per kind of step shows what the
service sees of it.

**Deployment.** `CrdsAwaited` is the strengthening of `InitFindsItsCrds`: past the
first part of the loop the CRDs are in the shoot. It is inductive because nothing
takes them out again (`CrdsStay`: `keepObjects`), not even a deletion that
overtakes the loop. `WithdrawnInOrder` is inductive beside it: a deletion has asked for the
parts before the one it is at, and only a reconciliation makes any present again, beside
which no deletion runs (`DeletesInOrder`).

**ExtensionContract.** `RefinesContract` in `DeploymentProofs`: what is present when the last
deletion is asked for is the last part, by `WithdrawnInOrder`, so that step is the
contract's `Vanish`; what the GRM and the operator do is a stutter. `RefinesContract` in
`ActuatorProofs` needs of `Results` that there is an Extension wherever a job has begun, one that is to go wherever it
deletes, and that Trident's resources are gone when the webhook's go; the phases
that only concern the SVM are stutters, or the end of the work.

**CredentialRegister.** `RefinesRegister`: where each account has one owner and there is
one seed, every step of `Credentials` is a step of the register or a stutter. The
invariant of `Credentials` gives the guards of the register: a reset happens only
while the secret holds no password, what `CreateSecret` writes is the
account's.

**Admission.** `DeploymentInside` proves that a behaviour of `Admission` is one of
`Deployment`, so that its theorems carry over (`InitStillAfterCrds`).
`AdmissionTypes` shows that all that is stored is an object; `NothingRefused` and
`MutationSettles` are then facts about `Mutate` for all objects.

**Interfaces.** `IInv` says of a job that its request is valid and, past
the data LIFs, where it is; of LIFs, backends and policies that their addresses come
from valid configurations; and of each LIF that it is on `NodeAtCreation` of its index,
whichever loop created it (`LoopsAgree`). `AddressesAreValid` follows. `Spread` proves `LifsAreSpread` from the nodes by counting:
each LIF on a node, but for the node's first, has one of any other node close below it
(`BelowIsOfNode`), a different one for each, which exists as there are no gaps; so the
LIFs of one node without its first map into the other's without collisions
(`AtMostOneMore`).

**Names.** `AccountsFit`, `AccountsDiffer` and `SecretsDiffer`, for texts of any length and any
limit, and with them the three invariants of `CredentialsShared`. That a namespace is its
project part, the separator and the shoot's name rests on the first separator, which
exists because a set of numbers has a smallest one (`Parts`). That the name of an SVM has
no hyphen rests on the ranks, which number the kept places without gaps
(`RankedPlaces`); then the first hyphen of a secret's name ends the SVM's
(`FirstHyphen`), what is behind it is the namespace, and two shoots with one secret are
one.

**Actuator.** `Connected`: a running process has a client for every cluster,
which is what `CreateAdminClient` enforces. Then, as in `SvmManager`, a steady SVM lies
ahead of the lookup or is unreachable, and ahead of the selection, which fails at
it (`Overlook` is no way around this: what it hides is not steady); and each result implies those before it, from which
`SuccessesAreComplete` and `DeletionsAreComplete` follow.

Only model-checked: all liveness (`CredentialsHeal`, `ProjectConverges`,
`ServedDespiteOutage`, `DeploymentCompletes`, `DeletionCompletes`, `WorkloadsGetReady`,
`ServedOrRefused`, `Settles`), which is beyond the proof system, and the violations.
Every invariant and every action property of a passing run is a theorem.

## 5. Not modelled, and the plan

Modelled with all their operations: SVM manager, users and secrets, deployment,
actuator, admin clients, webhook, names. Partly: validation of the controller
configuration (a number of clusters), templates (which addresses and
passwords they carry), the process (start, connections, end).

Not modelled:

* *Volume counts.* `getWriteClient` takes the cluster with the fewest volumes, missing
  counts being zero. The models leave the choice free, so that all they show
  holds for any counts; `svm_test.go` pins the choice down.
* *Text.* Templates, YAML files, Helm charts, logging. `charts/trident` writes network
  policies with `/32`, which is not what an IPv6 address wants, although `Validate`
  accepts one; a property of text.
* *Generated code*: conversion, deep copies, registration, defaults.
* *Wiring*: options, leader election, health checks, heartbeat.
* *The shoot after the end.* What becomes of Trident's kept objects once the webhook is
  gone, or of SVMs and accounts, which `Delete` leaves, is promised nowhere.
* *Too few workers.* The wait for the CRDs has no deadline, and five workers
  (`options.go:64`) may all wait. The models have a worker for every Extension and a GRM that gets
  the CRDs healthy; the code does nothing to end such waits.
* *Stuck deletions.* `Prune` always succeeds: that a shoot's objects go once their
  kinds are known is left to the GRM.
* *Netmask and BGP*: `createNetworkInterfaceForSvm` asks for BGP peers to choose between
  `/24` and `/32`.

What could follow: the refinement of `EnsureUser` in `SvmManager` by `Credentials`, of the
phases of `Actuator` by their modules.

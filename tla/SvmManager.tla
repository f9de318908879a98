------------------------------ MODULE SvmManager ------------------------------
(***************************************************************************)
(* EnsureCompleteSVM (pkg/trident/svm.go): find the SVM of a project on    *)
(* one of the configured ONTAP clusters, or create it, and give it what it *)
(* lacks: data LIFs, management LIF, a user per shoot.                     *)
(*                                                                         *)
(* Every shoot of the project reconciles on its own, with one remote call  *)
(* per step; read-only calls that are followed by a call to the same       *)
(* cluster share its step.  A call that fails ends the reconciliation      *)
(* (Interrupted), but not in the lookup, which logs the error and goes on  *)
(* as if there were nothing to find (Overlook), nor in waitForSvmReady,    *)
(* which tries again (AttemptFails).                                       *)
(* The clusters, external, come and go, start SVMs in their own time and   *)
(* move them in MetroCluster switchovers.  User and secret are one step    *)
(* here; Credentials is the model of what is inside.                       *)
(***************************************************************************)
EXTENDS Naturals

CONSTANTS
    Shoots,      \* the shoots of one project, which share its SVM
    NumClients,  \* number of configured clusters; the order is the config's
    Partner,     \* the MetroCluster partner of each cluster
    NumLifs,     \* data LIFs 1..NumLifs-1, then the management LIF
    MaxAttempts, \* attempts of waitForSvmReady (10 in the code)
    None,        \* no SVM
    FaultKinds,  \* the disturbances a run allows
    MaxFaults    \* bound: how many disturbances a behaviour has

Clients == 1..NumClients
Lifs == 1..NumLifs

\* An SVM is known by its cluster and by whether it has the project's name
\* ("primary") or that name with the suffix -mc ("mc").
Svms == Clients \X {"primary", "mc"}

ASSUME ConstantsAssumption ==
    /\ NumClients \in Nat \ {0} /\ NumLifs \in Nat \ {0, 1}
    /\ MaxAttempts \in Nat \ {0} /\ MaxFaults \in Nat
    /\ Partner \in [Clients -> Clients]
    /\ \A c, d \in Clients : Partner[c] = Partner[d] => c = d
    /\ None \notin Svms

VARIABLES
    svm,     \* the state of each SVM
    lifs,    \* the LIFs each SVM has
    lost,    \* history: LIFs that ONTAP lost and nobody has created again
    users,   \* the shoots that have a user on it
    up,      \* the clusters that answer
    job,     \* each shoot's reconciliation
    served,  \* the SVM of each shoot's last successful EnsureCompleteSVM
    faults   \* disturbances left

vars == <<svm, lifs, lost, users, up, job, served, faults>>
world == <<svm, lifs, lost, users, up>>

\* "ready" is running with NVMe enabled, "standby" the inactive half of a
\* MetroCluster SVM: its state is "stopped" and its configuration read-only.
SvmStates == {"absent", "starting", "running", "ready", "stopped", "standby"}
Running(id) == svm[id] \in {"running", "ready"}

Steps == {"idle", "probe", "nvme", "validate", "select", "create",
          "readLifs", "lifs", "user"}

Jobs == [pc : Steps,
         creating : BOOLEAN,             \* CreateSVM, not validation
         client : 1..(NumClients + 1),   \* the cluster a loop is at
         name : {"primary", "mc"},       \* ... and the name it looks for
         at : Clients,                   \* the client later calls use
         target : Svms \cup {None},      \* the SVM (its UUID) they address
         tries : 0..(MaxAttempts - 1),   \* failed attempts of waitForSvmReady
         lif : 1..(NumLifs + 1),         \* the LIF a loop is at
         seen : SUBSET Lifs,             \* existingInterfaces
         steady : SUBSET Svms]           \* history: see Begin

Idle == [pc |-> "idle", creating |-> FALSE, client |-> 1, name |-> "primary",
         at |-> 1, target |-> None, tries |-> 0, lif |-> 1, seen |-> {},
         steady |-> {}]

TypeOK ==
    /\ svm \in [Svms -> SvmStates]
    /\ lifs \in [Svms -> SUBSET Lifs]
    /\ lost \in [Svms -> SUBSET Lifs]
    /\ users \in [Svms -> SUBSET Shoots]
    /\ up \in SUBSET Clients
    /\ job \in [Shoots -> Jobs]
    /\ served \in [Shoots -> Svms \cup {None}]
    /\ faults \in 0..MaxFaults

Init ==
    /\ svm = [id \in Svms |-> "absent"]
    /\ lifs = [id \in Svms |-> {}]
    /\ lost = [id \in Svms |-> {}]
    /\ users = [id \in Svms |-> {}]
    /\ up = Clients
    /\ job = [s \in Shoots |-> Idle]
    /\ served = [s \in Shoots |-> None]
    /\ faults = MaxFaults

-----------------------------------------------------------------------------

Fault(kind) == kind \in FaultKinds /\ faults > 0 /\ faults' = faults - 1

GoTo(s, j) == job' = [job EXCEPT ![s] = j]
At(s, step) == job[s].pc = step

\* EnsureCompleteSVM returns: success, error or the end of the process.
Return(s) == GoTo(s, Idle)

\* A write took effect; its caller goes on, or never hears of it.
Applied(s, j) ==
    \/ GoTo(s, j) /\ UNCHANGED faults
    \/ Return(s) /\ Fault("lostReply")

\* The cluster that a job's client leads to knows the job's SVM, or lets it
\* be changed: a UUID of another cluster is unknown there.
Knows(j) == j.at \in up /\ j.target[1] = j.at
Accepts(j) == Knows(j) /\ svm[j.target] \notin {"absent", "standby"}

-----------------------------------------------------------------------------
(* GetSVMByName: cluster by cluster, the project's name, then the other.   *)

\* steady is to hold the SVMs that have been running, on clusters that have
\* not come or gone, ever since this moment, and that no failed call has
\* hidden from this lookup.
Begin(s) ==
    /\ At(s, "idle")
    /\ GoTo(s, [Idle EXCEPT !.pc = "probe", !.steady = {id \in Svms : Running(id)}])
    /\ UNCHANGED <<world, served, faults>>

\* MUTANT: a cluster that does not answer ends the lookup.
ProbeOrFail(s) ==
    LET j == job[s]
        found == j.client \in up /\ Running(<<j.client, j.name>>)
        fallback == j.name = "primary" /\ svm[<<j.client, "mc">>] # "absent"
    IN  /\ At(s, "probe") /\ j.client \in Clients
        /\ \/ /\ j.client \notin up
              /\ Return(s)
           \/ /\ found
              /\ GoTo(s, [j EXCEPT !.target = <<j.client, j.name>>,
                                   !.pc = IF j.creating THEN "nvme" ELSE "validate"])
           \/ /\ j.client \in up /\ ~found
              /\ GoTo(s, IF fallback THEN [j EXCEPT !.name = "mc"]
                          ELSE [j EXCEPT !.client = @ + 1, !.name = "primary"])
        /\ UNCHANGED <<world, served, faults>>

\* A cluster that does not answer is skipped, an SVM that is not running is
\* ignored, and one of the other name is tried only if the cluster listed it
\* by then.  A cluster that goes after the listing skips only the SVM asked
\* for.
Probe(s) ==
    LET j == job[s]
        found == j.client \in up /\ Running(<<j.client, j.name>>)
        fallback == j.name = "primary" /\ svm[<<j.client, "mc">>] # "absent"
    IN  /\ At(s, "probe") /\ j.client \in Clients
        /\ \/ /\ found
              /\ GoTo(s, [j EXCEPT !.target = <<j.client, j.name>>,
                                   !.pc = IF j.creating THEN "nvme" ELSE "validate"])
           \/ /\ ~found /\ fallback
              /\ GoTo(s, [j EXCEPT !.name = "mc"])
           \/ /\ ~found /\ (fallback => j.client \notin up)
              /\ GoTo(s, [j EXCEPT !.client = @ + 1, !.name = "primary"])
        /\ UNCHANGED <<world, served, faults>>

\* A call fails although the cluster answers: the lookup logs it and goes on.
\* Without a list (SvmCollectionGet) the cluster is skipped; without its
\* state (SvmGet) an SVM counts as one that does not run.
Overlook(s) ==
    LET j == job[s]
        here == <<j.client, j.name>>
        mc == <<j.client, "mc">>
    IN  /\ At(s, "probe") /\ j.client \in up /\ Fault("failed")
        /\ \/ /\ j.name = "primary"
              /\ GoTo(s, [j EXCEPT !.client = @ + 1, !.steady = @ \ {here, mc}])
           \/ /\ j.name = "primary" /\ svm[here] # "absent" /\ svm[mc] # "absent"
              /\ GoTo(s, [j EXCEPT !.name = "mc", !.steady = @ \ {here}])
           \/ /\ j.name = "mc"
              /\ GoTo(s, [j EXCEPT !.client = @ + 1, !.name = "primary",
                                   !.steady = @ \ {here}])
        /\ UNCHANGED <<world, served>>

\* MUTANT: one attempt more than allowed.
RetryOnceMore(s) ==
    IF job[s].tries < MaxAttempts
    THEN GoTo(s, [job[s] EXCEPT !.pc = "probe", !.client = 1, !.name = "primary",
                                !.target = None, !.tries = @ + 1])
    ELSE Return(s)

\* One attempt of waitForSvmReady failed.
Retry(s) ==
    LET j == job[s]
    IN  IF j.tries + 1 < MaxAttempts
        THEN GoTo(s, [j EXCEPT !.pc = "probe", !.client = 1, !.name = "primary",
                               !.target = None, !.tries = @ + 1])
        ELSE Return(s)

\* ErrSvmNotFound: EnsureCompleteSVM creates the SVM, waitForSvmReady waits.
NotFound(s) ==
    /\ At(s, "probe") /\ job[s].client \notin Clients
    /\ IF job[s].creating THEN Retry(s)
       ELSE GoTo(s, [job[s] EXCEPT !.pc = "select", !.client = 1])
    /\ UNCHANGED <<world, served, faults>>

-----------------------------------------------------------------------------
(* CreateSVM                                                               *)

\* MUTANT: skip a cluster that fails, as GetSVMByName does.
SelectReachable(s) ==
    LET j == job[s]
    IN  /\ At(s, "select")
        /\ IF j.client \in Clients
           THEN \E best \in {j.at} \cup ({j.client} \cap up) :
                    GoTo(s, [j EXCEPT !.at = best, !.client = @ + 1])
           ELSE GoTo(s, [j EXCEPT !.pc = "create"])
        /\ UNCHANGED <<world, served, faults>>

\* getWriteClient.  Any cluster may turn out to have the fewest volumes; the
\* first is the first candidate.  A cluster that fails ends it.
SelectWriteClient(s) ==
    LET j == job[s]
    IN  /\ At(s, "select")
        /\ \/ /\ j.client \in up
              /\ \E best \in {j.at, j.client} :
                    GoTo(s, [j EXCEPT !.at = best, !.client = @ + 1])
           \/ /\ j.client \in Clients \ up
              /\ Return(s)
           \/ /\ j.client \notin Clients
              /\ GoTo(s, [j EXCEPT !.pc = "create"])
        /\ UNCHANGED <<world, served, faults>>

\* Nodes, aggregates, SvmCreate.  A cluster refuses a name it has.
CreateSvm(s) ==
    LET j == job[s]
        id == <<j.at, "primary">>
    IN  /\ At(s, "create")
        /\ \/ /\ j.at \in up /\ svm[id] = "absent"
              /\ svm' = [svm EXCEPT ![id] = "starting"]
              /\ Applied(s, [j EXCEPT !.pc = "probe", !.creating = TRUE, !.client = 1,
                                      !.name = "primary", !.steady = {}])
           \/ /\ j.at \notin up \/ svm[id] # "absent"
              /\ Return(s)
              /\ UNCHANGED <<svm, faults>>
        /\ UNCHANGED <<lifs, lost, users, up, served>>

\* The rest of an attempt of waitForSvmReady, once the SVM was found: from
\* here its UUID is used with the write client, wherever it was found.
AwaitNvme(s) ==
    LET j == job[s]
    IN  /\ At(s, "nvme")
        /\ IF j.target[1] \in up /\ svm[j.target] = "ready"
           THEN GoTo(s, [j EXCEPT !.pc = "lifs"])
           ELSE Retry(s)
        /\ UNCHANGED <<world, served, faults>>

\* Its query of the SVM fails: one more attempt that did.
AttemptFails(s) ==
    /\ At(s, "nvme") /\ Fault("failed")
    /\ Retry(s)
    /\ UNCHANGED <<world, served>>

-----------------------------------------------------------------------------
(* validateAndEnsureCompleteSVMState                                       *)

ValidateSVMRunningState(s) ==
    LET j == job[s]
    IN  /\ At(s, "validate")
        /\ IF j.target[1] \in up /\ svm[j.target] = "ready"
           THEN GoTo(s, [j EXCEPT !.pc = "readLifs", !.at = j.target[1]])
           ELSE Return(s)
        /\ UNCHANGED <<world, served, faults>>

\* MUTANT: the answer lacks the names of the interfaces.
ReadNoInterfaces(s) ==
    /\ At(s, "readLifs")
    /\ IF Knows(job[s]) THEN GoTo(s, [job[s] EXCEPT !.pc = "lifs"]) ELSE Return(s)
    /\ UNCHANGED <<world, served, faults>>

\* getExistingNetworkInterfaces, once before the data LIFs and once more
\* before the management LIF.
GetExistingNetworkInterfaces(s) ==
    LET j == job[s]
    IN  /\ At(s, "readLifs")
        /\ IF Knows(j) THEN GoTo(s, [j EXCEPT !.pc = "lifs", !.seen = lifs[j.target]])
           ELSE Return(s)
        /\ UNCHANGED <<world, served, faults>>

\* MUTANT: the management LIF is taken for the last data LIF.
AfterLifTooSoon(j) ==
    [j EXCEPT !.lif = @ + 1,
              !.pc = IF j.lif + 1 >= NumLifs THEN "user" ELSE "lifs"]

\* The job after the LIF it was at.
AfterLif(j) ==
    [j EXCEPT !.lif = @ + 1,
              !.pc = IF j.lif = NumLifs THEN "user"
                     ELSE IF ~j.creating /\ j.lif + 1 = NumLifs THEN "readLifs"
                     ELSE "lifs"]

\* A LIF that was seen is left alone, whatever its address.
KeepLif(s) ==
    /\ At(s, "lifs") /\ job[s].lif \in job[s].seen
    /\ GoTo(s, AfterLif(job[s]))
    /\ UNCHANGED <<world, served, faults>>

\* createNetworkInterfaceForSvm.  An SVM refuses a LIF name it has.
CreateLif(s) ==
    LET j == job[s]
    IN  /\ At(s, "lifs") /\ j.lif \notin j.seen
        /\ \/ /\ Accepts(j) /\ j.lif \notin lifs[j.target]
              /\ lifs' = [lifs EXCEPT ![j.target] = @ \cup {j.lif}]
              /\ lost' = [lost EXCEPT ![j.target] = @ \ {j.lif}]
              /\ Applied(s, AfterLif(j))
           \/ /\ ~Accepts(j) \/ j.lif \in lifs[j.target]
              /\ Return(s)
              /\ UNCHANGED <<lifs, lost, faults>>
        /\ UNCHANGED <<svm, users, up, served>>

\* MUTANT: success, although ONTAP refused the user.
EnsureUserAnyway(s) ==
    LET j == job[s]
    IN  /\ At(s, "user")
        /\ users' = IF Accepts(j) THEN [users EXCEPT ![j.target] = @ \cup {s}] ELSE users
        /\ served' = [served EXCEPT ![s] = j.target]
        /\ Return(s)
        /\ UNCHANGED <<svm, lifs, lost, up, faults>>

\* CreateUserAndSecret, and with it EnsureCompleteSVM, succeeds.
EnsureUser(s) ==
    LET j == job[s]
    IN  /\ At(s, "user")
        /\ \/ /\ Accepts(j) \/ (Knows(j) /\ s \in users[j.target])
              /\ users' = [users EXCEPT ![j.target] = @ \cup {s}]
              /\ served' = [served EXCEPT ![s] = j.target]
           \/ /\ ~Accepts(j) /\ ~(Knows(j) /\ s \in users[j.target])
              /\ UNCHANGED <<users, served>>
        /\ Return(s)
        /\ UNCHANGED <<svm, lifs, lost, up, faults>>

\* A call fails without effect, and the reconciliation with it, or the
\* process stops.
Interrupted(s) ==
    /\ ~At(s, "idle")
    /\ Fault("failed")
    /\ Return(s)
    /\ UNCHANGED <<world, served>>

-----------------------------------------------------------------------------
(* The ONTAP clusters.                                                     *)

\* What changed disturbs these SVMs.
Unsteady(ids) ==
    job' = [s \in Shoots |-> [job[s] EXCEPT !.steady = @ \ ids]]

SvmStarts(id) ==
    /\ svm[id] = "starting"
    /\ svm' = [svm EXCEPT ![id] = "running"]
    /\ UNCHANGED <<lifs, lost, users, up, job, served, faults>>

NvmeEnabled(id) ==
    /\ svm[id] = "running"
    /\ svm' = [svm EXCEPT ![id] = "ready"]
    /\ UNCHANGED <<lifs, lost, users, up, job, served, faults>>

Stop(id) ==
    /\ Running(id) /\ Fault("stop")
    /\ svm' = [svm EXCEPT ![id] = "stopped"]
    /\ Unsteady({id})
    /\ UNCHANGED <<lifs, lost, users, up, served>>

Restart(id) ==
    /\ svm[id] = "stopped"
    /\ svm' = [svm EXCEPT ![id] = "running"]
    /\ UNCHANGED <<lifs, lost, users, up, job, served, faults>>

LifLost(id) ==
    /\ Fault("lifLost")
    /\ \E l \in lifs[id] :
          /\ lifs' = [lifs EXCEPT ![id] = @ \ {l}]
          /\ lost' = [lost EXCEPT ![id] = @ \cup {l}]
    /\ UNCHANGED <<svm, users, up, job, served>>

Outage(c) ==
    /\ c \in up /\ Fault("outage")
    /\ up' = up \ {c}
    /\ Unsteady({c} \X {"primary", "mc"})
    /\ UNCHANGED <<svm, lifs, lost, users, served>>

Recover(c) ==
    /\ c \in Clients \ up
    /\ up' = up \cup {c}
    /\ Unsteady({c} \X {"primary", "mc"})
    /\ UNCHANGED <<svm, lifs, lost, users, served, faults>>

\* The SVM moves from one half to the other, with its configuration.
Move(from, to) ==
    /\ svm[from] = "ready" /\ svm[to] \in {"absent", "standby"}
    /\ Fault("switchover")
    /\ svm' = [svm EXCEPT ![from] = "standby", ![to] = "ready"]
    /\ lifs' = [lifs EXCEPT ![to] = lifs[from]]
    /\ lost' = [lost EXCEPT ![to] = lost[from]]
    /\ users' = [users EXCEPT ![to] = users[from]]
    /\ Unsteady({from, to})
    /\ UNCHANGED <<up, served>>

SwitchoverOrBack(c) ==
    LET primary == <<c, "primary">>
        mc == <<Partner[c], "mc">>
    IN  c # Partner[c] /\ (Move(primary, mc) \/ Move(mc, primary))

-----------------------------------------------------------------------------

Reconcile(s) ==
    \/ Begin(s) \/ Probe(s) \/ NotFound(s)
    \/ SelectWriteClient(s) \/ CreateSvm(s) \/ AwaitNvme(s)
    \/ ValidateSVMRunningState(s) \/ GetExistingNetworkInterfaces(s)
    \/ KeepLif(s) \/ CreateLif(s) \/ EnsureUser(s)

Progress(id) == SvmStarts(id) \/ NvmeEnabled(id) \/ Restart(id)

Ontap ==
    \/ \E id \in Svms : Progress(id) \/ Stop(id) \/ LifLost(id)
    \/ \E c \in Clients : Outage(c) \/ Recover(c) \/ SwitchoverOrBack(c)

Mishap(s) == Overlook(s) \/ AttemptFails(s) \/ Interrupted(s)

Next == (\E s \in Shoots : Reconcile(s) \/ Mishap(s)) \/ Ontap

Spec == Init /\ [][Next]_vars

\* Reconciliations go on and are repeated (a failed one is queued again,
\* gardenlet asks for others), and SVMs start.  A cluster that is away may
\* stay away.
FairSpec ==
    /\ Spec
    /\ \A s \in Shoots : WF_vars(Reconcile(s))
    /\ \A id \in Svms : WF_vars(Progress(id))

-----------------------------------------------------------------------------
(* Safety.                                                                 *)

\* No reconciliation creates an SVM while one of the project has been
\* running all along, unless a call of its lookup failed at that SVM, or the
\* SVM's cluster came or went meanwhile.  An SVM on a cluster that is
\* unreachable all along is skipped like one at which a call fails, but then
\* getWriteClient fails hard.
NeverDoublesASteadySvm ==
    \A s \in Shoots : At(s, "create") => job[s].steady = {}

\* What an SVM has been given: a LIF that ONTAP loses counts until it is back.
Given(id) == lifs[id] \cup lost[id]

\* An SVM with which EnsureCompleteSVM succeeded has been given every LIF and
\* the shoot's user, whichever way it got them, alone or along with other
\* shoots, and keeps them through stops, outages and switchovers; it lacks
\* only what ONTAP itself lost.
ServedIsComplete ==
    \A s \in Shoots : served[s] # None =>
        Given(served[s]) = Lifs /\ s \in users[served[s]]

\* What the control flow of a job guarantees at each step.
ControlFits(j) ==
    /\ j.pc \in {"nvme", "validate", "readLifs", "lifs", "user"} => j.target \in Svms
    /\ j.pc \in {"probe", "select", "create", "nvme", "validate"} =>
          j.lif = 1 /\ j.seen = {}
    /\ j.pc \in {"readLifs", "lifs"} => j.lif \in Lifs
    /\ j.pc = "nvme" => j.creating

\* A steady SVM runs, and the lookup is yet to come to it, or cannot reach
\* it; then getWriteClient is yet to come to its cluster, and to fail.
SteadyFits(j) ==
    /\ \A id \in j.steady : Running(id)
    /\ j.pc = "probe" /\ ~j.creating =>
          \A id \in j.steady :
              \/ id[1] \notin up \/ id[1] > j.client
              \/ id[1] = j.client /\ (j.name = "primary" \/ id[2] = "mc")
    /\ j.pc = "select" => \A id \in j.steady : id[1] \notin up /\ id[1] >= j.client
    /\ j.pc = "create" => j.steady = {}

\* The LIFs a job has passed are there, and so are those it has seen.
LifsFit(j) ==
    /\ j.pc \in {"readLifs", "lifs"} => \A l \in Lifs : l < j.lif => l \in Given(j.target)
    /\ j.pc = "lifs" => j.seen \subseteq Given(j.target)
    /\ j.pc = "user" => Given(j.target) = Lifs

\* The passive half of a MetroCluster SVM is not ahead of the active one.
Passive(id) == svm[id] \in {"absent", "standby"}
Behind(id, other) ==
    Passive(id) => Given(id) \subseteq Given(other) /\ users[id] \subseteq users[other]
HalvesFit ==
    \A c \in Clients :
        /\ Behind(<<c, "primary">>, <<Partner[c], "mc">>)
        /\ Behind(<<Partner[c], "mc">>, <<c, "primary">>)

Control == TypeOK /\ \A s \in Shoots : ControlFits(job[s])
Steadiness == \A s \in Shoots : SteadyFits(job[s])
Completeness == HalvesFit /\ ServedIsComplete /\ \A s \in Shoots : LifsFit(job[s])
IInv == Control /\ Steadiness /\ Completeness

\* What a project sees of all this: whether its SVMs run, which shoots wait
\* for one, and the SVMs that have been steady meanwhile.
PhaseOf ==
    [state \in SvmStates |->
        CASE state \in {"running", "ready"} -> "on"
          [] state \in {"starting", "stopped"} -> "off"
          [] OTHER -> state]
Phases == [id \in Svms |-> PhaseOf[svm[id]]]
Asking == {s \in Shoots : ~At(s, "idle")}
Watched == [s \in Shoots |-> job[s].steady]

Service == INSTANCE ProjectService WITH
    phase <- Phases, asking <- Asking, watched <- Watched, failures <- faults

\* However it loops, skips, retries and races over the clusters,
\* EnsureCompleteSVM does what ProjectService promises.
ImplementsService == Service!Spec

\* "SVM doesn't exist, create it completely" (comment at svm.go:497): an SVM
\* is created only when the project has none.
CreatedOnlyIfAbsent ==
    [][\A id \in Svms :
          svm[id] = "absent" /\ svm'[id] = "starting"
          => \A other \in Svms : svm[other] = "absent"]_vars

-----------------------------------------------------------------------------
(* Liveness.                                                               *)

\* After the last disturbance, and once the clusters are back, the project
\* ends up with one complete SVM that all its shoots use, however many were
\* created on the way.
ProjectConverges ==
    (\A c \in Clients : []<>(c \in up)) =>
    <>[](\E id \in Svms :
            /\ svm[id] = "ready" /\ id[1] \in up
            /\ lifs[id] = Lifs
            /\ \A s \in Shoots : s \in users[id] /\ served[s] = id)

\* A cluster that is away for good does not keep a shoot from an SVM that is
\* up on another one, wherever in the configuration and under whichever of
\* its names: every shoot ends up with an SVM that can be reached.
ServedDespiteOutage ==
    (\E id \in Svms : <>[](svm[id] = "ready" /\ id[1] \in up)) =>
        \A s \in Shoots : <>[](served[s] # None /\ served[s][1] \in up)

=============================================================================

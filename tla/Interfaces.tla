------------------------------- MODULE Interfaces -------------------------------
(***************************************************************************)
(* The addresses of a project's SVM: from the configuration of each shoot  *)
(* (pkg/apis/ontap/v1alpha1, TridentConfig) to the LIFs that are spread    *)
(* over the nodes of the ONTAP cluster (pkg/trident/svm.go), and to the    *)
(* backend and the network policy in the shoot (deploy_trident.go), which  *)
(* are made from the configuration and not from the LIFs.                  *)
(*                                                                         *)
(* There is one cluster here and the SVM is ready once created: SvmManager *)
(* is the model of what that takes.  A LIF is known by its name: data LIFs *)
(* are 1, 2, ... (data_lif+0, ... in ONTAP), the management LIF is 0.      *)
(***************************************************************************)
EXTENDS Naturals, Sequences, FiniteSets

CONSTANTS
    Shoots,     \* the shoots of one project, which share its SVM
    Nodes,      \* the nodes of the ONTAP cluster, in the order it lists them
    Addresses,  \* what parses as an IP address
    Foreign,    \* those of them that other SVMs of the cluster use
    Requests,   \* the configurations that owners of shoots write
    MaxData,    \* bound: data LIFs in a configuration
    None,
    FaultKinds, \* the disturbances a run allows
    MaxFaults   \* bound: how many disturbances a behaviour has

Mgmt == 0
DataLifs == 1..MaxData
LifNames == {Mgmt} \cup DataLifs

\* What a configuration has for its LIFs, an address or not.
LifsOf(r) == {Mgmt} \cup 1..Len(r.data)
AddressOf(r, l) == IF l = Mgmt THEN r.mgmt ELSE r.data[l]
AddressesOf(r) == {AddressOf(r, l) : l \in LifsOf(r)}
Texts == UNION {AddressesOf(r) : r \in Requests}

NodeNames == {Nodes[i] : i \in 1..Len(Nodes)}
Lifs == [address : Texts, node : NodeNames]

ASSUME ConstantsAssumption ==
    /\ Len(Nodes) \in Nat \ {0}
    /\ \A i, k \in 1..Len(Nodes) : Nodes[i] = Nodes[k] => i = k
    /\ MaxData \in Nat \ {0} /\ MaxFaults \in Nat
    /\ None \notin Texts /\ None \notin Lifs /\ None \notin Requests
    /\ \A r \in Requests : r.data \in Seq(Texts) /\ Len(r.data) <= MaxData

VARIABLES
    config,   \* the configuration in each shoot's Extension
    svm,      \* the SVM exists
    lifs,     \* its LIFs, None where there is none
    job,      \* each shoot's reconciliation
    backend,  \* the management address in each shoot's backend
    policy,   \* the addresses that its network policy lets through, {} if there is none
    faults    \* disturbances left

vars == <<config, svm, lifs, job, backend, policy, faults>>

Steps == {"idle", "ensure", "create", "read", "lifs", "backend", "cwnp"}

Jobs == [pc : Steps,
         request : Requests \cup {None},  \* the configuration as it was read
         creating : BOOLEAN,              \* CreateSVM, not validation
         lif : LifNames,                  \* the LIF it is at
         seen : SUBSET LifNames]          \* existingInterfaces

Idle == [pc |-> "idle", request |-> None, creating |-> FALSE, lif |-> 1, seen |-> {}]

Exists(l) == lifs[l] # None

\* TridentConfig.Validate.  Nothing is said of an address that is there twice.
Validate(r) == r.data # <<>> /\ AddressesOf(r) \subseteq Addresses

\* The types, and the bounds of the loop over the data LIFs.
TypeOK ==
    /\ config \in [Shoots -> Requests]
    /\ svm \in BOOLEAN
    /\ lifs \in [LifNames -> Lifs \cup {None}]
    /\ job \in [Shoots -> Jobs]
    /\ \A s \in Shoots : job[s].pc = "lifs" => job[s].lif \in LifsOf(job[s].request)
    /\ backend \in [Shoots -> Texts \cup {None}]
    /\ policy \in [Shoots -> SUBSET Texts]
    /\ faults \in 0..MaxFaults

Init ==
    /\ config \in [Shoots -> Requests]
    /\ svm = FALSE
    /\ lifs = [l \in LifNames |-> None]
    /\ job = [s \in Shoots |-> Idle]
    /\ backend = [s \in Shoots |-> None]
    /\ policy = [s \in Shoots |-> {}]
    /\ faults = MaxFaults

Fault(kind) == kind \in FaultKinds /\ faults > 0 /\ faults' = faults - 1

GoTo(s, j) == job' = [job EXCEPT ![s] = j]
At(s, step) == job[s].pc = step
Return(s) == GoTo(s, Idle)

-----------------------------------------------------------------------------

\* MUTANT: the addresses are not validated.
BeginUnchecked(s) ==
    /\ At(s, "idle") /\ config[s].data # <<>>
    /\ GoTo(s, [Idle EXCEPT !.pc = "ensure", !.request = config[s]])
    /\ UNCHANGED <<config, svm, lifs, backend, policy, faults>>

\* Reconcile reads the Extension once.
Begin(s) ==
    /\ At(s, "idle") /\ Validate(config[s])
    /\ GoTo(s, [Idle EXCEPT !.pc = "ensure", !.request = config[s]])
    /\ UNCHANGED <<config, svm, lifs, backend, policy, faults>>

EnsureCompleteSVM(s) ==
    /\ At(s, "ensure")
    /\ GoTo(s, [job[s] EXCEPT !.pc = IF svm THEN "read" ELSE "create"])
    /\ UNCHANGED <<config, svm, lifs, backend, policy, faults>>

\* The SVM of another shoot of the project may be there by now.
CreateSVM(s) ==
    /\ At(s, "create")
    /\ IF svm THEN Return(s) ELSE GoTo(s, [job[s] EXCEPT !.pc = "lifs", !.creating = TRUE])
    /\ svm' = TRUE
    /\ UNCHANGED <<config, lifs, backend, policy, faults>>

\* MUTANT: only the LIFs with the expected addresses count.
GetMatchingNetworkInterfaces(s) ==
    /\ At(s, "read")
    /\ GoTo(s, [job[s] EXCEPT !.pc = "lifs",
                  !.seen = {l \in LifsOf(job[s].request) : Exists(l) /\
                               lifs[l].address = AddressOf(job[s].request, l)}])
    /\ UNCHANGED <<config, svm, lifs, backend, policy, faults>>

GetExistingNetworkInterfaces(s) ==
    /\ At(s, "read")
    /\ GoTo(s, [job[s] EXCEPT !.pc = "lifs", !.seen = {l \in LifNames : Exists(l)}])
    /\ UNCHANGED <<config, svm, lifs, backend, policy, faults>>

\* The loop of CreateSVM: nodesUUIDs[i%len(nodesUUIDs)], and nodesUUIDs[0]
\* for the management LIF.
NodeAtCreation(l) == IF l = Mgmt THEN Nodes[1] ELSE Nodes[((l - 1) % Len(Nodes)) + 1]

\* MUTANT: what is missing is counted from another node than at the creation.
NodeOfMissingShifted(l) == IF l = Mgmt THEN Nodes[1] ELSE Nodes[(l % Len(Nodes)) + 1]

\* The loop of validateAndEnsureDataLIFs, for the LIFs it does not see, and
\* validateAndEnsureManagementLIF.
NodeOfMissing(l) == IF l = Mgmt THEN Nodes[1] ELSE Nodes[((l - 1) % Len(Nodes)) + 1]

NodeFor(j) == IF j.creating THEN NodeAtCreation(j.lif) ELSE NodeOfMissing(j.lif)

\* MUTANT: one data LIF too many.
AfterLifOnceMore(j) ==
    CASE j.lif = Mgmt -> [j EXCEPT !.pc = "backend"]
      [] j.lif \in DataLifs /\ j.lif <= Len(j.request.data) -> [j EXCEPT !.lif = @ + 1]
      [] OTHER -> [j EXCEPT !.lif = Mgmt, !.pc = IF j.creating THEN "lifs" ELSE "read"]

\* The data LIFs in their order, then the management LIF; validation reads
\* the interfaces again before it.
AfterLif(j) ==
    CASE j.lif = Mgmt -> [j EXCEPT !.pc = "backend"]
      [] j.lif \in DataLifs /\ j.lif < Len(j.request.data) -> [j EXCEPT !.lif = @ + 1]
      [] OTHER -> [j EXCEPT !.lif = Mgmt, !.pc = IF j.creating THEN "lifs" ELSE "read"]

\* A LIF that was seen is left alone, whatever its address.
KeepLif(s) ==
    /\ At(s, "lifs") /\ job[s].lif \in job[s].seen
    /\ GoTo(s, AfterLif(job[s]))
    /\ UNCHANGED <<config, svm, lifs, backend, policy, faults>>

\* ONTAP refuses an address that is in use.
InUse == Foreign \cup {lifs[l].address : l \in {k \in LifNames : Exists(k)}}

\* createNetworkInterfaceForSvm; ONTAP refuses a name that the SVM has.  The
\* reply of a creation may get lost.
CreateLif(s) ==
    LET l == job[s].lif
        address == AddressOf(job[s].request, l)
    IN  /\ At(s, "lifs") /\ l \notin job[s].seen
        /\ \/ /\ ~Exists(l) /\ address \notin InUse
              /\ lifs' = [lifs EXCEPT ![l] = [address |-> address, node |-> NodeFor(job[s])]]
              /\ \/ GoTo(s, AfterLif(job[s])) /\ UNCHANGED faults
                 \/ Return(s) /\ Fault("lostReply")
           \/ /\ Exists(l) \/ address \in InUse
              /\ Return(s)
              /\ UNCHANGED <<lifs, faults>>
        /\ UNCHANGED <<config, svm, backend, policy>>

\* DeployTrident: the backend, and a ManagedResource later the policy.
DeployBackend(s) ==
    /\ At(s, "backend")
    /\ backend' = [backend EXCEPT ![s] = job[s].request.mgmt]
    /\ GoTo(s, [job[s] EXCEPT !.pc = "cwnp"])
    /\ UNCHANGED <<config, svm, lifs, policy, faults>>

DeployCwnp(s) ==
    /\ At(s, "cwnp")
    /\ policy' = [policy EXCEPT ![s] = AddressesOf(job[s].request)]
    /\ Return(s)
    /\ UNCHANGED <<config, svm, lifs, backend, faults>>

\* A call fails, or the process stops.
Interrupted(s) ==
    /\ ~At(s, "idle") /\ Fault("failed")
    /\ Return(s)
    /\ UNCHANGED <<config, svm, lifs, backend, policy>>

-----------------------------------------------------------------------------

\* The owner of a shoot writes another configuration.
Edit(s) ==
    /\ Fault("edit")
    /\ \E r \in Requests : config' = [config EXCEPT ![s] = r]
    /\ UNCHANGED <<svm, lifs, job, backend, policy>>

LifLost(l) ==
    /\ Exists(l) /\ Fault("lifLost")
    /\ lifs' = [lifs EXCEPT ![l] = None]
    /\ UNCHANGED <<config, svm, job, backend, policy>>

Reconcile(s) ==
    \/ Begin(s) \/ EnsureCompleteSVM(s) \/ CreateSVM(s)
    \/ GetExistingNetworkInterfaces(s) \/ KeepLif(s) \/ CreateLif(s)
    \/ DeployBackend(s) \/ DeployCwnp(s)

Next ==
    \/ \E s \in Shoots : Reconcile(s) \/ Interrupted(s) \/ Edit(s)
    \/ \E l \in LifNames : LifLost(l)

Spec == Init /\ [][Next]_vars

\* A reconciliation goes on, and is repeated: after an error from the queue,
\* otherwise at gardenlet's request.
FairSpec == Spec /\ \A s \in Shoots : WF_vars(Reconcile(s))

-----------------------------------------------------------------------------

\* Whichever of the two loops created the data LIFs, at once or one after the
\* other as they got lost or were asked for: once there are no gaps, no node of the cluster has
\* two more of them than another.
LifsAreSpread ==
    LET on(n) == {l \in DataLifs : Exists(l) /\ lifs[l].node = n}
    IN  (\A l \in DataLifs : Exists(l) => \A k \in 1..l : Exists(k)) =>
            \A m, n \in NodeNames : Cardinality(on(m)) <= Cardinality(on(n)) + 1

\* What does not parse reaches neither ONTAP nor a shoot, also when the
\* configuration changes during a reconciliation.
AddressesAreValid ==
    /\ \A l \in LifNames : Exists(l) => lifs[l].address \in Addresses
    /\ \A s \in Shoots :
          /\ backend[s] # None => backend[s] \in Addresses
          /\ policy[s] \subseteq Addresses

\* A shoot that is not served although its configuration is valid asks for
\* an address that is not to be had, be it that another LIF of the project
\* has it, or another SVM, or that it asks for it twice.  Nothing else keeps
\* it waiting: no LIF of its names that is another's, no race, no lost LIF.
Refused(r) == \E l \in LifsOf(r) : ~Exists(l) /\ AddressOf(r, l) \in InUse
IsServed(s, r) ==
    /\ \A l \in LifsOf(r) : Exists(l)
    /\ backend[s] = r.mgmt /\ policy[s] = AddressesOf(r)
ServedOrRefused ==
    \A s \in Shoots :
        <>[](Validate(config[s]) => IsServed(s, config[s]) \/ Refused(config[s]))

=============================================================================

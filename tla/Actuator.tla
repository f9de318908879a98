-------------------------------- MODULE Actuator --------------------------------
(***************************************************************************)
(* The extension's process and its control of a reconciliation             *)
(* (cmd/.../app/options.go, pkg/controller/ontap): it starts, connects to  *)
(* the ONTAP clusters, reconciles and deletes the Extensions of its        *)
(* shoots, panics, stops and starts again.                                 *)
(*                                                                         *)
(* Each phase of a reconciliation is a step or a few, as far as it matters *)
(* to the process: what is inside is modelled in SvmManager, Interfaces,   *)
(* Credentials, Deployment and Admission.  An SVM runs once it is created  *)
(* and stays where it is; clusters come and go.                            *)
(***************************************************************************)
EXTENDS Naturals

CONSTANTS
    Shoots,      \* the shoots of one project, which share its SVM
    NumClusters, \* configured ONTAP clusters, in the configuration's order
    None,        \* no cluster
    FaultKinds,  \* the disturbances a run allows
    MaxFaults    \* bound: how many disturbances a behaviour has

Clusters == 1..NumClusters

ASSUME ConstantsAssumption ==
    /\ NumClusters \in Nat \ {0} /\ MaxFaults \in Nat
    /\ None \notin Clusters

VARIABLES
    process,   \* what the extension's process does
    probe,     \* the cluster that createAdminClient is at
    clients,   \* the clusters it has a client for
    up,        \* the clusters that answer
    svms,      \* the clusters on which an SVM of the project runs
    extension, \* each shoot's Extension; without one "none", or "left" after LetGo
    valid,     \* the shoots with a provider configuration that is valid
    known,     \* the shoots with a Cluster resource that names the project
    job,       \* what a worker does for each shoot
    deployed,  \* the shoots with all of Trident's ManagedResources
    webhook,   \* the shoots with the webhook's ManagedResource
    succeeded, \* the shoots whose Extension reports success
    faults     \* disturbances left

vars == <<process, probe, clients, up, svms, extension, valid, known, job,
          deployed, webhook, succeeded, faults>>
startup == <<process, probe, clients>>
objects == <<extension, valid, known>>
results == <<deployed, webhook, succeeded>>

Steps == {"idle", "lookup", "select", "create", "complete", "deploy", "webhook",
          "delete", "deleteWebhook"}

Jobs == [pc : Steps,
         at : 1..(NumClusters + 1),     \* the cluster a loop is at
         best : Clusters \cup {None},   \* the cluster it found or chose
         steady : SUBSET Clusters]      \* history: see Reconcile

Idle == [pc |-> "idle", at |-> 1, best |-> None, steady |-> {}]

TypeOK ==
    /\ process \in {"down", "starting", "running"}
    /\ probe \in 1..(NumClusters + 1)
    /\ clients \in SUBSET Clusters
    /\ up \in SUBSET Clusters /\ svms \in SUBSET Clusters
    /\ extension \in [Shoots -> {"none", "left", "wanted", "deleting"}]
    /\ valid \in SUBSET Shoots /\ known \in SUBSET Shoots
    /\ job \in [Shoots -> Jobs]
    /\ deployed \in SUBSET Shoots /\ webhook \in SUBSET Shoots
    /\ succeeded \in SUBSET Shoots
    /\ faults \in 0..MaxFaults

Init ==
    /\ process = "down" /\ probe = 1 /\ clients = {}
    /\ up = Clusters /\ svms = {}
    /\ extension = [s \in Shoots |-> "wanted"]
    /\ valid = Shoots /\ known = Shoots
    /\ job = [s \in Shoots |-> Idle]
    /\ deployed = {} /\ webhook = {} /\ succeeded = {}
    /\ faults = MaxFaults

Fault(kind) == kind \in FaultKinds /\ faults > 0 /\ faults' = faults - 1

GoTo(s, j) == job' = [job EXCEPT ![s] = j]
At(s, step) == job[s].pc = step
Return(s) == GoTo(s, Idle)

-----------------------------------------------------------------------------
(* The process: Options.run, NewActuator, createAdminClient.               *)

Start ==
    /\ process = "down"
    /\ process' = "starting" /\ probe' = 1 /\ clients' = {}
    /\ UNCHANGED <<up, svms, objects, job, results, faults>>

\* MUTANT: a cluster that does not answer is left out.
CreateReachableClient ==
    /\ process = "starting" /\ probe \in Clusters
    /\ clients' = clients \cup ({probe} \cap up) /\ probe' = probe + 1
    /\ UNCHANGED <<process, up, svms, objects, job, results, faults>>

\* Every cluster must answer, or the process ends.
CreateAdminClient ==
    /\ process = "starting" /\ probe \in Clusters
    /\ \/ /\ probe \in up
          /\ clients' = clients \cup {probe} /\ probe' = probe + 1
          /\ UNCHANGED process
       \/ /\ probe \notin up
          /\ process' = "down"
          /\ UNCHANGED <<clients, probe>>
    /\ UNCHANGED <<up, svms, objects, job, results, faults>>

\* The manager starts after everything was added to it.
StartManager ==
    /\ process = "starting" /\ probe \notin Clusters
    /\ process' = "running"
    /\ UNCHANGED <<probe, clients, up, svms, objects, job, results, faults>>

\* It stops at any point, and with it every worker.
Stop ==
    /\ process # "down" /\ Fault("stop")
    /\ process' = "down"
    /\ job' = [s \in Shoots |-> Idle]
    /\ UNCHANGED <<probe, clients, up, svms, objects, results>>

-----------------------------------------------------------------------------
(* actuator.Reconcile, and Restore, which calls it.                        *)

\* A worker takes the Extension; without a valid configuration, a Cluster
\* or its project it returns at once.  steady is to hold the clusters whose
\* SVM has run, and which have not come or gone, ever since this moment, and
\* at which no call of the lookup has failed.
Reconcile(s) ==
    /\ process = "running" /\ At(s, "idle")
    /\ extension[s] = "wanted" /\ s \in valid \cap known
    /\ GoTo(s, [pc |-> "lookup", at |-> 1, best |-> None, steady |-> svms])
    /\ UNCHANGED <<startup, up, svms, objects, results, faults>>

\* MUTANT: the loop runs past its end.
GetSVMByNameOnceMore(s) ==
    LET j == job[s]
    IN  /\ At(s, "lookup")
        /\ \/ /\ j.at \in clients \cap up \cap svms
              /\ GoTo(s, [j EXCEPT !.pc = "complete", !.best = j.at])
           \/ /\ j.at \notin clients \cap up \cap svms
              /\ GoTo(s, [j EXCEPT !.at = @ + 1])
        /\ UNCHANGED <<startup, up, svms, objects, results, faults>>

\* ensureSvmForProject: GetSVMByName skips a cluster that does not answer.
GetSVMByName(s) ==
    LET j == job[s]
    IN  /\ At(s, "lookup")
        /\ \/ /\ j.at \in clients \cap up \cap svms
              /\ GoTo(s, [j EXCEPT !.pc = "complete", !.best = j.at])
           \/ /\ j.at \in Clusters \ (clients \cap up \cap svms)
              /\ GoTo(s, [j EXCEPT !.at = @ + 1])
           \/ /\ j.at \notin Clusters
              /\ GoTo(s, [j EXCEPT !.pc = "select", !.at = 1])
        /\ UNCHANGED <<startup, up, svms, objects, results, faults>>

\* A call fails although the cluster answers: the lookup skips it all the
\* same, and with it the SVM that runs there.
Overlook(s) ==
    LET j == job[s]
    IN  /\ At(s, "lookup") /\ j.at \in clients \cap up /\ Fault("failed")
        /\ GoTo(s, [j EXCEPT !.at = @ + 1, !.steady = @ \ {j.at}])
        /\ UNCHANGED <<startup, up, svms, objects, results>>

\* getWriteClient fails with any cluster; whichever has the fewest volumes
\* is chosen, the first at first.
GetWriteClient(s) ==
    LET j == job[s]
    IN  /\ At(s, "select")
        /\ \/ /\ j.at \in clients \cap up
              /\ \E best \in {j.best, j.at} \ {None} :
                    GoTo(s, [j EXCEPT !.best = best, !.at = @ + 1])
           \/ /\ j.at \in Clusters \ clients
              /\ GoTo(s, [j EXCEPT !.at = @ + 1])
           \/ /\ j.at \in clients \ up \/ (j.at \notin Clusters /\ j.best = None)
              /\ Return(s)
           \/ /\ j.at \notin Clusters /\ j.best # None
              /\ GoTo(s, [j EXCEPT !.pc = "create"])
        /\ UNCHANGED <<startup, up, svms, objects, results, faults>>

CreateSVM(s) ==
    LET c == job[s].best
    IN  /\ At(s, "create")
        /\ \/ /\ c \in up \ svms
              /\ svms' = svms \cup {c}
              /\ GoTo(s, [job[s] EXCEPT !.pc = "complete", !.steady = {}])
           \/ /\ c \notin up \/ c \in svms
              /\ Return(s)
              /\ UNCHANGED svms
        /\ UNCHANGED <<startup, up, objects, results, faults>>

\* The LIFs, the account and its secret, and the secret read again.
CompleteSVM(s) ==
    /\ At(s, "complete")
    /\ IF job[s].best \in up THEN GoTo(s, [job[s] EXCEPT !.pc = "deploy"]) ELSE Return(s)
    /\ UNCHANGED <<startup, up, svms, objects, results, faults>>

DeployTrident(s) ==
    /\ At(s, "deploy")
    /\ deployed' = deployed \cup {s}
    /\ GoTo(s, [job[s] EXCEPT !.pc = "webhook"])
    /\ UNCHANGED <<startup, up, svms, objects, webhook, succeeded, faults>>

\* MUTANT: without the Cluster the webhook is left out.
ReconcileWebhookIfKnown(s) ==
    /\ At(s, "webhook")
    /\ succeeded' = succeeded \cup {s}
    /\ webhook' = webhook \cup ({s} \cap known)
    /\ Return(s)
    /\ UNCHANGED <<startup, up, svms, objects, deployed, faults>>

\* The Cluster is read again.  If it is gone, the nil pointer is used, and
\* the panic, recovered by the controller's runtime, counts as an error.
ReconcileShootWebhookConfig(s) ==
    /\ At(s, "webhook")
    /\ \/ /\ s \in known
          /\ webhook' = webhook \cup {s} /\ succeeded' = succeeded \cup {s}
       \/ /\ s \notin known
          /\ UNCHANGED <<webhook, succeeded>>
    /\ Return(s)
    /\ UNCHANGED <<startup, up, svms, objects, deployed, faults>>

-----------------------------------------------------------------------------
(* actuator.Delete, ForceDelete and Migrate.                               *)

Delete(s) ==
    /\ process = "running" /\ At(s, "idle") /\ extension[s] = "deleting"
    /\ GoTo(s, [Idle EXCEPT !.pc = "delete"])
    /\ UNCHANGED <<startup, up, svms, objects, results, faults>>

\* MUTANT: the webhook is forgotten.
DeleteAllButWebhook(s) ==
    /\ At(s, "delete")
    /\ deployed' = deployed \ {s} /\ succeeded' = succeeded \ {s}
    /\ extension' = [extension EXCEPT ![s] = "none"]
    /\ Return(s)
    /\ UNCHANGED <<startup, up, svms, valid, known, webhook, faults>>

\* MUTANT: resources that are gone already are an error.
DeletePresentResources(s) ==
    /\ At(s, "delete")
    /\ deployed' = deployed \ {s} /\ succeeded' = succeeded \ {s}
    /\ IF s \in deployed THEN GoTo(s, [job[s] EXCEPT !.pc = "deleteWebhook"]) ELSE Return(s)
    /\ UNCHANGED <<startup, up, svms, objects, webhook, faults>>

DeleteManagedResources(s) ==
    /\ At(s, "delete")
    /\ deployed' = deployed \ {s} /\ succeeded' = succeeded \ {s}
    /\ GoTo(s, [job[s] EXCEPT !.pc = "deleteWebhook"])
    /\ UNCHANGED <<startup, up, svms, objects, webhook, faults>>

\* Once Delete has succeeded the Extension goes.  The SVM and the account
\* stay.
DeleteWebhook(s) ==
    /\ At(s, "deleteWebhook")
    /\ webhook' = webhook \ {s}
    /\ extension' = [extension EXCEPT ![s] = "none"]
    /\ Return(s)
    /\ UNCHANGED <<startup, up, svms, valid, known, deployed, succeeded, faults>>

\* ForceDelete and Migrate do nothing, whereupon the Extension goes: what it
\* had deployed is left to others.
LetGo(s) ==
    /\ process = "running" /\ At(s, "idle")
    /\ extension[s] \in {"wanted", "deleting"} /\ Fault("letGo")
    /\ extension' = [extension EXCEPT ![s] = "left"]
    /\ succeeded' = succeeded \ {s}
    /\ UNCHANGED <<startup, up, svms, valid, known, job, deployed, webhook>>

-----------------------------------------------------------------------------
(* Failures, and what others do.                                           *)

\* A call fails, and the reconciliation or the deletion with it.
Interrupted(s) ==
    /\ ~At(s, "idle") /\ Fault("failed")
    /\ Return(s)
    /\ UNCHANGED <<startup, up, svms, objects, results>>

Unsteady(c) ==
    job' = [s \in Shoots |-> [job[s] EXCEPT !.steady = @ \ {c}]]

Outage(c) ==
    /\ c \in up /\ Fault("outage")
    /\ up' = up \ {c} /\ Unsteady(c)
    /\ UNCHANGED <<startup, svms, objects, results>>

Recover(c) ==
    /\ c \in Clusters \ up
    /\ up' = up \cup {c} /\ Unsteady(c)
    /\ UNCHANGED <<startup, svms, objects, results, faults>>

\* The owner enables the extension again, or disables it.
Toggle(s) ==
    /\ \/ extension[s] \in {"none", "left"} /\ extension' = [extension EXCEPT ![s] = "wanted"]
       \/ extension[s] = "wanted" /\ extension' = [extension EXCEPT ![s] = "deleting"]
    /\ Fault("toggle")
    /\ UNCHANGED <<startup, up, svms, valid, known, job, results>>

\* A configuration or a Cluster is spoilt.
Spoil(s) ==
    /\ Fault("spoil")
    /\ \/ valid' = valid \ {s} /\ UNCHANGED known
       \/ known' = known \ {s} /\ UNCHANGED valid
    /\ UNCHANGED <<startup, up, svms, extension, job, results>>

Mend(s) ==
    /\ s \notin valid \cap known
    /\ valid' = valid \cup {s} /\ known' = known \cup {s}
    /\ UNCHANGED <<startup, up, svms, extension, job, results, faults>>

-----------------------------------------------------------------------------

Process == Start \/ CreateAdminClient \/ StartManager

Worker(s) ==
    \/ Reconcile(s) \/ GetSVMByName(s) \/ GetWriteClient(s) \/ CreateSVM(s)
    \/ CompleteSVM(s) \/ DeployTrident(s) \/ ReconcileShootWebhookConfig(s)
    \/ Delete(s) \/ DeleteManagedResources(s) \/ DeleteWebhook(s)

Next ==
    \/ Process \/ Stop
    \/ \E s \in Shoots : Worker(s) \/ LetGo(s) \/ Overlook(s) \/ Interrupted(s)
    \/ \E s \in Shoots : Toggle(s) \/ Spoil(s) \/ Mend(s)
    \/ \E c \in Clusters : Outage(c) \/ Recover(c)

Spec == Init /\ [][Next]_vars

\* A process that ended is started again, workers go on and take up what
\* failed, clusters come back, and what was spoilt is mended.
FairSpec ==
    /\ Spec
    /\ WF_vars(Process)
    /\ \A s \in Shoots : WF_vars(Worker(s)) /\ WF_vars(Mend(s))
    /\ \A c \in Clusters : WF_vars(Recover(c))

-----------------------------------------------------------------------------

\* However often the process restarted and whichever clusters were away at
\* that time: no SVM is created while the project has one that has been
\* running since the reconciliation began, unless a call of its lookup failed
\* at that SVM's cluster, or that cluster came or went meanwhile.
NeverDoublesASteadySvm ==
    \A s \in Shoots : At(s, "create") => job[s].steady = {}

\* An Extension that reports success has everything in its shoot, although
\* the Cluster may go while it is reconciled.
SuccessIsComplete == succeeded \subseteq deployed \cap webhook

\* An Extension that was deleted leaves neither Trident's resources nor the
\* webhook behind, wherever the deletion was interrupted and repeated.
GoneIsClean ==
    \A s \in Shoots : extension[s] = "none" => s \notin deployed \cup webhook

\* What ExtensionContract sees of all this.
WorkAt(step) ==
    CASE step = "idle" -> "nothing"
      [] step \in {"delete", "deleteWebhook"} -> "delete"
      [] OTHER -> "reconcile"
Work == [s \in Shoots |-> WorkAt(job[s].pc)]
Given ==
    [s \in Shoots |->
        {part \in {"trident", "webhook"} :
            s \in IF part = "trident" THEN deployed ELSE webhook}]

Contract == INSTANCE ExtensionContract WITH
    Parts <- {"trident", "webhook"}, work <- Work, given <- Given

\* However the process stops and starts, the shoots are given and lose what
\* ExtensionContract says, when it says so.
ImplementsContract == Contract!Spec

\* In the end every shoot has what its owner asked for last, whatever ended
\* the process, a worker or a cluster on the way.
Settles ==
    \A s \in Shoots :
        /\ <>[](extension[s] # "deleting")
        /\ <>[](extension[s] = "wanted" => s \in succeeded /\ svms # {})

=============================================================================

------------------------------ MODULE Deployment ------------------------------
(***************************************************************************)
(* What the extension puts into a shoot and takes out again                *)
(* (pkg/trident/deploy_trident.go, the end of actuator.Reconcile, and      *)
(* actuator.Delete): a ManagedResource per part, applied to the shoot by   *)
(* the gardener-resource-manager (GRM, external) in its own time.          *)
(*                                                                         *)
(* The controller runs at most one of Reconcile and Delete at a time for   *)
(* an Extension.  Nothing waits for the GRM but the part with the CRDs,    *)
(* and a new Extension may come while the GRM still deletes the old parts. *)
(***************************************************************************)
EXTENDS Naturals, Sequences

CONSTANTS
    FaultKinds, \* the disturbances a run allows
    MaxFaults   \* bound: how many disturbances a behaviour has

ASSUME ConstantsAssumption == MaxFaults \in Nat

\* tridentResources, in their order, and the webhook after them.
Order == <<"crds", "backends", "secret", "cwnp", "init", "webhook">>
Parts == {Order[i] : i \in 1..Len(Order)}

VARIABLES
    pc,        \* what the controller does
    next,      \* the position in Order it is at
    mr,        \* the ManagedResource of each part in the seed
    shoot,     \* the parts whose objects are in the shoot
    operator,  \* the Trident operator has installed Trident's own CRDs
    extension, \* the Extension object
    firewall,  \* the namespace "firewall" exists
    faults     \* disturbances left

vars == <<pc, next, mr, shoot, operator, extension, firewall, faults>>

TypeOK ==
    /\ pc \in {"idle", "deploy", "wait", "delete"}
    /\ next \in 1..Len(Order)
    /\ mr \in [Parts -> {"absent", "present", "deleting"}]
    /\ shoot \in SUBSET Parts
    /\ operator \in BOOLEAN /\ firewall \in BOOLEAN
    /\ extension \in {"none", "wanted", "deleting"}
    /\ faults \in 0..MaxFaults

Init ==
    /\ pc = "idle" /\ next = 1
    /\ mr = [p \in Parts |-> "absent"]
    /\ shoot = {} /\ operator = FALSE
    /\ extension = "wanted"
    /\ firewall \in BOOLEAN
    /\ faults = MaxFaults

Fault(kind) == kind \in FaultKinds /\ faults > 0 /\ faults' = faults - 1

\* MUTANT: wait for the backends as well.
WaitsForBackendsToo(p) == p \in {"crds", "backends"}

\* MUTANT: no part is waited for.
NeverWaits(p) == FALSE

\* waitForHealthy
Waits(p) == p = "crds"

\* MUTANT: the CRDs go with their ManagedResource.
KeepsAllButCrds(p) == p \in {"backends", "init"}

\* keepObjects: the objects outlive their ManagedResource.
Keeps(p) == p \in {"crds", "backends", "init"}

\* Back to the queue, or on to the next part.
Return == pc' = "idle" /\ next' = 1
Onwards == pc' = "deploy" /\ next' = next + 1

-----------------------------------------------------------------------------
(* Reconcile, from DeployTrident on.                                       *)

StartReconcile ==
    /\ pc = "idle" /\ extension = "wanted"
    /\ pc' = "deploy" /\ next' = 1
    /\ UNCHANGED <<mr, shoot, operator, extension, firewall, faults>>

\* No network policy without the firewall's namespace.
SkipCwnp ==
    /\ pc = "deploy" /\ Order[next] = "cwnp" /\ ~firewall
    /\ Onwards
    /\ UNCHANGED <<mr, shoot, operator, extension, firewall, faults>>

\* CreateForShoot creates or updates; an update does not stop a deletion.
\* reconcileShootWebhookConfig, the last, ends Reconcile.
DeployResource ==
    LET p == Order[next]
    IN  /\ pc = "deploy" /\ (p = "cwnp" => firewall)
        /\ mr' = [mr EXCEPT ![p] = IF @ = "absent" THEN "present" ELSE @]
        /\ \/ p = "webhook" /\ Return
           \/ p # "webhook" /\ Waits(p) /\ pc' = "wait" /\ UNCHANGED next
           \/ p # "webhook" /\ ~Waits(p) /\ Onwards
        /\ UNCHANGED <<shoot, operator, extension, firewall, faults>>

\* WaitUntilHealthyAndNotProgressing, under a context without a deadline:
\* it ends when the part is healthy, or gone (or it is interrupted).
WaitUntilHealthy ==
    LET p == Order[next]
    IN  /\ pc = "wait"
        /\ \/ mr[p] = "present" /\ p \in shoot /\ Onwards
           \/ mr[p] = "absent" /\ Return
        /\ UNCHANGED <<mr, shoot, operator, extension, firewall, faults>>

-----------------------------------------------------------------------------
(* Delete                                                                  *)

StartDelete ==
    /\ pc = "idle" /\ extension = "deleting"
    /\ pc' = "delete" /\ next' = 1
    /\ UNCHANGED <<mr, shoot, operator, extension, firewall, faults>>

\* MUTANT: the webhook's ManagedResource is left out.
DeleteAllButWebhook ==
    /\ pc = "delete"
    /\ mr' = [mr EXCEPT ![Order[next]] =
                 IF @ = "present" /\ Order[next] # "webhook" THEN "deleting" ELSE @]
    /\ IF next < Len(Order) THEN next' = next + 1 /\ UNCHANGED <<pc, extension>>
       ELSE Return /\ extension' = "none"
    /\ UNCHANGED <<shoot, operator, firewall, faults>>

\* MUTANT: the loop runs past its end.
DeleteOnceMore ==
    /\ pc = "delete"
    /\ mr' = [mr EXCEPT ![Order[next]] = IF @ = "present" THEN "deleting" ELSE @]
    /\ IF next <= Len(Order) THEN next' = next + 1 /\ UNCHANGED <<pc, extension>>
       ELSE Return /\ extension' = "none"
    /\ UNCHANGED <<shoot, operator, firewall, faults>>

\* DeleteManagedResources asks for each deletion, in the order of creation
\* and webhook last, and waits for none; then the Extension is gone.
DeleteManagedResource ==
    /\ pc = "delete"
    /\ mr' = [mr EXCEPT ![Order[next]] = IF @ = "present" THEN "deleting" ELSE @]
    /\ IF next < Len(Order) THEN next' = next + 1 /\ UNCHANGED <<pc, extension>>
       ELSE Return /\ extension' = "none"
    /\ UNCHANGED <<shoot, operator, firewall, faults>>

\* A call fails, or the process stops.
Interrupted ==
    /\ pc # "idle" /\ Fault("failed") /\ Return
    /\ UNCHANGED <<mr, shoot, operator, extension, firewall>>

-----------------------------------------------------------------------------
(* The GRM and the Trident operator in the shoot.                          *)

\* The API server takes objects only of kinds it knows: the orchestrator in
\* "init" is of a kind from "crds", the backend of one the operator installs.
KindsKnown(p) ==
    /\ p = "init" => "crds" \in shoot
    /\ p = "backends" => operator

Apply(p) ==
    /\ mr[p] = "present" /\ p \notin shoot /\ KindsKnown(p)
    /\ shoot' = shoot \cup {p}
    /\ UNCHANGED <<pc, next, mr, operator, extension, firewall, faults>>

Prune(p) ==
    /\ mr[p] = "deleting"
    /\ shoot' = IF Keeps(p) THEN shoot ELSE shoot \ {p}
    /\ mr' = [mr EXCEPT ![p] = "absent"]
    /\ UNCHANGED <<pc, next, operator, extension, firewall, faults>>

OperatorInstalls ==
    /\ "init" \in shoot /\ ~operator
    /\ operator' = TRUE
    /\ UNCHANGED <<pc, next, mr, shoot, extension, firewall, faults>>

-----------------------------------------------------------------------------
(* The shoot's owner disables or enables the extension; the firewall       *)
(* namespace comes and goes.                                               *)

Toggle ==
    /\ Fault("toggle")
    /\ \/ extension = "wanted" /\ extension' = "deleting"
       \/ extension = "none" /\ extension' = "wanted"
    /\ UNCHANGED <<pc, next, mr, shoot, operator, firewall>>

FirewallChanges ==
    /\ Fault("firewall")
    /\ firewall' = ~firewall
    /\ UNCHANGED <<pc, next, mr, shoot, operator, extension>>

-----------------------------------------------------------------------------

Controller ==
    \/ StartReconcile \/ SkipCwnp \/ DeployResource \/ WaitUntilHealthy
    \/ StartDelete \/ DeleteManagedResource

Next ==
    \/ Controller \/ Interrupted
    \/ \E p \in Parts : Apply(p) \/ Prune(p)
    \/ OperatorInstalls \/ Toggle \/ FirewallChanges

Spec == Init /\ [][Next]_vars

\* The work queue goes on, gardenlet asks for reconciliations, and the GRM
\* and the operator do their work on each part.
FairSpec ==
    /\ Spec
    /\ WF_vars(Controller) /\ WF_vars(OperatorInstalls)
    /\ \A p \in Parts : WF_vars(Apply(p) \/ Prune(p))

-----------------------------------------------------------------------------

\* The GRM is never handed the orchestrator before the shoot knows its kind,
\* which would leave that ManagedResource failing: not at the first
\* deployment, not when the extension is disabled and enabled again in the
\* middle of anything.
InitFindsItsCrds == mr["init"] # "absent" => "crds" \in shoot

\* Past the first part the controller has seen the CRDs in the shoot, and
\* it waits for no other part.
CrdsAwaited ==
    /\ pc = "deploy" /\ next > 1 => "crds" \in shoot
    /\ pc = "wait" => Order[next] = "crds"

\* The controller works only for an Extension that is there, and a deletion
\* has asked for that of all parts it has been at; nothing is asked to stay of
\* an Extension that is gone.
WithdrawnInOrder ==
    /\ pc # "idle" => extension # "none"
    /\ pc = "delete" =>
          /\ extension = "deleting"
          /\ \A i \in 1..Len(Order) : i < next => mr[Order[i]] # "present"
    /\ extension = "none" => \A p \in Parts : mr[p] # "present"

IInv == TypeOK /\ CrdsAwaited /\ InitFindsItsCrds /\ WithdrawnInOrder

\* What ExtensionContract sees of all this.
Shoots == {"shoot"}
Extensions == [s \in Shoots |-> extension]
Work ==
    [s \in Shoots |->
        CASE pc = "idle" -> "nothing"
          [] pc = "delete" -> "delete"
          [] OTHER -> "reconcile"]
Present == [s \in Shoots |-> {p \in Parts : mr[p] = "present"}]

Contract == INSTANCE ExtensionContract WITH
    extension <- Extensions, work <- Work, given <- Present

\* Although the parts come one by one and the GRM takes them in its own time,
\* the shoot is given and loses what ExtensionContract says.
ImplementsContract == Contract!Spec

\* While the extension is wanted for good, everything gets into the shoot,
\* although some parts can be applied only once later parts are (the
\* backend needs the operator), and although DeployTrident may have updated
\* parts that were about to be deleted.
DeploymentCompletes ==
    <>[](extension = "wanted") =>
        <>[](Parts \ (IF firewall THEN {} ELSE {"cwnp"}) \subseteq shoot)

\* Once the Extension is gone for good, no ManagedResource is left, and the
\* credentials, the network policy and the webhook leave the shoot; what is
\* Trident's stays, for the volumes.
DeletionCompletes ==
    <>[](extension = "none") =>
        <>[](/\ \A p \in Parts : mr[p] = "absent"
             /\ shoot \cap {"secret", "cwnp", "webhook"} = {})

=============================================================================

------------------------------- MODULE Admission -------------------------------
(***************************************************************************)
(* The shoot webhook at work: Deployment brings the webhook configuration  *)
(* and the Trident operator into the shoot, the operator writes Trident's  *)
(* objects, and the shoot's API server asks the extension (Webhook) about  *)
(* every write, if it knows the configuration and gets an answer that it   *)
(* trusts.  A call that is not answered lets the object pass as it is.     *)
(*                                                                         *)
(* The configuration comes last, after the operator (actuator.go:216), the *)
(* extension restarts, and its CA is rotated.                              *)
(***************************************************************************)
EXTENDS Deployment, Webhook

CONSTANT MaxMishaps  \* bound: how many disturbances the webhook meets

ASSUME MishapsAssumption == MaxMishaps \in Nat

VARIABLES
    stored,   \* Trident's objects in the shoot, Nil when absent
    answers,  \* the extension's webhook server can be reached
    ca,       \* the generation of the CA that signs the server's certificate
    bundle,   \* the generation in the ManagedResource of the webhook
    known,    \* the generation in the shoot's webhook configuration
    mishaps   \* disturbances left

admission == <<stored, answers, ca, bundle, known, mishaps>>
avars == <<vars, admission>>

\* Trident's CRDs and its two workloads.
Written == {"crd", "daemonset", "deployment"}
Workloads == {"daemonset", "deployment"}

ATypeOK ==
    /\ stored \in [Written -> Objects \cup {Nil}]
    /\ answers \in BOOLEAN
    /\ ca \in Nat /\ bundle \in Nat /\ known \in Nat
    /\ mishaps \in 0..MaxMishaps

\* What the operator writes: labels for its pods but none for the CRDs, and
\* nothing of what the webhook adds.
Manifest(o) ==
    [kind |-> o, trident |-> TRUE, deleting |-> FALSE, labels |-> Nil,
     template |->
        IF o = "crd" THEN Nil
        ELSE [labels |-> [k \in Keys |-> "unset"], annotations |-> Nil,
              initContainers |-> <<>>, volumes |-> <<"plugin-dir">>,
              dnsPolicy |-> "other"]]

\* What somebody may make of a workload.
Edits(obj) ==
    IF obj = Nil \/ obj.template = Nil THEN {}
    ELSE {[obj EXCEPT !.template.volumes = <<"plugin-dir">>],
          [obj EXCEPT !.template.initContainers = <<>>],
          [obj EXCEPT !.template.initContainers =
                        <<[name |-> "init-nvme-tcp", mounts |-> {"plugin-dir"}]>>],
          [obj EXCEPT !.template.labels = [k \in Keys |-> "other"]],
          [obj EXCEPT !.deleting = TRUE]}

\* There is no firewall: its policy has nothing to do with the webhook.
AInit ==
    /\ Init /\ ~firewall
    /\ stored = [o \in Written |-> Nil]
    /\ answers = TRUE
    /\ ca = 0 /\ bundle = 0 /\ known = 0
    /\ mishaps = MaxMishaps

Mishap == mishaps > 0 /\ mishaps' = mishaps - 1

-----------------------------------------------------------------------------
(* The API server.                                                         *)

Intercepted == "webhook" \in shoot /\ answers /\ known = ca

\* A write is mutated if it is intercepted, and stored if the outcome is valid.
Write(o, obj) ==
    LET admitted == IF Intercepted THEN Mutate(obj) ELSE obj
    IN  stored' = [stored EXCEPT ![o] = IF Valid(admitted) THEN admitted ELSE @]

\* The operator creates the CRDs when it starts, and applies the workloads
\* again and again.
OperatorStarts ==
    /\ OperatorInstalls
    /\ Write("crd", Manifest("crd"))
    /\ UNCHANGED <<answers, ca, bundle, known, mishaps>>

OperatorApplies(o) ==
    /\ operator
    /\ Write(o, Manifest(o))
    /\ UNCHANGED <<vars, answers, ca, bundle, known, mishaps>>

\* Somebody writes an object back as it is, its metadata aside.
Touched(o) ==
    /\ stored[o] # Nil
    /\ Write(o, stored[o])
    /\ UNCHANGED <<vars, answers, ca, bundle, known, mishaps>>

Edited(o) ==
    /\ Mishap
    /\ \E obj \in Edits(stored[o]) : Write(o, obj)
    /\ UNCHANGED <<vars, answers, ca, bundle, known>>

\* An object that is being deleted goes.
Gone(o) ==
    /\ stored[o] # Nil /\ stored[o].deleting
    /\ stored' = [stored EXCEPT ![o] = Nil]
    /\ UNCHANGED <<vars, answers, ca, bundle, known, mishaps>>

-----------------------------------------------------------------------------
(* The way of the webhook configuration.                                   *)

DeploysWebhook == pc = "deploy" /\ Order[next] = "webhook"

\* MUTANT: the configuration is created once and never updated.
ReconcileWebhookConfigOnce ==
    /\ DeploysWebhook /\ DeployResource
    /\ bundle' = IF mr["webhook"] = "absent" THEN ca ELSE bundle
    /\ UNCHANGED <<stored, answers, ca, known, mishaps>>

\* reconcileShootWebhookConfig: whatever is there gets the current bundle.
ReconcileShootWebhookConfig ==
    /\ DeploysWebhook /\ DeployResource
    /\ bundle' = ca
    /\ UNCHANGED <<stored, answers, ca, known, mishaps>>

\* The GRM brings the bundle into the shoot, first and later.
ApplyWebhook ==
    /\ Apply("webhook")
    /\ known' = bundle
    /\ UNCHANGED <<stored, answers, ca, bundle, mishaps>>

UpdateWebhook ==
    /\ mr["webhook"] = "present" /\ "webhook" \in shoot
    /\ known # bundle /\ known' = bundle
    /\ UNCHANGED <<vars, stored, answers, ca, bundle, mishaps>>

\* The extension's server gets a certificate of a new CA.  The library would
\* refresh ManagedResources of another name (options.go:84) than the one
\* the actuator writes, so only a reconciliation brings the new bundle.
RotateCA ==
    /\ Mishap
    /\ ca' = ca + 1
    /\ UNCHANGED <<vars, stored, answers, bundle, known>>

Unreachable ==
    /\ Mishap /\ answers
    /\ answers' = FALSE
    /\ UNCHANGED <<vars, stored, ca, bundle, known>>

Reachable ==
    /\ ~answers /\ answers' = TRUE
    /\ UNCHANGED <<vars, stored, ca, bundle, known, mishaps>>

-----------------------------------------------------------------------------

\* Everything else in the deployment.
ControllerGoesOn == Controller /\ ~DeploysWebhook /\ UNCHANGED admission
GrmGoesOn(p) == ((p # "webhook" /\ Apply(p)) \/ Prune(p)) /\ UNCHANGED admission
Disturbed == (Interrupted \/ Toggle) /\ UNCHANGED admission

ANext ==
    \/ ControllerGoesOn \/ ReconcileShootWebhookConfig \/ Disturbed
    \/ (\E p \in Parts : GrmGoesOn(p)) \/ ApplyWebhook \/ UpdateWebhook
    \/ OperatorStarts \/ (\E o \in Workloads : OperatorApplies(o))
    \/ \E o \in Written : Touched(o) \/ Edited(o) \/ Gone(o)
    \/ RotateCA \/ Unreachable \/ Reachable

ASpec == AInit /\ [][ANext]_avars

\* As in Deployment; the operator applies each workload again from time to
\* time, objects that are being deleted go, and the server comes back.
AFairSpec ==
    /\ ASpec
    /\ WF_avars(ControllerGoesOn \/ ReconcileShootWebhookConfig)
    /\ \A p \in Parts : WF_avars(GrmGoesOn(p))
    /\ WF_avars(ApplyWebhook) /\ WF_avars(UpdateWebhook)
    /\ WF_avars(OperatorStarts) /\ WF_avars(Reachable)
    /\ \A o \in Workloads : WF_avars(OperatorApplies(o)) /\ WF_avars(Gone(o))

-----------------------------------------------------------------------------

\* What anybody may write next.
Writes == {Manifest(o) : o \in Written} \cup {stored[o] : o \in Written}
          \cup UNION {Edits(stored[o]) : o \in Written}

\* The webhook is the reason for no refusal: whatever was made of an object
\* before, with or without the webhook, mutating it keeps it valid (no name
\* twice, no mount without its volume).
NeverRefused ==
    \A obj \in Writes \ {Nil} : Valid(obj) => Valid(Mutate(obj))

\* What the webhook once made of an object it makes again: a write that
\* changes nothing does not roll the pods of Trident.
WritesSettle ==
    \A obj \in Writes \ {Nil} : Mutate(Mutate(obj)) = Mutate(obj)

\* Once the extension is wanted for good, Trident's workloads get what they
\* need and keep it, although the operator is there before the webhook,
\* although the webhook is not always reached, and although its CA changes.
WorkloadsGetReady ==
    <>[](extension = "wanted") =>
        <>[](\A o \in Workloads : stored[o] # Nil /\ IsReady(stored[o]))

\* "mutateObjectLabels adds labels to the given object" (mutator.go:135):
\* every object of Trident that is written through the webhook has them.
LabelsAreAdded ==
    [][\A o \in Written :
          /\ stored'[o] # stored[o] /\ stored'[o] # Nil
          /\ Intercepted /\ Mutates(stored'[o])
          => IF o = "crd" THEN IsLabelled(stored'[o].labels, FALSE)
                          ELSE IsLabelled(stored'[o].template.labels, TRUE)]_avars

=============================================================================

-------------------------------- MODULE Webhook --------------------------------
(***************************************************************************)
(* The mutation of Trident's objects in a shoot (pkg/webhook/shoot,        *)
(* mutator.go) as an operator on objects.                                  *)
(*                                                                         *)
(* A map of labels or annotations is Nil or gives each key one of three    *)
(* values: "unset", "set" (the value the webhook gives it) and "other".    *)
(* Containers are their names and the volumes they mount.                  *)
(***************************************************************************)
EXTENDS Naturals, Sequences

CONSTANTS
    Nil,    \* a nil map, and the pod template of a CRD
    Names   \* of containers and volumes

Keys == {"no-cleanup", "mutated-by-webhook", "node-critical", "to-apiserver", "to-dns"}
Maps(keys) == [keys -> {"unset", "set", "other"}] \cup {Nil}

Containers == [name : Names, mounts : SUBSET Names]

\* Volumes are their names.
Templates ==
    [labels : Maps(Keys), annotations : Maps({"wait-for-csi-node"}),
     initContainers : Seq(Containers), volumes : Seq(Names),
     dnsPolicy : {"Default", "other"}]

\* trident: the name is one of tridentCRDs, or that of Trident's DaemonSet
\* or Deployment in kube-system.
Objects ==
    [kind : {"crd", "other"}, trident : BOOLEAN, deleting : BOOLEAN,
     labels : Maps(Keys), template : {Nil}]
    \cup
    [kind : {"daemonset", "deployment"}, trident : BOOLEAN, deleting : BOOLEAN,
     labels : Maps(Keys), template : Templates]

ASSUME WebhookAssumption ==
    /\ Nil \notin Templates
    /\ {"init-nvme-tcp", "modules-dir", "plugin-dir"} \subseteq Names

Contains(seq, x) == \E i \in 1..Len(seq) : seq[i] = x
HasContainer(seq, name) == \E i \in 1..Len(seq) : seq[i].name = name

-----------------------------------------------------------------------------

\* The keys that mutateObjectLabels sets.
Added(podLabels) ==
    IF podLabels THEN Keys ELSE {"no-cleanup", "mutated-by-webhook"}

\* mutateObjectLabels writes into the caller's map; for a nil map it makes
\* one of its own, which the caller never sees.
MutateObjectLabels(labels, podLabels) ==
    IF labels = Nil THEN Nil
    ELSE [k \in Keys |-> IF k \in Added(podLabels) THEN "set" ELSE labels[k]]

InitNvmeTcp == [name |-> "init-nvme-tcp", mounts |-> {"modules-dir"}]

\* MUTANT: the container is appended whether it is there or not.
AlwaysAddInitContainer(containers) == Append(containers, InitNvmeTcp)

AddInitContainer(containers) ==
    IF HasContainer(containers, "init-nvme-tcp") THEN containers
    ELSE Append(containers, InitNvmeTcp)

\* MUTANT: the volume is left out.
AddNoVolume(volumes) == volumes

AddVolume(volumes) ==
    IF Contains(volumes, "modules-dir") THEN volumes
    ELSE Append(volumes, "modules-dir")

MutateDaemonSet(template) ==
    [labels |-> MutateObjectLabels(template.labels, TRUE),
     annotations |-> [k \in {"wait-for-csi-node"} |-> "set"],
     initContainers |-> AddInitContainer(template.initContainers),
     volumes |-> AddVolume(template.volumes),
     dnsPolicy |-> "Default"]

Mutates(obj) == obj.trident /\ ~obj.deleting

\* Mutate
Mutate(obj) ==
    CASE Mutates(obj) /\ obj.kind = "crd" ->
            [obj EXCEPT !.labels = MutateObjectLabels(@, FALSE)]
      [] Mutates(obj) /\ obj.kind = "daemonset" ->
            [obj EXCEPT !.template = MutateDaemonSet(@)]
      [] Mutates(obj) /\ obj.kind = "deployment" ->
            [obj EXCEPT !.template.labels = MutateObjectLabels(@, TRUE)]
      [] OTHER -> obj

-----------------------------------------------------------------------------
(* What the mutation must achieve.                                         *)

\* The API server refuses a pod whose containers or volumes share a name,
\* and one that mounts a volume it does not have.
ValidTemplate(t) ==
    /\ \A i, j \in 1..Len(t.initContainers) :
          t.initContainers[i].name = t.initContainers[j].name => i = j
    /\ \A i, j \in 1..Len(t.volumes) : t.volumes[i] = t.volumes[j] => i = j
    /\ \A i \in 1..Len(t.initContainers) :
          \A v \in t.initContainers[i].mounts : Contains(t.volumes, v)

Valid(obj) == obj.template = Nil \/ ValidTemplate(obj.template)

IsLabelled(labels, podLabels) ==
    labels # Nil /\ \A k \in Added(podLabels) : labels[k] = "set"

\* A pod template that the mutation has nothing to add to.
IsReady(obj) ==
    /\ obj.kind \in {"daemonset", "deployment"} => IsLabelled(obj.template.labels, TRUE)
    /\ obj.kind = "daemonset" =>
          /\ obj.template.dnsPolicy = "Default"
          /\ obj.template.annotations = [k \in {"wait-for-csi-node"} |-> "set"]
          /\ HasContainer(obj.template.initContainers, "init-nvme-tcp")
          /\ Contains(obj.template.volumes, "modules-dir")

=============================================================================

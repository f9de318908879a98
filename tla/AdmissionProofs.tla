--------------------------- MODULE AdmissionProofs ---------------------------
(* Webhook: what the mutation makes of any object.  Admission: the theorems *)
(* of Deployment still hold with the webhook, and every write settles.     *)
EXTENDS Admission, DeploymentProofs

-----------------------------------------------------------------------------
(* The parts of the mutation.                                              *)

\* The maps stay maps, and what was added is not added again.
LEMMA LabelsEffect ==
    ASSUME NEW labels \in Maps(Keys), NEW podLabels \in BOOLEAN
    PROVE  /\ MutateObjectLabels(labels, podLabels) \in Maps(Keys)
           /\ MutateObjectLabels(MutateObjectLabels(labels, podLabels), podLabels)
                 = MutateObjectLabels(labels, podLabels)
  <1> DEFINE added == [k \in Keys |-> IF k \in Added(podLabels) THEN "set" ELSE labels[k]]
  <1>1. CASE labels = Nil
    BY <1>1 DEF MutateObjectLabels, Maps
  <1>2. CASE labels # Nil
    <2>1. labels \in [Keys -> {"unset", "set", "other"}]
      BY <1>2 DEF Maps
    <2>2. added \in [Keys -> {"unset", "set", "other"}]
      BY <2>1
    <2>3. MutateObjectLabels(labels, podLabels) = added
      BY <1>2 DEF MutateObjectLabels
    <2>4. [k \in Keys |-> IF k \in Added(podLabels) THEN "set" ELSE added[k]] = added
      OBVIOUS
    <2>5. MutateObjectLabels(added, podLabels) = added
      BY <2>4 DEF MutateObjectLabels
    <2>6. QED
      BY <2>2, <2>3, <2>5 DEF Maps
  <1>3. QED
    BY <1>1, <1>2

\* The init container is there afterwards, once; its mount is new at most.
LEMMA InitContainerEffect ==
    ASSUME NEW s \in Seq(Containers)
    PROVE  LET r == AddInitContainer(s)
           IN  /\ r \in Seq(Containers)
               /\ HasContainer(r, "init-nvme-tcp")
               /\ AddInitContainer(r) = r
               /\ Len(s) <= Len(r)
               /\ \A i \in 1..Len(s) : r[i] = s[i]
               /\ \A i \in 1..Len(r) : i \in 1..Len(s) \/ (i = Len(s) + 1 /\ r[i] = InitNvmeTcp)
               /\ HasContainer(s, "init-nvme-tcp") => r = s
  <1>0. InitNvmeTcp \in Containers /\ InitNvmeTcp.name = "init-nvme-tcp"
    BY WebhookAssumption DEF InitNvmeTcp, Containers
  <1>1. CASE HasContainer(s, "init-nvme-tcp")
    BY <1>1 DEF AddInitContainer
  <1>2. CASE ~HasContainer(s, "init-nvme-tcp")
    <2>1. AddInitContainer(s) = Append(s, InitNvmeTcp)
      BY <1>2 DEF AddInitContainer
    <2> DEFINE r == Append(s, InitNvmeTcp)
    <2>2. /\ r \in Seq(Containers) /\ Len(r) = Len(s) + 1
          /\ \A i \in 1..Len(s) : r[i] = s[i]
          /\ r[Len(s) + 1] = InitNvmeTcp
      BY <1>0
    <2> HIDE DEF r
    <2>3. Len(r) \in 1..Len(r) /\ r[Len(r)].name = "init-nvme-tcp"
      BY <1>0, <2>2
    <2>4. HasContainer(r, "init-nvme-tcp")
      BY <2>3 DEF HasContainer
    <2>5. AddInitContainer(r) = r
      BY <2>4 DEF AddInitContainer
    <2>6. \A i \in 1..Len(r) : i \in 1..Len(s) \/ (i = Len(s) + 1 /\ r[i] = InitNvmeTcp)
      BY <2>2
    <2>7. QED
      BY <1>2, <2>1, <2>2, <2>4, <2>5, <2>6 DEF r
  <1>3. QED
    BY <1>1, <1>2

\* The volume is there afterwards, once.
LEMMA VolumeEffect ==
    ASSUME NEW s \in Seq(Names)
    PROVE  LET r == AddVolume(s)
           IN  /\ r \in Seq(Names)
               /\ Contains(r, "modules-dir")
               /\ AddVolume(r) = r
               /\ Len(s) <= Len(r)
               /\ \A i \in 1..Len(s) : r[i] = s[i]
               /\ \A i \in 1..Len(r) : i \in 1..Len(s) \/ (i = Len(s) + 1 /\ r[i] = "modules-dir")
               /\ Contains(s, "modules-dir") => r = s
  <1>1. CASE Contains(s, "modules-dir")
    BY <1>1 DEF AddVolume
  <1>2. CASE ~Contains(s, "modules-dir")
    <2>1. AddVolume(s) = Append(s, "modules-dir")
      BY <1>2 DEF AddVolume
    <2> DEFINE r == Append(s, "modules-dir")
    <2>2. /\ r \in Seq(Names) /\ Len(r) = Len(s) + 1
          /\ \A i \in 1..Len(s) : r[i] = s[i]
          /\ r[Len(s) + 1] = "modules-dir"
      BY WebhookAssumption
    <2> HIDE DEF r
    <2>3. Len(r) \in 1..Len(r) /\ r[Len(r)] = "modules-dir"
      BY <2>2
    <2>4. Contains(r, "modules-dir")
      BY <2>3 DEF Contains
    <2>5. AddVolume(r) = r
      BY <2>4 DEF AddVolume
    <2>6. \A i \in 1..Len(r) : i \in 1..Len(s) \/ (i = Len(s) + 1 /\ r[i] = "modules-dir")
      BY <2>2
    <2>7. QED
      BY <1>2, <2>1, <2>2, <2>4, <2>5, <2>6 DEF r
  <1>3. QED
    BY <1>1, <1>2

-----------------------------------------------------------------------------
(* The mutation as a whole.                                                *)

\* A mutated DaemonSet's template is a template, valid if it was, and
\* settled.
LEMMA DaemonSetEffect ==
    ASSUME NEW t \in Templates
    PROVE  /\ MutateDaemonSet(t) \in Templates
           /\ MutateDaemonSet(MutateDaemonSet(t)) = MutateDaemonSet(t)
           /\ ValidTemplate(t) => ValidTemplate(MutateDaemonSet(t))
  <1> DEFINE m == MutateDaemonSet(t)
             annotated == [k \in {"wait-for-csi-node"} |-> "set"]
  <1>1. /\ t.labels \in Maps(Keys) /\ t.initContainers \in Seq(Containers)
        /\ t.volumes \in Seq(Names)
    BY DEF Templates
  <1>2. m = [labels |-> MutateObjectLabels(t.labels, TRUE), annotations |-> annotated,
             initContainers |-> AddInitContainer(t.initContainers),
             volumes |-> AddVolume(t.volumes), dnsPolicy |-> "Default"]
    BY DEF MutateDaemonSet
  <1>3. annotated \in Maps({"wait-for-csi-node"})
    BY DEF Maps
  <1> HIDE DEF m, annotated
  <1>l. /\ m.labels \in Maps(Keys)
        /\ MutateObjectLabels(m.labels, TRUE) = m.labels
    BY <1>1, <1>2, LabelsEffect
  <1>c. /\ m.initContainers \in Seq(Containers)
        /\ AddInitContainer(m.initContainers) = m.initContainers
    BY <1>1, <1>2, InitContainerEffect
  <1>v. /\ m.volumes \in Seq(Names)
        /\ AddVolume(m.volumes) = m.volumes
    BY <1>1, <1>2, VolumeEffect
  <1>4. m \in Templates
    BY <1>2, <1>3, <1>l, <1>c, <1>v DEF Templates
  <1>5. MutateDaemonSet(m) = m
    <2>1. MutateDaemonSet(m) =
            [labels |-> MutateObjectLabels(m.labels, TRUE), annotations |-> annotated,
             initContainers |-> AddInitContainer(m.initContainers),
             volumes |-> AddVolume(m.volumes), dnsPolicy |-> "Default"]
      BY DEF MutateDaemonSet, annotated
    <2>2. QED
      BY <1>2, <1>l, <1>c, <1>v, <2>1
  <1>6. ASSUME ValidTemplate(t) PROVE ValidTemplate(m)
    <2> DEFINE cs == AddInitContainer(t.initContainers)
               vs == AddVolume(t.volumes)
    <2>1. m.initContainers = cs /\ m.volumes = vs
      BY <1>2
    <2>2. /\ cs \in Seq(Containers) /\ Len(t.initContainers) <= Len(cs)
          /\ \A i \in 1..Len(t.initContainers) : cs[i] = t.initContainers[i]
          /\ \A i \in 1..Len(cs) :
                \/ i \in 1..Len(t.initContainers)
                \/ i = Len(t.initContainers) + 1 /\ cs[i] = InitNvmeTcp
          /\ HasContainer(t.initContainers, "init-nvme-tcp") => cs = t.initContainers
      BY <1>1, InitContainerEffect
    <2>3. /\ vs \in Seq(Names) /\ Len(t.volumes) <= Len(vs)
          /\ \A i \in 1..Len(t.volumes) : vs[i] = t.volumes[i]
          /\ \A i \in 1..Len(vs) :
                \/ i \in 1..Len(t.volumes)
                \/ i = Len(t.volumes) + 1 /\ vs[i] = "modules-dir"
          /\ Contains(t.volumes, "modules-dir") => vs = t.volumes
          /\ Contains(vs, "modules-dir")
      BY <1>1, VolumeEffect
    <2> HIDE DEF cs, vs
    <2>4. ASSUME NEW i \in 1..Len(cs), NEW j \in 1..Len(cs), cs[i].name = cs[j].name
          PROVE  i = j
      <3>1. CASE HasContainer(t.initContainers, "init-nvme-tcp")
        BY <1>6, <2>2, <2>4, <3>1 DEF ValidTemplate
      <3>2. CASE ~HasContainer(t.initContainers, "init-nvme-tcp")
        <4>1. \A k \in 1..Len(t.initContainers) : cs[k].name # "init-nvme-tcp"
          BY <2>2, <3>2 DEF HasContainer
        <4>2. \A k \in 1..Len(cs) :
                 \/ k \in 1..Len(t.initContainers)
                 \/ k = Len(t.initContainers) + 1 /\ cs[k].name = "init-nvme-tcp"
          BY <2>2 DEF InitNvmeTcp
        <4>3. CASE i \in 1..Len(t.initContainers) /\ j \in 1..Len(t.initContainers)
          BY <1>6, <2>2, <2>4, <4>3 DEF ValidTemplate
        <4>4. CASE i \notin 1..Len(t.initContainers) \/ j \notin 1..Len(t.initContainers)
          BY <2>4, <4>1, <4>2, <4>4
        <4>5. QED
          BY <4>3, <4>4
      <3>3. QED
        BY <3>1, <3>2
    <2>5. ASSUME NEW i \in 1..Len(vs), NEW j \in 1..Len(vs), vs[i] = vs[j]
          PROVE  i = j
      <3>1. CASE Contains(t.volumes, "modules-dir")
        BY <1>6, <2>3, <2>5, <3>1 DEF ValidTemplate
      <3>2. CASE ~Contains(t.volumes, "modules-dir")
        <4>1. \A k \in 1..Len(t.volumes) : vs[k] # "modules-dir"
          BY <2>3, <3>2 DEF Contains
        <4>2. CASE i \in 1..Len(t.volumes) /\ j \in 1..Len(t.volumes)
          BY <1>6, <2>3, <2>5, <4>2 DEF ValidTemplate
        <4>3. CASE i \notin 1..Len(t.volumes) \/ j \notin 1..Len(t.volumes)
          BY <2>3, <2>5, <4>1, <4>3
        <4>4. QED
          BY <4>2, <4>3
      <3>3. QED
        BY <3>1, <3>2
    <2>6. ASSUME NEW i \in 1..Len(cs), NEW v \in cs[i].mounts
          PROVE  Contains(vs, v)
      <3>1. CASE i \in 1..Len(t.initContainers)
        <4>1. Contains(t.volumes, v)
          BY <1>6, <2>2, <2>6, <3>1 DEF ValidTemplate
        <4>2. Len(t.volumes) \in Nat /\ Len(vs) \in Nat
          BY <1>1, <2>3
        <4>3. QED
          BY <2>3, <4>1, <4>2 DEF Contains
      <3>2. CASE cs[i] = InitNvmeTcp
        BY <2>3, <2>6, <3>2 DEF InitNvmeTcp
      <3>3. QED
        BY <2>2, <3>1, <3>2
    <2>7. QED
      BY <2>1, <2>4, <2>5, <2>6 DEF ValidTemplate
  <1>7. QED
    BY <1>4, <1>5, <1>6 DEF m

\* So is every mutated object.
LEMMA MutateEffect ==
    ASSUME NEW obj \in Objects
    PROVE  /\ Mutate(obj) \in Objects
           /\ Mutate(Mutate(obj)) = Mutate(obj)
           /\ Valid(obj) => Valid(Mutate(obj))
  <1>1. CASE ~Mutates(obj) \/ obj.kind = "other"
    BY <1>1 DEF Mutate
  <1>2. CASE Mutates(obj) /\ obj.kind = "crd"
    <2> DEFINE m == [obj EXCEPT !.labels = MutateObjectLabels(@, FALSE)]
    <2>1. Mutate(obj) = m
      BY <1>2 DEF Mutate
    <2>2. obj \in [kind : {"crd", "other"}, trident : BOOLEAN, deleting : BOOLEAN,
                   labels : Maps(Keys), template : {Nil}]
      BY <1>2 DEF Objects
    <2>3. /\ m \in Objects /\ m.kind = "crd" /\ Mutates(m) /\ m.template = Nil
          /\ m.labels = MutateObjectLabels(obj.labels, FALSE)
      BY <1>2, <2>2, LabelsEffect DEF Objects, Mutates
    <2>4. MutateObjectLabels(m.labels, FALSE) = m.labels
      BY <2>2, <2>3, LabelsEffect
    <2>5. [m EXCEPT !.labels = MutateObjectLabels(@, FALSE)] = m
      BY <2>3, <2>4 DEF Objects
    <2>6. Mutate(m) = m
      BY <2>3, <2>5 DEF Mutate
    <2>7. QED
      BY <2>1, <2>3, <2>6 DEF Valid
  <1>3. CASE Mutates(obj) /\ obj.kind = "daemonset"
    <2> DEFINE m == [obj EXCEPT !.template = MutateDaemonSet(@)]
    <2>1. Mutate(obj) = m
      BY <1>3 DEF Mutate
    <2>2. obj \in [kind : {"daemonset", "deployment"}, trident : BOOLEAN,
                   deleting : BOOLEAN, labels : Maps(Keys), template : Templates]
      BY <1>3 DEF Objects
    <2>3. /\ m \in Objects /\ m.kind = "daemonset" /\ Mutates(m)
          /\ m.template = MutateDaemonSet(obj.template) /\ m.template \in Templates
      BY <1>3, <2>2, DaemonSetEffect DEF Objects, Mutates
    <2>4. MutateDaemonSet(m.template) = m.template
      BY <2>2, <2>3, DaemonSetEffect
    <2>5. [m EXCEPT !.template = MutateDaemonSet(@)] = m
      BY <2>3, <2>4 DEF Objects
    <2>6. Mutate(m) = m
      BY <2>3, <2>5 DEF Mutate
    <2>7. Valid(obj) => Valid(m)
      BY <2>2, <2>3, DaemonSetEffect, WebhookAssumption DEF Valid
    <2>8. QED
      BY <2>1, <2>3, <2>6, <2>7
  <1>4. CASE Mutates(obj) /\ obj.kind = "deployment"
    <2> DEFINE t == [obj.template EXCEPT !.labels = MutateObjectLabels(@, TRUE)]
               m == [obj EXCEPT !.template.labels = MutateObjectLabels(@, TRUE)]
    <2>1. Mutate(obj) = m
      BY <1>4 DEF Mutate
    <2>2. obj \in [kind : {"daemonset", "deployment"}, trident : BOOLEAN,
                   deleting : BOOLEAN, labels : Maps(Keys), template : Templates]
      BY <1>4 DEF Objects
    <2>3. m = [obj EXCEPT !.template = t]
      OBVIOUS
    <2>4. t \in Templates /\ t.labels = MutateObjectLabels(obj.template.labels, TRUE)
          /\ t.initContainers = obj.template.initContainers
          /\ t.volumes = obj.template.volumes
      BY <2>2, LabelsEffect DEF Templates
    <2> HIDE DEF t
    <2>5. /\ m \in Objects /\ m.kind = "deployment" /\ Mutates(m) /\ m.template = t
      BY <1>4, <2>2, <2>3, <2>4 DEF Objects, Mutates
    <2>6. MutateObjectLabels(t.labels, TRUE) = t.labels
      BY <2>2, <2>4, LabelsEffect DEF Templates
    <2>7. [t EXCEPT !.labels = MutateObjectLabels(@, TRUE)] = t
      BY <2>4, <2>6 DEF Templates
    <2>8. [m EXCEPT !.template.labels = MutateObjectLabels(@, TRUE)] = m
      BY <2>5, <2>7 DEF Objects
    <2>9. Mutate(m) = m
      BY <2>5, <2>8 DEF Mutate
    <2>10. Valid(obj) => Valid(m)
      BY <2>2, <2>4, <2>5, WebhookAssumption DEF Valid, ValidTemplate
    <2>11. QED
      BY <2>1, <2>5, <2>9, <2>10
  <1>5. QED
    BY <1>1, <1>2, <1>3, <1>4 DEF Objects

-----------------------------------------------------------------------------
(* Admission.                                                              *)

\* Whatever happens with the webhook, what happens to Deployment's variables
\* is a deployment: all that is proved of Spec holds.
THEOREM DeploymentInside == ASpec => Spec
  <1>1. AInit => Init
    BY DEF AInit
  <1>2. [ANext]_avars => [Next]_vars
    <2> SUFFICES ASSUME [ANext]_avars PROVE [Next]_vars
      OBVIOUS
    <2>1. CASE UNCHANGED vars
      BY <2>1
    <2>2. CASE ControllerGoesOn \/ Disturbed
      BY <2>2 DEF ControllerGoesOn, Disturbed, Next
    <2>3. CASE ReconcileShootWebhookConfig
      BY <2>3 DEF ReconcileShootWebhookConfig, Next, Controller
    <2>4. CASE (\E p \in Parts : GrmGoesOn(p)) \/ ApplyWebhook
      BY <2>4 DEF GrmGoesOn, ApplyWebhook, Next, Parts, Order
    <2>5. CASE OperatorStarts
      BY <2>5 DEF OperatorStarts, Next
    <2>6. CASE UpdateWebhook \/ RotateCA \/ Unreachable \/ Reachable
      BY <2>1, <2>6 DEF UpdateWebhook, RotateCA, Unreachable, Reachable
    <2>7. CASE (\E o \in Workloads : OperatorApplies(o))
               \/ \E o \in Written : Touched(o) \/ Edited(o) \/ Gone(o)
      BY <2>1, <2>7 DEF OperatorApplies, Touched, Edited, Gone
    <2>8. QED
      BY <2>1, <2>2, <2>3, <2>4, <2>5, <2>6, <2>7 DEF ANext, avars
  <1>3. QED
    BY <1>1, <1>2, PTL DEF ASpec, Spec

\* So the orchestrator still finds its CRDs, whatever the webhook does.
THEOREM InitStillAfterCrds == ASpec => []InitFindsItsCrds
  BY DeploymentInside, InitAfterCrds, PTL

\* The operator's manifests, and what people make of an object, are objects.
LEMMA WritesAreObjects ==
    /\ \A o \in Written : Manifest(o) \in Objects
    /\ \A obj \in Objects \cup {Nil} : Edits(obj) \subseteq Objects
  <1>1. ASSUME NEW o \in Written PROVE Manifest(o) \in Objects
    <2>1. Nil \in Maps(Keys) /\ Nil \in Maps({"wait-for-csi-node"})
          /\ [k \in Keys |-> "unset"] \in Maps(Keys)
      BY DEF Maps
    <2>2. <<>> \in Seq(Containers) /\ <<"plugin-dir">> \in Seq(Names)
      BY WebhookAssumption
    <2>3. CASE o = "crd"
      BY <2>1, <2>3 DEF Manifest, Objects
    <2>4. CASE o \in {"daemonset", "deployment"}
      <3>1. Manifest(o).template \in Templates
        BY <2>1, <2>2, <2>4 DEF Manifest, Templates
      <3>2. QED
        BY <2>1, <2>4, <3>1 DEF Manifest, Objects
    <2>5. QED
      BY <2>3, <2>4 DEF Written
  <1>2. ASSUME NEW obj \in Objects \cup {Nil}, NEW e \in Edits(obj)
        PROVE  e \in Objects
    <2>1. obj # Nil /\ obj.template # Nil
      BY <1>2 DEF Edits
    <2>2. obj \in [kind : {"daemonset", "deployment"}, trident : BOOLEAN,
                   deleting : BOOLEAN, labels : Maps(Keys), template : Templates]
      BY <2>1 DEF Objects
    <2>3. /\ [k \in Keys |-> "other"] \in Maps(Keys)
          /\ <<>> \in Seq(Containers) /\ <<"plugin-dir">> \in Seq(Names)
          /\ <<[name |-> "init-nvme-tcp", mounts |-> {"plugin-dir"}]>> \in Seq(Containers)
      BY WebhookAssumption DEF Maps, Containers
    <2>4. CASE e = [obj EXCEPT !.deleting = TRUE]
      BY <2>2, <2>4 DEF Objects
    <2>5. ASSUME NEW t \in Templates, e = [obj EXCEPT !.template = t]
          PROVE  e \in Objects
      BY <2>2, <2>5 DEF Objects
    <2>6. /\ [obj.template EXCEPT !.volumes = <<"plugin-dir">>] \in Templates
          /\ [obj.template EXCEPT !.initContainers = <<>>] \in Templates
          /\ [obj.template EXCEPT !.initContainers =
                 <<[name |-> "init-nvme-tcp", mounts |-> {"plugin-dir"}]>>] \in Templates
          /\ [obj.template EXCEPT !.labels = [k \in Keys |-> "other"]] \in Templates
      BY <2>2, <2>3 DEF Templates
    <2>7. QED
      BY <1>2, <2>1, <2>4, <2>5, <2>6 DEF Edits
  <1>3. QED
    BY <1>1, <1>2

\* What is stored are objects.
THEOREM AdmissionTypes == ASpec => []ATypeOK
  <1>1. AInit => ATypeOK
    BY MishapsAssumption DEF AInit, ATypeOK
  <1>2. ATypeOK /\ [ANext]_avars => ATypeOK'
    <2> SUFFICES ASSUME ATypeOK, [ANext]_avars PROVE ATypeOK'
      OBVIOUS
    <2> USE DEF ATypeOK
    <2>1. ASSUME NEW o \in Written, NEW obj \in Objects, Write(o, obj)
          PROVE  stored' \in [Written -> Objects \cup {Nil}]
      BY <2>1, MutateEffect DEF Write
    <2>2. CASE OperatorStarts
      <3>1. "crd" \in Written
        BY DEF Written
      <3>2. QED
        BY <2>1, <2>2, <3>1, WritesAreObjects DEF OperatorStarts
    <2>3. CASE \E o \in Workloads : OperatorApplies(o)
      BY <2>1, <2>3, WritesAreObjects DEF OperatorApplies, Workloads, Written
    <2>4. ASSUME NEW o \in Written, Touched(o) PROVE ATypeOK'
      BY <2>1, <2>4 DEF Touched
    <2>5. ASSUME NEW o \in Written, Edited(o) PROVE ATypeOK'
      <3>1. mishaps' \in 0..MaxMishaps
        BY <2>5, MishapsAssumption DEF Edited, Mishap
      <3>2. Edits(stored[o]) \subseteq Objects
        BY WritesAreObjects
      <3>3. QED
        BY <2>1, <2>5, <3>1, <3>2 DEF Edited
    <2>6. ASSUME NEW o \in Written, Gone(o) PROVE ATypeOK'
      BY <2>6 DEF Gone
    <2>7. CASE RotateCA \/ Unreachable \/ Reachable
      <3>1. stored' \in [Written -> Objects \cup {Nil}] /\ answers' \in BOOLEAN
        BY <2>7 DEF RotateCA, Unreachable, Reachable
      <3>2. ca' \in Nat /\ bundle' \in Nat /\ known' \in Nat
        BY <2>7 DEF RotateCA, Unreachable, Reachable
      <3>3. mishaps' \in 0..MaxMishaps
        BY <2>7, MishapsAssumption DEF RotateCA, Unreachable, Reachable, Mishap
      <3>4. QED
        BY <3>1, <3>2, <3>3
    <2>8. CASE ReconcileShootWebhookConfig \/ ApplyWebhook \/ UpdateWebhook
      BY <2>8 DEF ReconcileShootWebhookConfig, ApplyWebhook, UpdateWebhook
    <2>9. CASE UNCHANGED admission
      BY <2>9 DEF admission
    <2>10. QED
      BY <2>2, <2>3, <2>4, <2>5, <2>6, <2>7, <2>8, <2>9
         DEF ANext, avars, ControllerGoesOn, GrmGoesOn, Disturbed
  <1>3. QED
    BY <1>1, <1>2, PTL DEF ASpec

\* Anything anybody may write is an object.
LEMMA WritesTyped == ATypeOK => Writes \ {Nil} \subseteq Objects
  BY WritesAreObjects DEF ATypeOK, Writes

\* The webhook never turns a write the API server would take into one that
\* it refuses (mutator.go:83-116: the container comes with its volume, and
\* neither comes twice).
THEOREM NothingRefused == ASpec => []NeverRefused
  <1>1. ATypeOK => NeverRefused
    BY WritesTyped, MutateEffect DEF NeverRefused
  <1>2. QED
    BY <1>1, AdmissionTypes, PTL

\* Whatever the webhook mutated it leaves alone the next time.
THEOREM MutationSettles == ASpec => []WritesSettle
  <1>1. ATypeOK => WritesSettle
    BY WritesTyped, MutateEffect DEF WritesSettle
  <1>2. QED
    BY <1>1, AdmissionTypes, PTL

=============================================================================

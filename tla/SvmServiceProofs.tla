---------------------------- MODULE SvmServiceProofs ----------------------------
(* SvmManager implements ProjectService, for any clusters, shoots and LIFs. *)
EXTENDS SvmManagerProofs

View == <<Phases, lifs, lost, users, up, Asking, Watched, served, faults>>

-----------------------------------------------------------------------------
(* What the steps of SvmManager look like.                                 *)

\* The phase of an SVM in terms of its state.
LEMMA PhaseIs ==
    ASSUME TypeOK
    PROVE  /\ Phases \in [Svms -> {"absent", "off", "on", "standby"}]
           /\ \A id \in Svms :
                 /\ Phases[id] = PhaseOf[svm[id]]
                 /\ Phases[id] = "on" <=> Running(id)
                 /\ Phases[id] = "off" <=> svm[id] \in {"starting", "stopped"}
                 /\ Phases[id] = "absent" <=> svm[id] = "absent"
                 /\ Phases[id] = "standby" <=> svm[id] = "standby"
  <1>1. \A state \in SvmStates :
           /\ PhaseOf[state] \in {"absent", "off", "on", "standby"}
           /\ PhaseOf[state] = "on" <=> state \in {"running", "ready"}
           /\ PhaseOf[state] = "off" <=> state \in {"starting", "stopped"}
           /\ PhaseOf[state] = "absent" <=> state = "absent"
           /\ PhaseOf[state] = "standby" <=> state = "standby"
    BY DEF PhaseOf, SvmStates
  <1>2. \A id \in Svms : svm[id] \in SvmStates
    BY DEF TypeOK
  <1>3. QED
    BY <1>1, <1>2 DEF Phases, Running

\* An SVM that changes its state changes its phase, and no other.
LEMMA PhaseChanges ==
    ASSUME TypeOK, NEW id \in Svms, NEW state \in SvmStates,
           svm' = [svm EXCEPT ![id] = state]
    PROVE  Phases' = [Phases EXCEPT ![id] = PhaseOf[state]]
  BY DEF TypeOK, Phases

\* The phases of the states that SVMs are put in.
LEMMA PhaseValues ==
    /\ PhaseOf["starting"] = "off" /\ PhaseOf["stopped"] = "off"
    /\ PhaseOf["running"] = "on" /\ PhaseOf["ready"] = "on"
    /\ PhaseOf["standby"] = "standby"
  BY DEF PhaseOf, SvmStates

\* A job that goes on keeps its shoot asking, and what it watches.
LEMMA GoingOn ==
    ASSUME TypeOK, NEW s \in Shoots, ~At(s, "idle"), NEW k, GoTo(s, k),
           k.pc # "idle", k.steady = job[s].steady
    PROVE  UNCHANGED <<Asking, Watched>>
  <1>1. job'[s] = k /\ \A t \in Shoots \ {s} : job'[t] = job[t]
    BY DEF TypeOK, GoTo
  <1>2. Asking' = Asking
    BY <1>1 DEF Asking, At
  <1>3. Watched' = Watched
    BY <1>1 DEF Watched
  <1>4. QED
    BY <1>2, <1>3

\* One that returns makes it leave.
LEMMA Returning ==
    ASSUME TypeOK, NEW s \in Shoots, Return(s)
    PROVE  Service!Leave(s)
  <1>1. job'[s] = Idle /\ \A t \in Shoots \ {s} : job'[t] = job[t]
    BY DEF TypeOK, Return, GoTo
  <1>2. Idle.pc = "idle" /\ Idle.steady = {}
    BY DEF Idle
  <1>3. Asking' = Asking \ {s}
    BY <1>1, <1>2 DEF Asking, At
  <1>4. Watched' = [Watched EXCEPT ![s] = {}]
    BY <1>1, <1>2 DEF Watched
  <1>5. QED
    BY <1>3, <1>4 DEF Service!Leave

\* A write after which the job goes on or is idle is one that is replied to.
LEMMA Replying ==
    ASSUME TypeOK, NEW s \in Shoots, ~At(s, "idle"), NEW k, Applied(s, k),
           k.pc # "idle", k.steady = job[s].steady
    PROVE  Service!Replied(s)
  BY GoingOn, Returning DEF Applied, Service!Replied

\* What disturbs SVMs takes them from what is watched.
LEMMA Disturbing ==
    ASSUME TypeOK, NEW ids, Unsteady(ids)
    PROVE  Service!Unsteady(ids) /\ UNCHANGED Asking
  <1>1. \A s \in Shoots :
           job'[s].steady = job[s].steady \ ids /\ job'[s].pc = job[s].pc
    <2>1. ASSUME NEW s \in Shoots
          PROVE  job'[s].steady = job[s].steady \ ids /\ job'[s].pc = job[s].pc
      <3>1. job'[s] = [job[s] EXCEPT !.steady = job[s].steady \ ids] /\ job[s] \in Jobs
        BY UnsteadyEffect DEF TypeOK
      <3>2. QED
        BY <3>1 DEF Jobs
    <2>2. QED
      BY <2>1
  <1>2. Watched' = [s \in Shoots |-> Watched[s] \ ids]
    BY <1>1 DEF Watched
  <1>3. UNCHANGED Asking
    BY <1>1 DEF Asking, At
  <1>4. QED
    BY <1>2, <1>3 DEF Service!Unsteady

\* Where neither jobs nor SVMs change, neither does what is seen of them.
LEMMA SeenUnchanged ==
    /\ UNCHANGED svm => UNCHANGED Phases
    /\ UNCHANGED job => UNCHANGED <<Asking, Watched>>
  BY DEF Phases, Asking, Watched, At

\* A step that calls no SVM to life, adds nothing and is not the end.
LEMMA Unseen ==
    ASSUME TypeOK, NEW s \in Shoots, ~At(s, "idle"), UNCHANGED <<world, served, faults>>,
           NEW k, GoTo(s, k), k.pc # "idle", k.steady = job[s].steady
    PROVE  UNCHANGED View
  BY GoingOn, SeenUnchanged DEF world, View

\* One that hides nothing but costs a failure.
LEMMA OverlookingNothing ==
    ASSUME TypeOK, NEW s \in Shoots, ~At(s, "idle"), UNCHANGED <<world, served>>,
           faults' < faults,
           NEW k, GoTo(s, k), k.pc # "idle", k.steady = job[s].steady
    PROVE  Service!Overlook(s)
  <1>1. s \in Asking /\ UNCHANGED <<Asking, Watched, Phases>>
    BY GoingOn, SeenUnchanged DEF Asking, world
  <1>2. 1 \in Clients /\ {} \in SUBSET {id \in Svms : id[1] = 1 /\ 1 \in up}
    BY Ranges
  <1>3. Watched' = [Watched EXCEPT ![s] = @ \ {}]
    BY <1>1 DEF Watched
  <1>4. QED
    BY <1>1, <1>2, <1>3 DEF world, Service!Overlook, Service!configuration

\* One that hides SVMs of a cluster.
LEMMA Overlooking ==
    ASSUME TypeOK, NEW s \in Shoots, Overlook(s)
    PROVE  Service!Overlook(s)
  <1> DEFINE c == job[s].client
  <1>1. PICK ids \in SUBSET {id \in Svms : id[1] = c} :
               job'[s].steady = job[s].steady \ ids
    BY OverlookEffect
  <1>2. /\ c \in up /\ c \in Clients /\ UNCHANGED <<world, served>>
        /\ job[s].pc = "probe" /\ job'[s].pc = "probe"
        /\ \A t \in Shoots \ {s} : job'[t] = job[t]
    BY OverlookEffect DEF OthersStay, TypeOK
  <1>3. faults' < faults
    BY OverlookEffect, ConstantsAssumption DEF Fault, TypeOK
  <1>4. s \in Asking /\ UNCHANGED <<Asking, Phases>>
    BY <1>2, SeenUnchanged DEF Asking, At, world
  <1>5. Watched' = [Watched EXCEPT ![s] = @ \ ids]
    BY <1>1, <1>2 DEF Watched
  <1>6. ids \in SUBSET {id \in Svms : id[1] = c /\ c \in up}
    BY <1>2
  <1> HIDE DEF c
  <1>7. QED
    BY <1>2, <1>3, <1>4, <1>5, <1>6 DEF world, Service!Overlook, Service!configuration

\* One that is the end, without effect.
LEMMA GivingUp ==
    ASSUME TypeOK, NEW s \in Shoots, ~At(s, "idle"), UNCHANGED <<world, served>>,
           Return(s)
    PROVE  Service!GiveUp(s)
  <1>1. s \in Asking
    BY DEF Asking
  <1>2. QED
    BY <1>1, Returning, SeenUnchanged DEF world, Service!GiveUp, Service!configuration

\* Another attempt, or none.
LEMMA Retrying ==
    ASSUME TypeOK, NEW s \in Shoots, ~At(s, "idle"), UNCHANGED <<world, served>>,
           UNCHANGED faults \/ faults' < faults, Retry(s)
    PROVE  Service!GiveUp(s) \/ Service!Overlook(s) \/ UNCHANGED View
  <1> DEFINE j == job[s]
             k == [j EXCEPT !.pc = "probe", !.client = 1, !.name = "primary",
                            !.target = None, !.tries = @ + 1]
  <1>1. k.pc = "probe" /\ k.steady = j.steady
    BY DEF TypeOK, Jobs
  <1>2. GoTo(s, k) \/ Return(s)
    BY DEF Retry
  <1> HIDE DEF k
  <1>3. QED
    BY <1>1, <1>2, GivingUp, Unseen, OverlookingNothing

-----------------------------------------------------------------------------
(* What each of them is to the project.                                    *)

\* A reconciliation that begins is a request.
LEMMA BeginRefines ==
    ASSUME TypeOK, NEW s \in Shoots, Begin(s)
    PROVE  Service!Request(s)
  <1> DEFINE ids == {id \in Svms : Running(id)}
             k == [Idle EXCEPT !.pc = "probe", !.steady = ids]
  <1>1. k.pc = "probe" /\ k.steady = ids
    BY DEF Idle
  <1>2. At(s, "idle") /\ GoTo(s, k) /\ UNCHANGED <<world, served>>
    BY DEF Begin
  <1>3. ids = {id \in Svms : Phases[id] = "on"}
    BY PhaseIs
  <1> HIDE DEF ids, k
  <1>4. job'[s] = k /\ \A t \in Shoots \ {s} : job'[t] = job[t]
    BY <1>2 DEF TypeOK, GoTo
  <1>5. s \notin Asking /\ Asking' = Asking \cup {s}
    BY <1>1, <1>2, <1>4 DEF Asking, At
  <1>6. Watched' = [Watched EXCEPT ![s] = ids]
    BY <1>1, <1>4 DEF Watched
  <1>7. QED
    BY <1>2, <1>3, <1>5, <1>6, SeenUnchanged
       DEF world, Service!Request, Service!configuration

\* The lookup, the selection, the waits and the checks are not seen, unless
\* they give up or overlook something.
LEMMA LookupRefines ==
    ASSUME TypeOK, NEW s \in Shoots,
           \/ Probe(s) \/ NotFound(s) \/ SelectWriteClient(s) \/ AwaitNvme(s)
           \/ ValidateSVMRunningState(s) \/ GetExistingNetworkInterfaces(s)
           \/ KeepLif(s)
    PROVE  Service!GiveUp(s) \/ Service!Overlook(s) \/ UNCHANGED View
  <1> DEFINE j == job[s]
  <1>1. j \in Jobs /\ ~At(s, "idle") /\ UNCHANGED <<world, served, faults>>
    BY DEF TypeOK, At, Probe, NotFound, SelectWriteClient, AwaitNvme,
           ValidateSVMRunningState, GetExistingNetworkInterfaces, KeepLif
  <1>g. ASSUME NEW k, GoTo(s, k), k.pc # "idle", k.steady = j.steady
        PROVE  UNCHANGED View
    BY <1>1, <1>g, Unseen
  <1>2. CASE Probe(s)
    <2> DEFINE k1 == [j EXCEPT !.target = <<j.client, j.name>>,
                               !.pc = IF j.creating THEN "nvme" ELSE "validate"]
               k2 == [j EXCEPT !.name = "mc"]
               k3 == [j EXCEPT !.client = @ + 1, !.name = "primary"]
    <2>1. /\ k1.pc \in {"nvme", "validate"} /\ k2.pc = "probe" /\ k3.pc = "probe"
          /\ k1.steady = j.steady /\ k2.steady = j.steady /\ k3.steady = j.steady
          /\ GoTo(s, k1) \/ GoTo(s, k2) \/ GoTo(s, k3)
      BY <1>1, <1>2 DEF Probe, At, Jobs
    <2> HIDE DEF k1, k2, k3
    <2>2. QED
      BY <1>g, <2>1
  <1>3. CASE NotFound(s)
    <2> DEFINE k == [j EXCEPT !.pc = "select", !.client = 1]
    <2>1. k.pc = "select" /\ k.steady = j.steady
      BY <1>1 DEF Jobs
    <2>2. GoTo(s, k) \/ Retry(s)
      BY <1>3 DEF NotFound
    <2> HIDE DEF k
    <2>3. QED
      BY <1>1, <1>g, <2>1, <2>2, Retrying
  <1>4. CASE SelectWriteClient(s)
    <2> DEFINE k(b) == [j EXCEPT !.at = b, !.client = @ + 1]
               k2 == [j EXCEPT !.pc = "create"]
    <2>1. /\ \A b : k(b).pc = "select" /\ k(b).steady = j.steady
          /\ k2.pc = "create" /\ k2.steady = j.steady
      BY <1>1, <1>4 DEF SelectWriteClient, At, Jobs
    <2>2. Return(s) \/ GoTo(s, k2) \/ \E b \in {j.at, j.client} : GoTo(s, k(b))
      BY <1>4 DEF SelectWriteClient
    <2> HIDE DEF k, k2
    <2>3. QED
      BY <1>1, <1>g, <2>1, <2>2, GivingUp
  <1>5. CASE AwaitNvme(s)
    <2> DEFINE k == [j EXCEPT !.pc = "lifs"]
    <2>1. k.pc = "lifs" /\ k.steady = j.steady
      BY <1>1 DEF Jobs
    <2>2. GoTo(s, k) \/ Retry(s)
      BY <1>5 DEF AwaitNvme
    <2> HIDE DEF k
    <2>3. QED
      BY <1>1, <1>g, <2>1, <2>2, Retrying
  <1>6. CASE ValidateSVMRunningState(s)
    <2> DEFINE k == [j EXCEPT !.pc = "readLifs", !.at = j.target[1]]
    <2>1. k.pc = "readLifs" /\ k.steady = j.steady
      BY <1>1 DEF Jobs
    <2>2. GoTo(s, k) \/ Return(s)
      BY <1>6 DEF ValidateSVMRunningState
    <2> HIDE DEF k
    <2>3. QED
      BY <1>1, <1>g, <2>1, <2>2, GivingUp
  <1>7. CASE GetExistingNetworkInterfaces(s)
    <2> DEFINE k == [j EXCEPT !.pc = "lifs", !.seen = lifs[j.target]]
    <2>1. k.pc = "lifs" /\ k.steady = j.steady
      BY <1>1 DEF Jobs
    <2>2. GoTo(s, k) \/ Return(s)
      BY <1>7 DEF GetExistingNetworkInterfaces
    <2> HIDE DEF k
    <2>3. QED
      BY <1>1, <1>g, <2>1, <2>2, GivingUp
  <1>8. CASE KeepLif(s)
    <2>1. AfterLif(j).pc # "idle" /\ AfterLif(j).steady = j.steady
      BY <1>1 DEF AfterLif, Jobs
    <2>2. QED
      BY <1>8, <1>g, <2>1 DEF KeepLif
  <1>9. QED
    BY <1>2, <1>3, <1>4, <1>5, <1>6, <1>7, <1>8

\* What fails ends the request, or hides SVMs from it, or nothing.
LEMMA MishapRefines ==
    ASSUME TypeOK, NEW s \in Shoots, Mishap(s)
    PROVE  Service!GiveUp(s) \/ Service!Overlook(s) \/ UNCHANGED View
  <1>1. CASE Overlook(s)
    BY <1>1, Overlooking
  <1>2. CASE AttemptFails(s)
    <2>1. ~At(s, "idle") /\ UNCHANGED <<world, served>> /\ Retry(s)
      BY <1>2 DEF AttemptFails, At
    <2>2. faults' < faults
      BY <1>2, ConstantsAssumption DEF AttemptFails, Fault, TypeOK
    <2>3. QED
      BY <2>1, <2>2, Retrying
  <1>3. CASE Interrupted(s)
    BY <1>3, GivingUp DEF Interrupted
  <1>4. QED
    BY <1>1, <1>2, <1>3 DEF Mishap

\* No step gives failures back.
LEMMA FailuresLeft ==
    ASSUME TypeOK, [Next]_vars
    PROVE  faults' \in 0..faults
  <1>1. faults \in Nat /\ faults \in 0..faults
    BY ConstantsAssumption DEF TypeOK
  <1>2. ASSUME NEW kind, Fault(kind) PROVE faults' \in 0..faults
    BY <1>1, <1>2 DEF Fault
  <1>3. ASSUME NEW s \in Shoots, Reconcile(s) \/ Mishap(s) PROVE faults' \in 0..faults
    BY <1>1, <1>2, <1>3
       DEF Reconcile, Begin, Probe, NotFound, SelectWriteClient, CreateSvm, AwaitNvme,
           ValidateSVMRunningState, GetExistingNetworkInterfaces, KeepLif, CreateLif,
           EnsureUser, Applied, Mishap, Overlook, AttemptFails, Interrupted
  <1>4. CASE Ontap
    BY <1>1, <1>2, <1>4
       DEF Ontap, Progress, SvmStarts, NvmeEnabled, Restart, Stop, LifLost, Outage,
           Recover, SwitchoverOrBack, Move
  <1>5. CASE UNCHANGED vars
    BY <1>1, <1>5 DEF vars
  <1>6. QED
    BY <1>3, <1>4, <1>5 DEF Next

\* An SVM is created while nothing steady is watched.
LEMMA CreateRefines ==
    ASSUME TypeOK, NEW s \in Shoots, SteadyFits(job[s]), CreateSvm(s)
    PROVE  Service!Create(s) \/ Service!GiveUp(s)
  <1> DEFINE j == job[s]
             id == <<j.at, "primary">>
             k == [j EXCEPT !.pc = "probe", !.creating = TRUE, !.client = 1,
                            !.name = "primary", !.steady = {}]
  <1>1. j \in Jobs /\ At(s, "create") /\ ~At(s, "idle") /\ j.steady = {}
    BY DEF TypeOK, CreateSvm, At, SteadyFits
  <1>2. CASE /\ j.at \in up /\ svm[id] = "absent"
             /\ svm' = [svm EXCEPT ![id] = "starting"] /\ Applied(s, k)
    <2>1. id \in Svms /\ id[1] \in up
      BY <1>1, <1>2 DEF Jobs, Svms
    <2>2. k.pc = "probe" /\ k.steady = j.steady
      BY <1>1 DEF Jobs
    <2> HIDE DEF k
    <2>3. Service!Replied(s)
      BY <1>1, <1>2, <2>2, Replying
    <2>4. Phases[id] = "absent"
      BY <1>2, <2>1, PhaseIs
    <2>5. Phases' = [Phases EXCEPT ![id] = "off"]
      BY <1>2, <2>1, PhaseChanges, PhaseValues DEF SvmStates
    <2>6. s \in Asking /\ Watched[s] = {}
      BY <1>1 DEF Asking, Watched
    <2>7. UNCHANGED <<Service!configuration, up, served>>
      BY DEF CreateSvm, Service!configuration
    <2> HIDE DEF id
    <2>8. QED
      BY <2>1, <2>3, <2>4, <2>5, <2>6, <2>7 DEF Service!Create
  <1>3. CASE Return(s) /\ UNCHANGED svm
    BY <1>1, <1>3, GivingUp DEF CreateSvm, world
  <1>4. QED
    BY <1>2, <1>3 DEF CreateSvm

\* A LIF is added to an SVM that can be changed.
LEMMA CreateLifRefines ==
    ASSUME Control, NEW s \in Shoots, CreateLif(s)
    PROVE  Service!AddLif(s) \/ Service!GiveUp(s)
  <1> DEFINE j == job[s]
  <1>1. /\ TypeOK /\ j \in Jobs /\ ~At(s, "idle")
        /\ j.target \in Svms /\ j.lif \in Lifs
    BY DEF Control, TypeOK, ControlFits, CreateLif, At
  <1>2. CASE /\ Accepts(j) /\ j.lif \notin lifs[j.target]
             /\ lifs' = [lifs EXCEPT ![j.target] = @ \cup {j.lif}]
             /\ lost' = [lost EXCEPT ![j.target] = @ \ {j.lif}]
             /\ Applied(s, AfterLif(j))
    <2>1. AfterLif(j).pc # "idle" /\ AfterLif(j).steady = j.steady
      BY <1>1 DEF AfterLif, Jobs
    <2>2. Service!Replied(s)
      BY <1>1, <1>2, <2>1, Replying
    <2>3. ~Service!IsPassive(j.target) /\ j.target[1] \in up
      BY <1>1, <1>2, PhaseIs DEF Accepts, Knows, Service!IsPassive
    <2>4. s \in Asking
      BY <1>1 DEF Asking
    <2>5. UNCHANGED <<Phases, users, up, served>>
      BY SeenUnchanged DEF CreateLif
    <2>6. QED
      BY <1>1, <1>2, <2>2, <2>3, <2>4, <2>5 DEF Service!AddLif
  <1>3. CASE Return(s) /\ UNCHANGED <<lifs, lost>>
    BY <1>1, <1>3, GivingUp DEF CreateLif, world
  <1>4. QED
    BY <1>2, <1>3 DEF CreateLif

\* Success is with an SVM that was given everything.
LEMMA UserRefines ==
    ASSUME Control, NEW s \in Shoots, LifsFit(job[s]), EnsureUser(s)
    PROVE  Service!Serve(s) \/ Service!GiveUp(s)
  <1> DEFINE j == job[s]
  <1>1. /\ TypeOK /\ ~At(s, "idle") /\ Return(s)
        /\ j.target \in Svms /\ Given(j.target) = Lifs
    BY DEF Control, ControlFits, LifsFit, EnsureUser, At
  <1>2. CASE /\ Accepts(j) \/ (Knows(j) /\ s \in users[j.target])
             /\ users' = [users EXCEPT ![j.target] = @ \cup {s}]
             /\ served' = [served EXCEPT ![s] = j.target]
    <2>1. /\ j.target[1] \in up
          /\ ~Service!IsPassive(j.target) \/ s \in users[j.target]
      BY <1>1, <1>2, PhaseIs DEF Accepts, Knows, Service!IsPassive
    <2>2. Service!Given(j.target) = Lifs
      BY <1>1 DEF Given, Service!Given
    <2>3. s \in Asking /\ Service!Leave(s)
      BY <1>1, Returning DEF Asking
    <2>4. UNCHANGED <<Phases, lifs, lost, up>>
      BY SeenUnchanged DEF EnsureUser
    <2>5. QED
      BY <1>1, <1>2, <2>1, <2>2, <2>3, <2>4 DEF Service!Serve
  <1>3. CASE UNCHANGED <<users, served>>
    BY <1>1, <1>3, GivingUp DEF EnsureUser, world
  <1>4. QED
    BY <1>2, <1>3 DEF EnsureUser

\* An SVM that starts; that NVMe is enabled on it is not seen.
LEMMA ProgressRefines ==
    ASSUME TypeOK, NEW id \in Svms, Progress(id)
    PROVE  Service!Start(id) \/ UNCHANGED View
  <1>1. UNCHANGED <<Service!configuration, up, Asking, Watched, served, faults>>
    BY SeenUnchanged DEF Progress, SvmStarts, NvmeEnabled, Restart, Service!configuration
  <1>2. CASE SvmStarts(id) \/ Restart(id)
    <2>1. Phases[id] = "off"
      BY <1>2, PhaseIs DEF SvmStarts, Restart
    <2>2. Phases' = [Phases EXCEPT ![id] = "on"]
      BY <1>2, PhaseChanges, PhaseValues DEF SvmStarts, Restart, SvmStates
    <2>3. QED
      BY <1>1, <2>1, <2>2 DEF Service!Start
  <1>3. CASE NvmeEnabled(id)
    <2>1. Phases[id] = "on"
      BY <1>3, PhaseIs DEF NvmeEnabled, Running
    <2>2. Phases' = [Phases EXCEPT ![id] = "on"]
      BY <1>3, PhaseChanges, PhaseValues DEF NvmeEnabled, SvmStates
    <2>3. Phases' = Phases
      BY <2>1, <2>2, PhaseIs
    <2>4. QED
      BY <1>1, <2>3 DEF View, Service!configuration
  <1>4. QED
    BY <1>2, <1>3 DEF Progress

\* One that stops.
LEMMA StopRefines ==
    ASSUME TypeOK, NEW id \in Svms, Stop(id)
    PROVE  Service!Stop(id)
  <1>1. Phases[id] = "on"
    BY PhaseIs DEF Stop
  <1>2. Phases' = [Phases EXCEPT ![id] = "off"]
    BY PhaseChanges, PhaseValues DEF Stop, SvmStates
  <1>3. Service!Unsteady({id}) /\ UNCHANGED Asking
    BY Disturbing DEF Stop
  <1>4. QED
    BY <1>1, <1>2, <1>3 DEF Stop, Service!Stop, Service!configuration

\* A cluster that comes or goes.
LEMMA ComeOrGoRefines ==
    ASSUME TypeOK, NEW c \in Clients, Outage(c) \/ Recover(c)
    PROVE  Service!ComeOrGo(c)
  <1> DEFINE ids == {c} \X {"primary", "mc"}
  <1>1. ids = {id \in Svms : id[1] = c}
    BY DEF Svms
  <1>2. Unsteady(ids)
    BY DEF Outage, Recover
  <1> HIDE DEF ids
  <1>3. Service!Unsteady(ids) /\ UNCHANGED Asking
    BY <1>2, Disturbing
  <1>4. up' = (up \ {c}) \cup ({c} \ up)
    BY DEF TypeOK, Outage, Recover
  <1>5. QED
    BY <1>1, <1>3, <1>4, SeenUnchanged
       DEF Outage, Recover, Service!ComeOrGo, Service!configuration

\* A switchover: the half that takes over was not ahead.
LEMMA MoveRefines ==
    ASSUME TypeOK, NEW from \in Svms, NEW to \in Svms, Behind(to, from), Move(from, to)
    PROVE  Service!Move(from)
  <1>1. Phases[from] = "on" /\ Service!IsPassive(to)
    BY PhaseIs DEF Move, Running, Service!IsPassive
  <1>2. Given(to) \subseteq Given(from) /\ users[to] \subseteq users[from]
    BY DEF Behind, Passive, Move
  <1>3. Phases' = [Phases EXCEPT ![from] = "standby", ![to] = "on"]
    <2>1. Phases' = [Phases EXCEPT ![from] = PhaseOf["standby"], ![to] = PhaseOf["ready"]]
      BY DEF TypeOK, Phases, Move
    <2>2. QED
      BY <2>1, PhaseValues
  <1>4. Service!Unsteady({from, to}) /\ UNCHANGED Asking
    BY Disturbing DEF Move
  <1>5. QED
    BY <1>1, <1>2, <1>3, <1>4 DEF Move, Given, Service!Move, Service!Given

\* A LIF that is lost.
LEMMA LossRefines ==
    ASSUME NEW id \in Svms, LifLost(id)
    PROVE  Service!Lose(id)
  BY SeenUnchanged DEF LifLost, Service!Lose

\* Every step of SvmManager is a step of ProjectService or not seen.
LEMMA StepRefines ==
    ASSUME IInv, [Next]_vars
    PROVE  Service!Step \/ UNCHANGED View
  <1>1. Control /\ TypeOK /\ HalvesFit
    BY DEF IInv, Control, Completeness
  <1>2. ASSUME NEW s \in Shoots, Reconcile(s) \/ Mishap(s)
        PROVE  Service!Step \/ UNCHANGED View
    <2>1. SteadyFits(job[s]) /\ LifsFit(job[s])
      BY DEF IInv, Steadiness, Completeness
    <2>2. \/ Service!Request(s) \/ Service!GiveUp(s) \/ Service!Overlook(s)
          \/ Service!Create(s) \/ Service!AddLif(s) \/ Service!Serve(s)
          \/ UNCHANGED View
      BY <1>1, <1>2, <2>1, BeginRefines, LookupRefines, CreateRefines,
         CreateLifRefines, UserRefines, MishapRefines DEF Reconcile
    <2>3. QED
      BY <2>2 DEF Service!Step
  <1>3. ASSUME NEW id \in Svms, Progress(id) \/ Stop(id) \/ LifLost(id)
        PROVE  Service!Step \/ UNCHANGED View
    BY <1>1, <1>3, ProgressRefines, StopRefines, LossRefines DEF Service!Step
  <1>4. ASSUME NEW c \in Clients, Outage(c) \/ Recover(c)
        PROVE  Service!Step \/ UNCHANGED View
    BY <1>1, <1>4, ComeOrGoRefines DEF Service!Step
  <1>5. ASSUME NEW c \in Clients, SwitchoverOrBack(c)
        PROVE  Service!Step \/ UNCHANGED View
    <2>1. <<c, "primary">> \in Svms /\ <<Partner[c], "mc">> \in Svms
      BY ConstantsAssumption DEF Svms
    <2>2. /\ Behind(<<c, "primary">>, <<Partner[c], "mc">>)
          /\ Behind(<<Partner[c], "mc">>, <<c, "primary">>)
      BY <1>1 DEF HalvesFit
    <2>3. Service!Move(<<c, "primary">>) \/ Service!Move(<<Partner[c], "mc">>)
      BY <1>1, <1>5, <2>1, <2>2, MoveRefines DEF SwitchoverOrBack
    <2>4. QED
      BY <2>1, <2>3 DEF Service!Step
  <1>6. CASE UNCHANGED vars
    BY <1>6, SeenUnchanged DEF vars, View
  <1>7. QED
    BY <1>2, <1>3, <1>4, <1>5, <1>6 DEF Next, Ontap

\* Whatever happens to the clusters and wherever a reconciliation is cut off,
\* a project gets what ProjectService promises: for any shoots, clusters,
\* partners, LIFs, attempts and disturbances.
THEOREM RefinesService == Spec => ImplementsService
  <1>1. Init => Service!Init
    <2> SUFFICES ASSUME Init PROVE Service!Init
      OBVIOUS
    <2>1. PhaseOf["absent"] = "absent" /\ Idle.pc = "idle" /\ Idle.steady = {}
      BY DEF PhaseOf, SvmStates, Idle
    <2>2. Phases = [id \in Svms |-> "absent"]
      BY <2>1 DEF Init, Phases
    <2>3. Asking = {} /\ Watched = [s \in Shoots |-> {}]
      BY <2>1 DEF Init, Asking, Watched, At
    <2>4. QED
      BY <2>2, <2>3 DEF Init, Service!Init
  <1>2. IInv /\ [Next]_vars => [Service!Next]_(Service!vars)
    <2>1. UNCHANGED View => UNCHANGED Service!vars
      BY DEF View, Service!vars, Service!configuration
    <2>2. IInv /\ [Next]_vars => faults' \in 0..faults
      BY FailuresLeft DEF IInv, Control
    <2>3. QED
      BY <2>1, <2>2, StepRefines DEF Service!Next
  <1>3. QED
    BY <1>1, <1>2, Invariance, PTL DEF Spec, ImplementsService, Service!Spec

=============================================================================

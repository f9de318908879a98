--------------------------- MODULE SvmManagerProofs ---------------------------
(* SvmManager: its invariants hold for any clusters, shoots and LIFs.      *)
EXTENDS SvmManager, TLAPS

-----------------------------------------------------------------------------
(* What the building blocks of the steps do, shoot by shoot.               *)

OthersStay(s) == \A t \in Shoots \ {s} : job'[t] = job[t]

\* A job that goes on leaves the others alone.
LEMMA GoToEffect ==
    ASSUME TypeOK, NEW s \in Shoots, NEW j \in Jobs, GoTo(s, j)
    PROVE  job' \in [Shoots -> Jobs] /\ job'[s] = j /\ OthersStay(s)
  BY DEF TypeOK, GoTo, OthersStay

\* A disturbance keeps the bound on disturbances.
LEMMA FaultEffect ==
    ASSUME TypeOK, NEW kind, Fault(kind)
    PROVE  faults' \in 0..MaxFaults
  BY ConstantsAssumption DEF TypeOK, Fault

\* The loop counters stay in their ranges.
LEMMA Ranges ==
    /\ 1 \in Lifs /\ 1 \in Clients
    /\ 1 \in 1..(NumClients + 1) /\ 0 \in 0..(MaxAttempts - 1)
    /\ \A c \in Clients : c + 1 \in 1..(NumClients + 1)
    /\ \A l \in Lifs : /\ l + 1 \in 1..(NumLifs + 1)
                      /\ l # NumLifs => l + 1 \in Lifs
    /\ \A n \in 0..(MaxAttempts - 1) :
          n + 1 < MaxAttempts => n + 1 \in 0..(MaxAttempts - 1)
  BY ConstantsAssumption DEF Clients, Lifs

\* A job that does nothing is well-typed.
LEMMA IdleJob == Idle \in Jobs /\ ControlFits(Idle)
  BY ConstantsAssumption DEF Idle, Jobs, Steps, Clients, Lifs, ControlFits

\* A job that returns is idle and leaves the others alone.
LEMMA ReturnEffect ==
    ASSUME TypeOK, NEW s \in Shoots, Return(s)
    PROVE  job' \in [Shoots -> Jobs] /\ job'[s] = Idle /\ OthersStay(s)
  BY IdleJob, GoToEffect DEF Return

\* After a write that took effect the job goes on, or is idle.
LEMMA AppliedEffect ==
    ASSUME TypeOK, NEW s \in Shoots, NEW j \in Jobs, Applied(s, j)
    PROVE  /\ job' \in [Shoots -> Jobs] /\ job'[s] \in {j, Idle} /\ OthersStay(s)
           /\ faults' \in 0..MaxFaults
  BY GoToEffect, ReturnEffect, FaultEffect DEF Applied, TypeOK

\* A disturbance takes SVMs from the jobs' history and nothing else.
LEMMA UnsteadyEffect ==
    ASSUME TypeOK, NEW ids, Unsteady(ids)
    PROVE  /\ job' \in [Shoots -> Jobs]
           /\ \A s \in Shoots :
                 job'[s] = [job[s] EXCEPT !.steady = job[s].steady \ ids]
  <1>1. ASSUME NEW j \in Jobs PROVE [j EXCEPT !.steady = j.steady \ ids] \in Jobs
    BY DEF Jobs
  <1>2. QED
    BY <1>1 DEF Unsteady, TypeOK

\* A lookup that overlooks something goes on; what it overlooks is on a
\* cluster that answers, and costs a failure.
LEMMA OverlookEffect ==
    ASSUME TypeOK, NEW s \in Shoots, Overlook(s)
    PROVE  /\ job' \in [Shoots -> Jobs] /\ OthersStay(s)
           /\ job[s].pc = "probe" /\ job'[s].pc = "probe"
           /\ job'[s].lif = job[s].lif /\ job'[s].seen = job[s].seen
           /\ \E ids \in SUBSET {id \in Svms : id[1] = job[s].client} :
                 job'[s].steady = job[s].steady \ ids
           /\ job[s].client \in up
           /\ UNCHANGED <<world, served>> /\ Fault("failed") /\ faults' \in 0..MaxFaults
  <1> DEFINE j == job[s]
             hidden == {ids \in SUBSET Svms : \A id \in ids : id[1] = j.client}
             k1(ids) == [j EXCEPT !.client = @ + 1, !.steady = @ \ ids]
             k2(ids) == [j EXCEPT !.name = "mc", !.steady = @ \ ids]
             k3(ids) == [j EXCEPT !.client = @ + 1, !.name = "primary", !.steady = @ \ ids]
  <1>1. /\ j \in Jobs /\ j.pc = "probe" /\ j.client \in Clients /\ j.client \in up
        /\ UNCHANGED <<world, served>> /\ Fault("failed") /\ faults' \in 0..MaxFaults
    BY FaultEffect DEF Overlook, At, TypeOK
  <1>2. PICK ids \in hidden : GoTo(s, k1(ids)) \/ GoTo(s, k2(ids)) \/ GoTo(s, k3(ids))
    <2>1. /\ {<<j.client, j.name>>} \in hidden
          /\ {<<j.client, j.name>>, <<j.client, "mc">>} \in hidden
      BY <1>1 DEF Svms, Jobs
    <2> HIDE DEF hidden
    <2>2. QED
      BY <2>1 DEF Overlook
  <1> DEFINE goesOn(k) == /\ k \in Jobs /\ k.pc = "probe"
                          /\ k.lif = j.lif /\ k.seen = j.seen
                          /\ k.steady = j.steady \ ids
  <1>3. goesOn(k1(ids)) /\ goesOn(k2(ids)) /\ goesOn(k3(ids))
    <2>1. j.client + 1 \in 1..(NumClients + 1) /\ j.steady \ ids \in SUBSET Svms
      BY <1>1, Ranges DEF Jobs
    <2>2. goesOn(k1(ids))
      BY <1>1, <2>1 DEF Jobs
    <2>3. goesOn(k2(ids))
      BY <1>1, <2>1 DEF Jobs
    <2>4. goesOn(k3(ids))
      BY <1>1, <2>1 DEF Jobs
    <2>5. QED
      BY <2>2, <2>3, <2>4
  <1> HIDE DEF k1, k2, k3
  <1>4. PICK k \in Jobs : GoTo(s, k) /\ goesOn(k)
    BY <1>2, <1>3
  <1>5. QED
    BY <1>1, <1>4, GoToEffect

-----------------------------------------------------------------------------
(* Types and control flow.                                                 *)

\* The initial state satisfies Control.
LEMMA ControlInit == Init => Control
  BY IdleJob, ConstantsAssumption
     DEF Init, Control, TypeOK, SvmStates, Svms, Clients, Lifs

\* A step of one job that keeps the types of the rest.
LEMMA ControlStep ==
    ASSUME Control, NEW s \in Shoots, job' \in [Shoots -> Jobs], OthersStay(s),
           ControlFits(job'[s]),
           svm' \in [Svms -> SvmStates],
           lifs' \in [Svms -> SUBSET Lifs], lost' \in [Svms -> SUBSET Lifs],
           users' \in [Svms -> SUBSET Shoots], up' \in SUBSET Clients,
           served' \in [Shoots -> Svms \cup {None}], faults' \in 0..MaxFaults
    PROVE  Control'
  <1>1. TypeOK'
    BY DEF TypeOK
  <1>2. ASSUME NEW t \in Shoots PROVE ControlFits(job'[t])
    BY DEF Control, OthersStay
  <1>3. QED
    BY <1>1, <1>2 DEF Control, ControlFits

\* Every call of a reconciliation keeps Control.
LEMMA ReconcileControl ==
    ASSUME Control, NEW s \in Shoots, Reconcile(s) \/ Mishap(s)
    PROVE  Control'
  <1> DEFINE j == job[s]
  <1>0. TypeOK /\ j \in Jobs /\ ControlFits(j)
    BY DEF Control, TypeOK
  <1>w. ASSUME UNCHANGED <<world, served, faults>>, NEW k \in Jobs,
               ControlFits(k), GoTo(s, k)
        PROVE  Control'
    BY <1>0, <1>w, GoToEffect, ControlStep DEF world, TypeOK
  <1>r. ASSUME UNCHANGED <<world, served, faults>>, Return(s)
        PROVE  Control'
    BY <1>r, <1>w, IdleJob DEF Return
  <1>t. ASSUME UNCHANGED <<world, served, faults>>, Retry(s),
               j.lif = 1, j.seen = {}
        PROVE  Control'
    <2> DEFINE k == [j EXCEPT !.pc = "probe", !.client = 1, !.name = "primary",
                              !.target = None, !.tries = @ + 1]
    <2>1. CASE j.tries + 1 < MaxAttempts /\ GoTo(s, k)
      <3>1. k \in Jobs /\ ControlFits(k)
        BY <1>0, <1>t, <2>1, Ranges DEF Jobs, Steps, ControlFits
      <3>2. QED
        BY <1>t, <1>w, <2>1, <3>1
    <2>2. QED
      BY <1>t, <1>r, <2>1 DEF Retry
  <1>1. CASE Begin(s)
    <2> DEFINE ids == {id \in Svms : Running(id)}
               k == [Idle EXCEPT !.pc = "probe", !.steady = ids]
    <2>1. ids \in SUBSET Svms /\ GoTo(s, k)
      BY <1>1 DEF Begin
    <2> HIDE DEF ids
    <2>2. k \in Jobs
      BY <2>1, IdleJob DEF Jobs, Steps
    <2>3. ControlFits(k)
      BY DEF Idle, ControlFits
    <2>4. QED
      BY <1>1, <1>w, <2>1, <2>2, <2>3 DEF Begin
  <1>2. CASE Probe(s)
    <2> DEFINE id == <<j.client, j.name>>
               k1 == [j EXCEPT !.target = id,
                               !.pc = IF j.creating THEN "nvme" ELSE "validate"]
               k2 == [j EXCEPT !.name = "mc"]
               k3 == [j EXCEPT !.client = @ + 1, !.name = "primary"]
    <2>1. /\ j.pc = "probe" /\ j.client \in Clients
          /\ UNCHANGED <<world, served, faults>>
          /\ GoTo(s, k1) \/ GoTo(s, k2) \/ GoTo(s, k3)
      BY <1>2 DEF Probe, At
    <2>2. k1 \in Jobs /\ ControlFits(k1)
      BY <1>0, <2>1 DEF Jobs, Steps, Svms, ControlFits
    <2>3. k2 \in Jobs /\ ControlFits(k2)
      BY <1>0, <2>1 DEF Jobs, Steps, ControlFits
    <2>4. k3 \in Jobs /\ ControlFits(k3)
      BY <1>0, <2>1, Ranges DEF Jobs, Steps, ControlFits
    <2>5. QED
      BY <1>w, <2>1, <2>2, <2>3, <2>4
  <1>3. CASE NotFound(s)
    <2> DEFINE k == [j EXCEPT !.pc = "select", !.client = 1]
    <2>1. k \in Jobs /\ ControlFits(k)
      BY <1>0, <1>3, Ranges DEF NotFound, At, Jobs, Steps, ControlFits
    <2>2. QED
      BY <1>0, <1>3, <1>w, <1>t, <2>1 DEF NotFound, At, ControlFits
  <1>4. CASE SelectWriteClient(s)
    <2> DEFINE k(b) == [j EXCEPT !.at = b, !.client = @ + 1]
               k2 == [j EXCEPT !.pc = "create"]
    <2>1. j.pc = "select" /\ UNCHANGED <<world, served, faults>>
      BY <1>4 DEF SelectWriteClient, At
    <2>2. ASSUME j.client \in up, NEW b \in {j.at, j.client}, GoTo(s, k(b))
          PROVE  Control'
      <3>1. k(b) \in Jobs /\ ControlFits(k(b))
        BY <1>0, <2>1, <2>2, Ranges
           DEF Jobs, Steps, ControlFits, TypeOK
      <3>2. QED
        BY <1>w, <2>1, <2>2, <3>1
    <2>3. CASE GoTo(s, k2)
      <3>1. k2 \in Jobs /\ ControlFits(k2)
        BY <1>0, <2>1 DEF Jobs, Steps, ControlFits
      <3>2. QED
        BY <1>w, <2>1, <2>3, <3>1
    <2>4. QED
      BY <1>4, <1>r, <2>1, <2>2, <2>3 DEF SelectWriteClient
  <1>5. CASE CreateSvm(s)
    <2> DEFINE k == [j EXCEPT !.pc = "probe", !.creating = TRUE, !.client = 1,
                              !.name = "primary", !.steady = {}]
    <2>1. k \in Jobs /\ ControlFits(k)
      BY <1>0, <1>5, Ranges DEF CreateSvm, At, Jobs, Steps, ControlFits
    <2>2. CASE svm' = [svm EXCEPT ![<<j.at, "primary">>] = "starting"] /\ Applied(s, k)
      <3>1. svm' \in [Svms -> SvmStates]
        BY <1>0, <2>2 DEF TypeOK, SvmStates
      <3>2. QED
        BY <1>0, <1>5, <2>1, <2>2, <3>1, AppliedEffect, IdleJob, ControlStep
           DEF CreateSvm, TypeOK
    <2>3. CASE Return(s) /\ UNCHANGED <<svm, faults>>
      BY <1>5, <1>r, <2>3 DEF CreateSvm, world
    <2>4. QED
      BY <1>5, <2>2, <2>3 DEF CreateSvm
  <1>6. CASE AwaitNvme(s)
    <2> DEFINE k == [j EXCEPT !.pc = "lifs"]
    <2>1. k \in Jobs /\ ControlFits(k)
      BY <1>0, <1>6, Ranges DEF AwaitNvme, At, Jobs, Steps, ControlFits
    <2>2. QED
      BY <1>0, <1>6, <1>w, <1>t, <2>1 DEF AwaitNvme, At, ControlFits
  <1>7. CASE ValidateSVMRunningState(s)
    <2> DEFINE k == [j EXCEPT !.pc = "readLifs", !.at = j.target[1]]
    <2>1. k \in Jobs /\ ControlFits(k)
      BY <1>0, <1>7, Ranges
         DEF ValidateSVMRunningState, At, Jobs, Steps, Svms, ControlFits
    <2>2. QED
      BY <1>7, <1>w, <1>r, <2>1 DEF ValidateSVMRunningState
  <1>8. CASE GetExistingNetworkInterfaces(s)
    <2> DEFINE k == [j EXCEPT !.pc = "lifs", !.seen = lifs[j.target]]
    <2>1. k \in Jobs /\ ControlFits(k)
      BY <1>0, <1>8
         DEF GetExistingNetworkInterfaces, At, Jobs, Steps, ControlFits, TypeOK
    <2>2. QED
      BY <1>8, <1>w, <1>r, <2>1 DEF GetExistingNetworkInterfaces
  <1>9. CASE KeepLif(s) \/ CreateLif(s)
    <2>1. j.pc = "lifs" /\ j.target \in Svms /\ j.lif \in Lifs
      BY <1>0, <1>9 DEF KeepLif, CreateLif, At, ControlFits
    <2>2. AfterLif(j) \in Jobs /\ ControlFits(AfterLif(j))
      <3> DEFINE step == IF j.lif = NumLifs THEN "user"
                         ELSE IF ~j.creating /\ j.lif + 1 = NumLifs THEN "readLifs"
                         ELSE "lifs"
      <3>1. /\ step \in {"user", "readLifs", "lifs"}
            /\ step # "user" => j.lif # NumLifs
            /\ AfterLif(j) = [j EXCEPT !.lif = @ + 1, !.pc = step]
        BY DEF AfterLif
      <3>2. /\ j.lif + 1 \in 1..(NumLifs + 1)
            /\ j.lif # NumLifs => j.lif + 1 \in Lifs
        <4>1. NumLifs \in Nat /\ j.lif \in 1..NumLifs
          BY <2>1, ConstantsAssumption DEF Lifs
        <4>2. QED
          BY <4>1 DEF Lifs
      <3> HIDE DEF step
      <3>3. AfterLif(j) \in Jobs
        BY <1>0, <3>1, <3>2 DEF Jobs, Steps
      <3>4. ControlFits(AfterLif(j))
        BY <1>0, <2>1, <3>1, <3>2 DEF Jobs, ControlFits
      <3>5. QED
        BY <3>3, <3>4
    <2>3. CASE KeepLif(s)
      BY <1>w, <2>2, <2>3 DEF KeepLif
    <2>4. CASE CreateLif(s)
      <3>1. CASE /\ lifs' = [lifs EXCEPT ![j.target] = @ \cup {j.lif}]
                 /\ lost' = [lost EXCEPT ![j.target] = @ \ {j.lif}]
                 /\ Applied(s, AfterLif(j))
        <4>1. lifs' \in [Svms -> SUBSET Lifs] /\ lost' \in [Svms -> SUBSET Lifs]
          BY <1>0, <2>1, <3>1 DEF TypeOK
        <4>2. QED
          BY <1>0, <2>2, <2>4, <3>1, <4>1, AppliedEffect, IdleJob, ControlStep
             DEF CreateLif, TypeOK
      <3>2. CASE Return(s) /\ UNCHANGED <<lifs, lost, faults>>
        BY <1>r, <2>4, <3>2 DEF CreateLif, world
      <3>3. QED
        BY <2>4, <3>1, <3>2 DEF CreateLif
    <2>5. QED
      BY <1>9, <2>3, <2>4
  <1>10. CASE EnsureUser(s)
    <2>1. j.target \in Svms
      BY <1>0, <1>10 DEF EnsureUser, At, ControlFits
    <2>2. /\ users' \in [Svms -> SUBSET Shoots]
          /\ served' \in [Shoots -> Svms \cup {None}]
      BY <1>0, <1>10, <2>1 DEF EnsureUser, TypeOK
    <2>3. QED
      BY <1>0, <1>10, <2>2, ReturnEffect, IdleJob, ControlStep DEF EnsureUser, TypeOK
  <1>11. CASE Interrupted(s)
    BY <1>0, <1>11, ReturnEffect, FaultEffect, IdleJob, ControlStep
       DEF Interrupted, world, TypeOK
  <1>12. CASE Overlook(s)
    <2>1. ControlFits(job'[s])
      BY <1>0, <1>12, OverlookEffect DEF ControlFits
    <2>2. QED
      BY <1>0, <1>12, <2>1, OverlookEffect, ControlStep DEF world, TypeOK
  <1>13. CASE AttemptFails(s)
    <2> DEFINE k == [j EXCEPT !.pc = "probe", !.client = 1, !.name = "primary",
                              !.target = None, !.tries = @ + 1]
    <2>1. j.pc = "nvme" /\ UNCHANGED <<world, served>> /\ faults' \in 0..MaxFaults
      BY <1>0, <1>13, FaultEffect DEF AttemptFails, At
    <2>2. j.tries + 1 < MaxAttempts => k \in Jobs /\ ControlFits(k)
      BY <1>0, <2>1, Ranges DEF Jobs, Steps, ControlFits
    <2>3. (GoTo(s, k) /\ j.tries + 1 < MaxAttempts) \/ Return(s)
      BY <1>13 DEF AttemptFails, Retry
    <2> HIDE DEF k
    <2>4. PICK i \in Jobs : ControlFits(i) /\ GoTo(s, i)
      BY <2>2, <2>3, IdleJob DEF Return
    <2>5. QED
      BY <1>0, <2>1, <2>4, GoToEffect, ControlStep DEF world, TypeOK
  <1>14. QED
    BY <1>1, <1>2, <1>3, <1>4, <1>5, <1>6, <1>7, <1>8, <1>9, <1>10, <1>11,
       <1>12, <1>13 DEF Reconcile, Mishap

\* So does everything the clusters do.
LEMMA OntapControl ==
    ASSUME Control, Ontap
    PROVE  Control'
  <1>0. TypeOK
    BY DEF Control
  <1>s. ASSUME NEW id \in Svms, NEW state \in SvmStates
        PROVE  [svm EXCEPT ![id] = state] \in [Svms -> SvmStates]
    BY <1>0 DEF TypeOK
  <1>k. ASSUME job' = job, TypeOK' PROVE Control'
    BY <1>k DEF Control, ControlFits
  <1>u. ASSUME NEW ids, Unsteady(ids), NEW s \in Shoots PROVE ControlFits(job'[s])
    <2>1. job[s] \in Jobs /\ ControlFits(job[s])
      BY DEF Control, TypeOK
    <2>2. job'[s] = [job[s] EXCEPT !.steady = job[s].steady \ ids]
      BY <1>0, <1>u, UnsteadyEffect
    <2>3. QED
      BY <2>1, <2>2 DEF ControlFits, Jobs
  <1>v. ASSUME NEW ids, Unsteady(ids), TypeOK' PROVE Control'
    BY <1>u, <1>v DEF Control, ControlFits
  <1>1. ASSUME NEW id \in Svms, Progress(id) PROVE Control'
    BY <1>0, <1>1, <1>s, <1>k
       DEF Progress, SvmStarts, NvmeEnabled, Restart, SvmStates, TypeOK
  <1>2. ASSUME NEW id \in Svms, Stop(id) PROVE Control'
    <2>1. svm' \in [Svms -> SvmStates]
      BY <1>2, <1>s DEF Stop, SvmStates
    <2>2. TypeOK'
      BY <1>0, <1>2, <2>1, UnsteadyEffect, FaultEffect DEF Stop, TypeOK
    <2>3. QED
      BY <1>2, <1>v, <2>2 DEF Stop
  <1>3. ASSUME NEW id \in Svms, LifLost(id) PROVE Control'
    <2>1. lifs' \in [Svms -> SUBSET Lifs] /\ lost' \in [Svms -> SUBSET Lifs]
      BY <1>0, <1>3 DEF LifLost, TypeOK
    <2>2. QED
      BY <1>0, <1>3, <1>k, <2>1, FaultEffect DEF LifLost, TypeOK
  <1>4. ASSUME NEW c \in Clients, Outage(c) \/ Recover(c) PROVE Control'
    <2>1. up' \in SUBSET Clients
      BY <1>0, <1>4 DEF Outage, Recover, TypeOK
    <2>2. TypeOK' /\ \E ids : Unsteady(ids)
      BY <1>0, <1>4, <2>1, UnsteadyEffect, FaultEffect DEF Outage, Recover, TypeOK
    <2>3. QED
      BY <1>v, <2>2
  <1>5. ASSUME NEW from \in Svms, NEW to \in Svms, Move(from, to) PROVE Control'
    <2>1. svm' \in [Svms -> SvmStates]
      BY <1>0, <1>5 DEF Move, SvmStates, TypeOK
    <2>2. /\ lifs' \in [Svms -> SUBSET Lifs] /\ lost' \in [Svms -> SUBSET Lifs]
          /\ users' \in [Svms -> SUBSET Shoots]
      BY <1>0, <1>5 DEF Move, TypeOK
    <2>3. TypeOK'
      BY <1>0, <1>5, <2>1, <2>2, UnsteadyEffect, FaultEffect DEF Move, TypeOK
    <2>4. QED
      BY <1>5, <1>v, <2>3 DEF Move
  <1>6. ASSUME NEW c \in Clients, SwitchoverOrBack(c) PROVE Control'
    <2>1. <<c, "primary">> \in Svms /\ <<Partner[c], "mc">> \in Svms
      BY ConstantsAssumption DEF Svms
    <2>2. QED
      BY <1>5, <1>6, <2>1 DEF SwitchoverOrBack
  <1>7. QED
    BY <1>1, <1>2, <1>3, <1>4, <1>6 DEF Ontap

\* Every step keeps Control.
LEMMA ControlNext == Control /\ [Next]_vars => Control'
  <1> SUFFICES ASSUME Control, [Next]_vars PROVE Control'
    OBVIOUS
  <1>1. CASE UNCHANGED vars
    BY <1>1 DEF vars, Control, TypeOK, ControlFits
  <1>2. QED
    BY <1>1, ReconcileControl, OntapControl DEF Next

\* Reconciliations keep to their types and steps: no call is made for an SVM
\* that was not found, and waitForSvmReady gives up in time.
THEOREM TypeCorrectness == Spec => []TypeOK
  <1>1. Control => TypeOK
    BY DEF Control
  <1>2. QED
    BY <1>1, ControlInit, ControlNext, PTL DEF Spec

-----------------------------------------------------------------------------
(* Steady SVMs.                                                            *)

\* An SVM is a cluster and a name.
LEMMA SvmIsPair ==
    ASSUME NEW id \in Svms
    PROVE  id = <<id[1], id[2]>> /\ id[1] \in Clients /\ id[2] \in {"primary", "mc"}
  BY DEF Svms

\* A step of one job that stops no SVM keeps the other jobs' Steadiness.
LEMMA SteadyStep ==
    ASSUME Control, Steadiness, NEW s \in Shoots, OthersStay(s),
           job' \in [Shoots -> Jobs], UNCHANGED up,
           \A id \in Svms : Running(id) => Running(id)',
           SteadyFits(job[s])'
    PROVE  Steadiness'
  <1>1. ASSUME NEW t \in Shoots \ {s} PROVE SteadyFits(job[t])'
    <2>1. job'[t] = job[t] /\ SteadyFits(job[t]) /\ job[t].steady \subseteq Svms
      BY DEF OthersStay, Steadiness, Control, TypeOK, Jobs
    <2>2. QED
      BY <2>1 DEF SteadyFits
  <1>2. QED
    BY <1>1 DEF Steadiness

\* Every call of a reconciliation keeps Steadiness.
LEMMA ReconcileSteady ==
    ASSUME Control, Steadiness, NEW s \in Shoots, Reconcile(s) \/ Mishap(s)
    PROVE  Steadiness'
  <1> DEFINE j == job[s]
  <1>0. /\ TypeOK /\ j \in Jobs /\ ControlFits(j) /\ SteadyFits(j)
        /\ \A id \in j.steady : id \in Svms /\ Running(id)
    BY DEF Control, TypeOK, Steadiness, Jobs, SteadyFits
  <1>1. Control' /\ job' \in [Shoots -> Jobs]
    BY ReconcileControl DEF Control, TypeOK
  \* A step that leaves the SVMs and the clusters alone.
  <1>w. ASSUME UNCHANGED world, OthersStay(s), SteadyFits(job'[s]) PROVE Steadiness'
    BY <1>1, <1>w, SteadyStep DEF world, Running, SteadyFits
  <1>g. ASSUME UNCHANGED world, NEW k \in Jobs, GoTo(s, k), SteadyFits(k)
        PROVE  Steadiness'
    BY <1>0, <1>g, <1>w, GoToEffect
  <1>i. SteadyFits(Idle)
    BY DEF SteadyFits, Idle
  <1>r. ASSUME UNCHANGED world, Return(s) PROVE Steadiness'
    BY <1>0, <1>r, <1>i, <1>w, ReturnEffect
  <1>q. ASSUME UNCHANGED world, NEW k, GoTo(s, k),
               k.steady = j.steady, k.pc \notin {"select", "create"},
               k.pc = "probe" => k.creating
        PROVE  Steadiness'
    <2>1. job'[s] = k /\ OthersStay(s)
      BY <1>0, <1>q DEF GoTo, TypeOK, OthersStay
    <2>2. SteadyFits(k)
      BY <1>0, <1>q DEF SteadyFits
    <2>3. QED
      BY <1>q, <1>w, <2>1, <2>2
  <1>t. ASSUME UNCHANGED world, Retry(s), j.creating PROVE Steadiness'
    <2> DEFINE k == [j EXCEPT !.pc = "probe", !.client = 1, !.name = "primary",
                              !.target = None, !.tries = @ + 1]
    <2>1. k.steady = j.steady /\ k.pc = "probe" /\ (j.creating => k.creating)
      BY <1>0 DEF Jobs
    <2>2. GoTo(s, k) \/ Return(s)
      BY <1>t DEF Retry
    <2> HIDE DEF k
    <2>3. QED
      BY <1>t, <1>q, <1>r, <2>1, <2>2
  <1>2. CASE Begin(s)
    <2> DEFINE ids == {id \in Svms : Running(id)}
               k == [Idle EXCEPT !.pc = "probe", !.steady = ids]
    <2>1. GoTo(s, k) /\ UNCHANGED world
      BY <1>2 DEF Begin
    <2>2. \A id \in ids : Running(id) /\ (id[1] > 1 \/ id[1] = 1)
      BY SvmIsPair, ConstantsAssumption DEF Clients
    <2>3. ids \in SUBSET Svms
      OBVIOUS
    <2> HIDE DEF ids
    <2>4. /\ k \in Jobs /\ k.steady = ids /\ k.pc = "probe"
          /\ k.client = 1 /\ k.name = "primary"
      BY <2>3, IdleJob DEF Jobs, Steps, Idle
    <2>5. SteadyFits(k)
      BY <2>2, <2>4 DEF SteadyFits
    <2>6. QED
      BY <1>g, <2>1, <2>4, <2>5
  <1>3. CASE Probe(s)
    <2> DEFINE here == <<j.client, j.name>>
               found == j.client \in up /\ Running(here)
               fallback == j.name = "primary" /\ svm[<<j.client, "mc">>] # "absent"
               k1 == [j EXCEPT !.target = here,
                               !.pc = IF j.creating THEN "nvme" ELSE "validate"]
               k2 == [j EXCEPT !.name = "mc"]
               k3 == [j EXCEPT !.client = @ + 1, !.name = "primary"]
    <2>1. /\ j.pc = "probe" /\ j.client \in Clients /\ j.name \in {"primary", "mc"}
          /\ UNCHANGED world
      BY <1>0, <1>3 DEF Probe, At, Jobs
    <2>2. CASE GoTo(s, k1)
      <3>1. k1.steady = j.steady /\ k1.pc \in {"nvme", "validate"}
        BY <1>0 DEF Jobs
      <3> HIDE DEF k1
      <3>2. QED
        BY <1>q, <2>1, <2>2, <3>1
    <2>3. CASE GoTo(s, k2) /\ ~found /\ fallback
      <3>1. /\ k2 \in Jobs /\ k2.steady = j.steady /\ k2.pc = j.pc
            /\ k2.client = j.client /\ k2.name = "mc" /\ k2.creating = j.creating
        BY <1>0 DEF Jobs
      <3>2. \A id \in j.steady :
               id[1] = j.client /\ j.client \in up => id[2] = "mc"
        BY <1>0, <2>3, SvmIsPair
      <3> HIDE DEF k2
      <3>3. SteadyFits(k2)
        BY <1>0, <2>1, <3>1, <3>2 DEF SteadyFits
      <3>4. QED
        BY <1>g, <2>1, <2>3, <3>1, <3>3
    <2>4. CASE GoTo(s, k3) /\ ~found /\ (fallback => j.client \notin up)
      <3>1. /\ k3 \in Jobs /\ k3.steady = j.steady /\ k3.pc = j.pc
            /\ k3.client = j.client + 1 /\ k3.name = "primary"
            /\ k3.creating = j.creating
        BY <1>0, <2>1, Ranges DEF Jobs
      <3>2. ASSUME NEW id \in j.steady, ~j.creating
            PROVE  id[1] \notin up \/ id[1] > j.client
        <4>1. CASE j.client \notin up
          BY <1>0, <2>1, <3>2, <4>1 DEF SteadyFits
        <4>2. CASE j.client \in up
          <5>1. ~Running(here) /\ (j.name = "mc" \/ ~Running(<<j.client, "mc">>))
            BY <2>1, <2>4, <4>2 DEF Running
          <5>2. id # here /\ (id = <<j.client, "mc">> => j.name = "mc") /\ Running(id)
            BY <1>0, <5>1
          <5> QED
            BY <1>0, <2>1, <3>2, <5>2, SvmIsPair DEF SteadyFits
        <4> QED
          BY <4>1, <4>2
      <3>3. ASSUME NEW id \in j.steady, ~j.creating
            PROVE  id[1] \notin up \/ id[1] > k3.client
                   \/ (id[1] = k3.client /\ k3.name = "primary")
        <4>1. id[1] \in Clients
          BY <1>0, SvmIsPair
        <4>2. QED
          BY <2>1, <3>1, <3>2, <3>3, <4>1, ConstantsAssumption DEF Clients
      <3> HIDE DEF k3
      <3>4. SteadyFits(k3)
        BY <1>0, <2>1, <3>1, <3>3 DEF SteadyFits
      <3>5. QED
        BY <1>g, <2>1, <2>4, <3>1, <3>4
    <2>5. QED
      BY <1>3, <2>2, <2>3, <2>4 DEF Probe
  <1>4. CASE NotFound(s)
    <2> DEFINE k == [j EXCEPT !.pc = "select", !.client = 1]
    <2>1. j.pc = "probe" /\ j.client \notin Clients /\ UNCHANGED world
      BY <1>4 DEF NotFound, At
    <2>2. CASE ~j.creating /\ GoTo(s, k)
      <3>1. k \in Jobs /\ k.steady = j.steady /\ k.pc = "select" /\ k.client = 1
        BY <1>0, Ranges DEF Jobs, Steps
      <3>2. ASSUME NEW id \in j.steady PROVE id[1] \notin up /\ id[1] >= 1
        <4>1. id[1] \in Clients
          BY <1>0, SvmIsPair
        <4>2. j.client = NumClients + 1 /\ NumClients \in Nat
          BY <1>0, <2>1, ConstantsAssumption DEF Jobs, Clients
        <4>3. QED
          BY <1>0, <2>1, <2>2, <4>1, <4>2 DEF SteadyFits, Clients
      <3> HIDE DEF k
      <3>3. SteadyFits(k)
        BY <1>0, <3>1, <3>2 DEF SteadyFits
      <3>4. QED
        BY <1>g, <2>1, <2>2, <3>1, <3>3
    <2>3. QED
      BY <1>4, <1>t, <2>1, <2>2 DEF NotFound
  <1>5. CASE SelectWriteClient(s)
    <2> DEFINE k(b) == [j EXCEPT !.at = b, !.client = @ + 1]
               k2 == [j EXCEPT !.pc = "create"]
    <2>1. j.pc = "select" /\ UNCHANGED world
      BY <1>5 DEF SelectWriteClient, At
    <2>2. ASSUME j.client \in up, NEW b \in {j.at, j.client}, GoTo(s, k(b))
          PROVE  Steadiness'
      <3>1. /\ k(b) \in Jobs /\ k(b).steady = j.steady /\ k(b).pc = "select"
            /\ k(b).client = j.client + 1
        BY <1>0, <2>1, <2>2, Ranges DEF Jobs, TypeOK
      <3>2. ASSUME NEW id \in j.steady PROVE id[1] \notin up /\ id[1] >= j.client + 1
        <4>1. id[1] \in Clients /\ j.client \in Clients
          BY <1>0, <2>2, SvmIsPair DEF TypeOK
        <4>2. QED
          BY <1>0, <2>1, <2>2, <4>1, ConstantsAssumption DEF SteadyFits, Clients
      <3> HIDE DEF k
      <3>3. SteadyFits(k(b))
        BY <1>0, <3>1, <3>2 DEF SteadyFits
      <3>4. QED
        BY <1>g, <2>1, <2>2, <3>1, <3>3
    <2>3. CASE j.client \notin Clients /\ GoTo(s, k2)
      <3>1. k2 \in Jobs /\ k2.steady = j.steady /\ k2.pc = "create"
        BY <1>0 DEF Jobs, Steps
      <3>2. ASSUME NEW id \in j.steady PROVE FALSE
        <4>1. id[1] \in Clients
          BY <1>0, SvmIsPair
        <4>2. j.client = NumClients + 1 /\ NumClients \in Nat
          BY <1>0, <2>3, ConstantsAssumption DEF Jobs, Clients
        <4>3. QED
          BY <1>0, <2>1, <4>1, <4>2 DEF SteadyFits, Clients
      <3> HIDE DEF k2
      <3>3. SteadyFits(k2)
        BY <3>1, <3>2 DEF SteadyFits
      <3>4. QED
        BY <1>g, <2>1, <2>3, <3>1, <3>3
    <2>4. QED
      BY <1>5, <1>r, <2>1, <2>2, <2>3 DEF SelectWriteClient
  <1>6. CASE CreateSvm(s)
    <2> DEFINE k == [j EXCEPT !.pc = "probe", !.creating = TRUE, !.client = 1,
                              !.name = "primary", !.steady = {}]
               id == <<j.at, "primary">>
    <2>1. CASE /\ svm[id] = "absent" /\ svm' = [svm EXCEPT ![id] = "starting"]
               /\ Applied(s, k)
      <3>1. k \in Jobs /\ k.steady = {} /\ k.pc = "probe" /\ k.creating
        BY <1>0, Ranges DEF Jobs, Steps
      <3> HIDE DEF k
      <3>2. job'[s] \in {k, Idle} /\ OthersStay(s)
        BY <1>0, <2>1, <3>1, AppliedEffect
      <3>3. \A x \in Svms : Running(x) => Running(x)'
        BY <1>0, <2>1 DEF Running, TypeOK
      <3>4. SteadyFits(job[s])'
        BY <3>1, <3>2 DEF SteadyFits, Idle
      <3>5. QED
        BY <1>1, <1>6, <3>2, <3>3, <3>4, SteadyStep DEF CreateSvm
    <2>2. CASE Return(s) /\ UNCHANGED svm
      BY <1>6, <1>r, <2>2 DEF CreateSvm, world
    <2>3. QED
      BY <1>6, <2>1, <2>2 DEF CreateSvm
  <1>7. CASE AwaitNvme(s)
    <2> DEFINE k == [j EXCEPT !.pc = "lifs"]
    <2>1. k.steady = j.steady /\ k.pc = "lifs" /\ j.creating
      BY <1>0, <1>7 DEF AwaitNvme, At, ControlFits, Jobs
    <2>2. GoTo(s, k) \/ Retry(s)
      BY <1>7 DEF AwaitNvme
    <2> HIDE DEF k
    <2>3. QED
      BY <1>7, <1>q, <1>t, <2>1, <2>2 DEF AwaitNvme
  <1>8. CASE ValidateSVMRunningState(s)
    <2> DEFINE k == [j EXCEPT !.pc = "readLifs", !.at = j.target[1]]
    <2>1. k.steady = j.steady /\ k.pc = "readLifs"
      BY <1>0 DEF Jobs
    <2>2. GoTo(s, k) \/ Return(s)
      BY <1>8 DEF ValidateSVMRunningState
    <2> HIDE DEF k
    <2>3. QED
      BY <1>8, <1>q, <1>r, <2>1, <2>2 DEF ValidateSVMRunningState
  <1>9. CASE GetExistingNetworkInterfaces(s)
    <2> DEFINE k == [j EXCEPT !.pc = "lifs", !.seen = lifs[j.target]]
    <2>1. k.steady = j.steady /\ k.pc = "lifs"
      BY <1>0 DEF Jobs
    <2>2. GoTo(s, k) \/ Return(s)
      BY <1>9 DEF GetExistingNetworkInterfaces
    <2> HIDE DEF k
    <2>3. QED
      BY <1>9, <1>q, <1>r, <2>1, <2>2 DEF GetExistingNetworkInterfaces
  <1>10. CASE KeepLif(s) \/ CreateLif(s)
    <2> DEFINE k == AfterLif(j)
    <2>1. k.steady = j.steady /\ k.pc \in {"user", "readLifs", "lifs"}
      BY <1>0 DEF AfterLif, Jobs
    <2> HIDE DEF k
    <2>2. job'[s] \in {k, Idle} /\ OthersStay(s) /\ UNCHANGED <<svm, up>>
      BY <1>0, <1>10 DEF KeepLif, CreateLif, Applied, Return, GoTo, OthersStay,
                         TypeOK, world, k
    <2>3. SteadyFits(job[s])'
      BY <1>0, <2>1, <2>2 DEF SteadyFits, Idle, Running
    <2>4. QED
      BY <1>1, <2>2, <2>3, SteadyStep DEF Running
  <1>11. CASE EnsureUser(s) \/ Interrupted(s)
    <2>1. job'[s] = Idle /\ OthersStay(s) /\ UNCHANGED <<svm, up>>
      BY <1>0, <1>11, ReturnEffect DEF EnsureUser, Interrupted, world
    <2>2. SteadyFits(job[s])'
      BY <2>1 DEF SteadyFits, Idle
    <2>3. QED
      BY <1>1, <2>1, <2>2, SteadyStep DEF Running
  \* What a failed call hides is steady no more.
  <1>12. CASE Overlook(s)
    <2> DEFINE here == <<j.client, j.name>>
               both == {here, <<j.client, "mc">>}
               k1 == [j EXCEPT !.client = @ + 1, !.steady = @ \ both]
               k2 == [j EXCEPT !.name = "mc", !.steady = @ \ {here}]
               k3 == [j EXCEPT !.client = @ + 1, !.name = "primary",
                               !.steady = @ \ {here}]
    <2>1. /\ j.pc = "probe" /\ j.client \in Clients /\ j.client \in up
          /\ j.client \in Nat /\ UNCHANGED world
      BY <1>0, <1>12, ConstantsAssumption DEF Overlook, At, TypeOK, Clients
    <2>2. \A id \in j.steady : id[1] \in Nat
      BY <1>0, SvmIsPair, ConstantsAssumption DEF Clients
    <2>3. CASE j.name = "primary" /\ GoTo(s, k1)
      <3>1. /\ k1 \in Jobs /\ k1.steady = j.steady \ both /\ k1.pc = j.pc
            /\ k1.client = j.client + 1 /\ k1.name = "primary"
            /\ k1.creating = j.creating
        BY <1>0, <2>1, <2>3, Ranges DEF Jobs
      <3>2. \A id \in j.steady \ both : id[1] # j.client
        BY <1>0, <2>3, SvmIsPair
      <3> HIDE DEF k1, both
      <3>3. SteadyFits(k1)
        BY <1>0, <2>1, <2>2, <3>1, <3>2 DEF SteadyFits
      <3>4. QED
        BY <1>g, <2>1, <2>3, <3>1, <3>3
    <2>4. CASE j.name = "primary" /\ GoTo(s, k2)
      <3>1. /\ k2 \in Jobs /\ k2.steady = j.steady \ {here} /\ k2.pc = j.pc
            /\ k2.client = j.client /\ k2.name = "mc" /\ k2.creating = j.creating
        BY <1>0 DEF Jobs
      <3>2. \A id \in j.steady \ {here} : id[1] = j.client => id[2] = "mc"
        BY <1>0, <2>4, SvmIsPair
      <3> HIDE DEF k2, here
      <3>3. SteadyFits(k2)
        BY <1>0, <2>1, <3>1, <3>2 DEF SteadyFits
      <3>4. QED
        BY <1>g, <2>1, <2>4, <3>1, <3>3
    <2>5. CASE j.name = "mc" /\ GoTo(s, k3)
      <3>1. /\ k3 \in Jobs /\ k3.steady = j.steady \ {here} /\ k3.pc = j.pc
            /\ k3.client = j.client + 1 /\ k3.name = "primary"
            /\ k3.creating = j.creating
        BY <1>0, <2>1, Ranges DEF Jobs
      <3>2. \A id \in j.steady \ {here} : id[1] = j.client => id[2] # "mc"
        BY <1>0, <2>5, SvmIsPair
      <3> HIDE DEF k3, here
      <3>3. SteadyFits(k3)
        BY <1>0, <2>1, <2>2, <2>5, <3>1, <3>2 DEF SteadyFits
      <3>4. QED
        BY <1>g, <2>1, <2>5, <3>1, <3>3
    <2>6. QED
      BY <1>12, <2>3, <2>4, <2>5 DEF Overlook
  <1>13. CASE AttemptFails(s)
    <2>1. j.creating
      BY <1>0, <1>13 DEF AttemptFails, At, ControlFits
    <2>2. QED
      BY <1>13, <1>t, <2>1 DEF AttemptFails
  <1>14. QED
    BY <1>2, <1>3, <1>4, <1>5, <1>6, <1>7, <1>8, <1>9, <1>10, <1>11, <1>12, <1>13
       DEF Reconcile, Mishap

\* So does everything the clusters do.
LEMMA OntapSteady ==
    ASSUME Control, Steadiness, Ontap
    PROVE  Steadiness'
  <1>0. TypeOK /\ \A s \in Shoots : job[s] \in Jobs /\ job[s].steady \subseteq Svms
    BY DEF Control, TypeOK, Jobs
  <1>k. ASSUME UNCHANGED <<up, job>>, \A id \in Svms : Running(id) => Running(id)'
        PROVE  Steadiness'
    BY <1>0, <1>k DEF Steadiness, SteadyFits
  <1>u. ASSUME NEW ids, Unsteady(ids),
               \A id \in Svms \ ids : /\ Running(id) => Running(id)'
                                      /\ id[1] \in up <=> id[1] \in up'
        PROVE  Steadiness'
    <2> SUFFICES ASSUME NEW s \in Shoots PROVE SteadyFits(job[s])'
      BY DEF Steadiness
    <2>1. job'[s] = [job[s] EXCEPT !.steady = job[s].steady \ ids]
      BY <1>0, <1>u, UnsteadyEffect
    <2>2. /\ job'[s].steady = job[s].steady \ ids
          /\ job'[s].pc = job[s].pc /\ job'[s].creating = job[s].creating
          /\ job'[s].client = job[s].client /\ job'[s].name = job[s].name
      BY <1>0, <2>1 DEF Jobs
    <2>3. QED
      BY <1>0, <1>u, <2>2 DEF Steadiness, SteadyFits
  <1>1. ASSUME NEW id \in Svms, Progress(id) PROVE Steadiness'
    BY <1>0, <1>1, <1>k
       DEF Progress, SvmStarts, NvmeEnabled, Restart, Running, TypeOK
  <1>2. ASSUME NEW id \in Svms, Stop(id) PROVE Steadiness'
    <2>1. \A x \in Svms \ {id} : Running(x) => Running(x)'
      BY <1>0, <1>2 DEF Stop, Running, TypeOK
    <2>2. QED
      BY <1>2, <1>u, <2>1 DEF Stop
  <1>3. ASSUME NEW id \in Svms, LifLost(id) PROVE Steadiness'
    BY <1>3, <1>k DEF LifLost, Running
  <1>4. ASSUME NEW c \in Clients, Outage(c) \/ Recover(c) PROVE Steadiness'
    <2>1. /\ Unsteady({c} \X {"primary", "mc"}) /\ UNCHANGED svm
          /\ up' = up \ {c} \/ up' = up \cup {c}
      BY <1>4 DEF Outage, Recover
    <2>2. \A id \in Svms \ ({c} \X {"primary", "mc"}) : id[1] # c
      BY SvmIsPair
    <2>3. QED
      BY <1>u, <2>1, <2>2 DEF Running
  <1>5. ASSUME NEW from \in Svms, NEW to \in Svms, Move(from, to) PROVE Steadiness'
    <2>1. \A x \in Svms \ {from, to} : Running(x) => Running(x)'
      BY <1>0, <1>5 DEF Move, Running, TypeOK
    <2>2. QED
      BY <1>5, <1>u, <2>1 DEF Move
  <1>6. ASSUME NEW c \in Clients, SwitchoverOrBack(c) PROVE Steadiness'
    <2>1. <<c, "primary">> \in Svms /\ <<Partner[c], "mc">> \in Svms
      BY ConstantsAssumption DEF Svms
    <2>2. QED
      BY <1>5, <1>6, <2>1 DEF SwitchoverOrBack
  <1>7. QED
    BY <1>1, <1>2, <1>3, <1>4, <1>6 DEF Ontap

\* Every step keeps Steadiness.
LEMMA SteadinessNext == Control /\ Steadiness /\ [Next]_vars => Steadiness'
  <1> SUFFICES ASSUME Control, Steadiness, [Next]_vars PROVE Steadiness'
    OBVIOUS
  <1>1. CASE UNCHANGED vars
    BY <1>1 DEF vars, Steadiness, SteadyFits, Running
  <1>2. QED
    BY <1>1, ReconcileSteady, OntapSteady DEF Next

\* At first no job has begun.
LEMMA SteadinessInit == Init => Steadiness
  <1>1. Idle.pc = "idle" /\ Idle.steady = {}
    BY DEF Idle
  <1>2. QED
    BY <1>1 DEF Init, Steadiness, SteadyFits

\* EnsureCompleteSVM never creates a second SVM beside one that was running
\* throughout its search, be its cluster reachable or not, unless a call of
\* the search failed at that very SVM or its cluster.
THEOREM NoDoubleOfSteadySvm == Spec => []NeverDoublesASteadySvm
  <1>1. Steadiness => NeverDoublesASteadySvm
    BY DEF Steadiness, SteadyFits, NeverDoublesASteadySvm, At
  <1>2. QED
    BY <1>1, SteadinessInit, ControlInit, ControlNext, SteadinessNext, PTL DEF Spec

-----------------------------------------------------------------------------
(* Complete SVMs.                                                          *)

\* No SVM loses what it has been given, a LIF or a user.
Grows == \A id \in Svms : Given(id) \subseteq Given(id)' /\ users[id] \subseteq users'[id]

\* What an SVM has been given are LIFs.
LEMMA GivenLifs ==
    ASSUME Control, Control', NEW id \in Svms
    PROVE  Given(id) \subseteq Lifs /\ Given(id)' \subseteq Lifs
  BY DEF Control, TypeOK, Given

\* Where that only grows, a complete SVM stays complete.
LEMMA ServedStays ==
    ASSUME Control, Control', ServedIsComplete, Grows, UNCHANGED served
    PROVE  ServedIsComplete'
  <1>1. \A s \in Shoots : served[s] # None => served[s] \in Svms
    BY DEF Control, TypeOK
  <1>2. \A id \in Svms : Given(id)' \subseteq Lifs
    BY GivenLifs
  <1>3. ASSUME NEW s \in Shoots, served[s] # None
        PROVE  Given(served[s])' = Lifs /\ s \in users'[served[s]]
    BY <1>1, <1>2, <1>3 DEF ServedIsComplete, Grows
  <1>4. QED
    BY <1>3 DEF ServedIsComplete

\* A job that stays where it is, or is set back, fits as before.
LEMMA LifsFitStays ==
    ASSUME Control, Control', Grows, NEW s \in Shoots, LifsFit(job[s]),
           \/ job'[s].pc = "idle"
           \/ /\ job'[s].pc = job[s].pc /\ job'[s].lif = job[s].lif
              /\ job'[s].seen = job[s].seen /\ job'[s].target = job[s].target
    PROVE  LifsFit(job[s])'
  <1>1. \A id \in Svms : Given(id)' \subseteq Lifs
    BY GivenLifs
  <1>2. job[s].pc \in {"readLifs", "lifs", "user"} => job[s].target \in Svms
    BY DEF Control, ControlFits
  <1>3. CASE job'[s].pc = "idle"
    BY <1>3 DEF LifsFit
  <1>4. CASE job[s].pc \notin {"readLifs", "lifs", "user"} /\ job'[s].pc = job[s].pc
    BY <1>4 DEF LifsFit
  <1>5. CASE /\ job[s].pc \in {"readLifs", "lifs", "user"}
             /\ job'[s].pc = job[s].pc /\ job'[s].lif = job[s].lif
             /\ job'[s].seen = job[s].seen /\ job'[s].target = job[s].target
    <2>1. PICK id \in Svms : id = job[s].target
      BY <1>2, <1>5
    <2>2. Given(id) \subseteq Given(id)' /\ Given(id)' \subseteq Lifs
      BY <1>1 DEF Grows
    <2>3. /\ job[s].pc \in {"readLifs", "lifs"} => \A l \in Lifs : l < job[s].lif => l \in Given(id)
          /\ job[s].pc = "lifs" => job[s].seen \subseteq Given(id)
          /\ job[s].pc = "user" => Given(id) = Lifs
      BY <2>1 DEF LifsFit
    <2>4. /\ job'[s].pc \in {"readLifs", "lifs"} =>
                \A l \in Lifs : l < job'[s].lif => l \in Given(id)'
          /\ job'[s].pc = "lifs" => job'[s].seen \subseteq Given(id)'
          /\ job'[s].pc = "user" => Given(id)' = Lifs
      BY <1>5, <2>2, <2>3
    <2>5. job'[s].target = id
      BY <1>5, <2>1
    <2>6. QED
      BY <2>4, <2>5 DEF LifsFit, Given
  <1>6. QED
    BY <1>3, <1>4, <1>5

\* Where the passive halves do not change, they do not get ahead.
LEMMA HalvesStay ==
    ASSUME HalvesFit, Grows,
           \A id \in Svms : Passive(id)' =>
               /\ Passive(id)
               /\ Given(id)' = Given(id) /\ users'[id] = users[id]
    PROVE  HalvesFit'
  <1>1. ASSUME NEW id \in Svms, NEW other \in Svms, Behind(id, other)
        PROVE  Behind(id, other)'
    BY <1>1 DEF Behind, Grows
  <1>2. \A c \in Clients : <<c, "primary">> \in Svms /\ <<Partner[c], "mc">> \in Svms
    BY ConstantsAssumption DEF Svms
  <1>3. QED
    BY <1>1, <1>2 DEF HalvesFit

\* A step of one job that changes no configuration.
LEMMA QuietStep ==
    ASSUME Control, Control', Completeness, NEW s \in Shoots, OthersStay(s),
           UNCHANGED <<world, served>>, LifsFit(job[s])'
    PROVE  Completeness'
  <1>1. HalvesFit' /\ ServedIsComplete'
    BY DEF world, Completeness, HalvesFit, Behind, Passive, ServedIsComplete, Given
  <1>2. Grows
    BY DEF world, Grows, Given
  <1>3. ASSUME NEW t \in Shoots \ {s} PROVE LifsFit(job[t])'
    BY <1>2, LifsFitStays DEF OthersStay, Completeness
  <1>4. QED
    BY <1>1, <1>3 DEF Completeness

\* Every call of a reconciliation keeps Completeness.
LEMMA ReconcileComplete ==
    ASSUME Control, Completeness, NEW s \in Shoots, Reconcile(s) \/ Mishap(s)
    PROVE  Completeness'
  <1> DEFINE j == job[s]
  <1>0. TypeOK /\ j \in Jobs /\ ControlFits(j) /\ LifsFit(j) /\ ServedIsComplete
        /\ HalvesFit
    BY DEF Control, TypeOK, Completeness
  <1>1. Control' /\ job' \in [Shoots -> Jobs]
    BY ReconcileControl DEF Control, TypeOK
  <1>o. ASSUME NEW k, GoTo(s, k) PROVE job'[s] = k /\ OthersStay(s)
    BY <1>0, <1>o DEF GoTo, TypeOK, OthersStay
  \* Up to the LIFs, and on every return, there is nothing to show.
  <1>q. ASSUME UNCHANGED <<world, served>>, OthersStay(s),
               job'[s].pc \notin {"readLifs", "lifs", "user"}
        PROVE  Completeness'
    <2>1. LifsFit(job[s])'
      BY <1>q DEF LifsFit
    <2>2. QED
      BY <1>1, <1>q, <2>1, QuietStep
  <1>r. ASSUME UNCHANGED <<world, served>>, Return(s) PROVE Completeness'
    BY <1>r, <1>o, <1>q DEF Return, Idle
  <1>t. ASSUME UNCHANGED <<world, served>>, Retry(s) PROVE Completeness'
    <2> DEFINE k == [j EXCEPT !.pc = "probe", !.client = 1, !.name = "primary",
                              !.target = None, !.tries = @ + 1]
    <2>1. k.pc = "probe"
      BY <1>0 DEF Jobs
    <2>2. GoTo(s, k) \/ Return(s)
      BY <1>t DEF Retry
    <2> HIDE DEF k
    <2>3. QED
      BY <1>t, <1>o, <1>q, <1>r, <2>1, <2>2
  <1>2. CASE Begin(s) \/ Probe(s) \/ NotFound(s) \/ SelectWriteClient(s)
    <2>1. UNCHANGED <<world, served>>
      BY <1>2 DEF Begin, Probe, NotFound, SelectWriteClient
    <2>2. ASSUME NEW k, GoTo(s, k), k.pc \notin {"readLifs", "lifs", "user"}
          PROVE  Completeness'
      BY <1>o, <1>q, <2>1, <2>2
    <2>3. CASE Begin(s)
      <3> DEFINE k == [Idle EXCEPT !.pc = "probe",
                                   !.steady = {id \in Svms : Running(id)}]
      <3>1. GoTo(s, k) /\ k.pc = "probe"
        BY <2>3 DEF Begin, Idle
      <3> HIDE DEF k
      <3>2. QED
        BY <2>2, <3>1
    <2>4. CASE Probe(s)
      <3> DEFINE k1 == [j EXCEPT !.target = <<j.client, j.name>>,
                                 !.pc = IF j.creating THEN "nvme" ELSE "validate"]
                 k2 == [j EXCEPT !.name = "mc"]
                 k3 == [j EXCEPT !.client = @ + 1, !.name = "primary"]
      <3>1. /\ k1.pc \in {"nvme", "validate"} /\ k2.pc = "probe" /\ k3.pc = "probe"
            /\ GoTo(s, k1) \/ GoTo(s, k2) \/ GoTo(s, k3)
        BY <1>0, <2>4 DEF Probe, At, Jobs
      <3> HIDE DEF k1, k2, k3
      <3>2. QED
        BY <2>2, <3>1
    <2>5. CASE NotFound(s)
      <3> DEFINE k == [j EXCEPT !.pc = "select", !.client = 1]
      <3>1. k.pc = "select" /\ (GoTo(s, k) \/ Retry(s))
        BY <1>0, <2>5 DEF NotFound, Jobs
      <3> HIDE DEF k
      <3>2. QED
        BY <1>t, <2>1, <2>2, <3>1
    <2>6. CASE SelectWriteClient(s)
      <3> DEFINE k(b) == [j EXCEPT !.at = b, !.client = @ + 1]
                 k2 == [j EXCEPT !.pc = "create"]
      <3>1. /\ \A b : k(b).pc = "select"
            /\ k2.pc = "create"
            /\ Return(s) \/ GoTo(s, k2) \/ \E b \in {j.at, j.client} : GoTo(s, k(b))
        BY <1>0, <2>6 DEF SelectWriteClient, At, Jobs
      <3> HIDE DEF k, k2
      <3>2. QED
        BY <1>r, <2>1, <2>2, <3>1
    <2>7. QED
      BY <1>2, <2>3, <2>4, <2>5, <2>6
  <1>3. CASE CreateSvm(s)
    <2>1. /\ OthersStay(s) /\ job'[s].pc \in {"probe", "idle"}
          /\ UNCHANGED <<lifs, lost, users, served>>
          /\ svm' = svm \/ svm' = [svm EXCEPT ![<<j.at, "primary">>] = "starting"]
      <3> DEFINE k == [j EXCEPT !.pc = "probe", !.creating = TRUE, !.client = 1,
                                !.name = "primary", !.steady = {}]
      <3>1. k.pc = "probe" /\ Idle.pc = "idle"
        BY <1>0 DEF Jobs, Idle
      <3>2. GoTo(s, k) \/ GoTo(s, Idle)
        BY <1>3 DEF CreateSvm, Applied, Return
      <3> HIDE DEF k
      <3>3. OthersStay(s) /\ job'[s].pc \in {"probe", "idle"}
        BY <1>o, <3>1, <3>2
      <3>4. QED
        BY <1>3, <3>3 DEF CreateSvm
    <2>2. Grows /\ ServedIsComplete'
      BY <1>0, <2>1 DEF Grows, ServedIsComplete, Given
    <2>3. \A id \in Svms : Passive(id)' => Passive(id)
      BY <1>0, <2>1 DEF Passive, TypeOK
    <2>4. HalvesFit'
      BY <1>0, <2>1, <2>2, <2>3, HalvesStay DEF Given
    <2>5. ASSUME NEW t \in Shoots PROVE LifsFit(job[t])'
      BY <1>1, <2>1, <2>2, LifsFitStays DEF OthersStay, Completeness, LifsFit
    <2>6. QED
      BY <2>2, <2>4, <2>5 DEF Completeness
  <1>4. CASE AwaitNvme(s)
    <2> DEFINE k == [j EXCEPT !.pc = "lifs"]
    <2>1. j.lif = 1 /\ j.seen = {} /\ UNCHANGED <<world, served>>
      BY <1>0, <1>4 DEF AwaitNvme, At, ControlFits
    <2>2. k.pc = "lifs" /\ k.lif = 1 /\ k.seen = {}
      BY <1>0, <2>1 DEF Jobs
    <2>3. GoTo(s, k) \/ Retry(s)
      BY <1>4 DEF AwaitNvme
    <2> HIDE DEF k
    <2>4. CASE GoTo(s, k)
      <3>1. job'[s] = k /\ OthersStay(s)
        BY <1>o, <2>4
      <3>2. \A l \in Lifs : ~(l < 1)
        BY ConstantsAssumption DEF Lifs
      <3>3. LifsFit(job[s])'
        BY <2>2, <3>1, <3>2 DEF LifsFit
      <3>4. QED
        BY <1>1, <2>1, <3>1, <3>3, QuietStep
    <2>5. QED
      BY <1>t, <2>1, <2>3, <2>4
  <1>5. CASE ValidateSVMRunningState(s)
    <2> DEFINE k == [j EXCEPT !.pc = "readLifs", !.at = j.target[1]]
    <2>1. j.lif = 1 /\ UNCHANGED <<world, served>>
      BY <1>0, <1>5 DEF ValidateSVMRunningState, At, ControlFits
    <2>2. k.pc = "readLifs" /\ k.lif = 1
      BY <1>0, <2>1 DEF Jobs
    <2>3. GoTo(s, k) \/ Return(s)
      BY <1>5 DEF ValidateSVMRunningState
    <2> HIDE DEF k
    <2>4. CASE GoTo(s, k)
      <3>1. job'[s] = k /\ OthersStay(s)
        BY <1>o, <2>4
      <3>2. \A l \in Lifs : ~(l < 1)
        BY ConstantsAssumption DEF Lifs
      <3>3. LifsFit(job[s])'
        BY <2>2, <3>1, <3>2 DEF LifsFit
      <3>4. QED
        BY <1>1, <2>1, <3>1, <3>3, QuietStep
    <2>5. QED
      BY <1>r, <2>1, <2>3, <2>4
  <1>6. CASE GetExistingNetworkInterfaces(s)
    <2> DEFINE k == [j EXCEPT !.pc = "lifs", !.seen = lifs[j.target]]
    <2>1. j.pc = "readLifs" /\ UNCHANGED <<world, served>>
      BY <1>6 DEF GetExistingNetworkInterfaces, At
    <2>2. /\ k.pc = "lifs" /\ k.lif = j.lif /\ k.seen = lifs[j.target]
          /\ k.target = j.target
      BY <1>0 DEF Jobs
    <2>3. GoTo(s, k) \/ Return(s)
      BY <1>6 DEF GetExistingNetworkInterfaces
    <2> HIDE DEF k
    <2>4. CASE GoTo(s, k)
      <3>1. job'[s] = k /\ OthersStay(s)
        BY <1>o, <2>4
      <3>2. LifsFit(job[s])'
        BY <1>0, <2>1, <2>2, <3>1 DEF LifsFit, Given, world
      <3>3. QED
        BY <1>1, <2>1, <3>1, <3>2, QuietStep
    <2>5. QED
      BY <1>r, <2>1, <2>3, <2>4
  <1>7. CASE KeepLif(s) \/ CreateLif(s)
    <2> DEFINE k == AfterLif(j)
    <2>0. PICK target \in Svms : target = j.target
      BY <1>0, <1>7 DEF KeepLif, CreateLif, At, ControlFits
    <2>1. /\ j.pc = "lifs" /\ j.target \in Svms /\ j.lif \in Lifs
          /\ UNCHANGED <<svm, users, served>>
      BY <1>0, <1>7 DEF KeepLif, CreateLif, At, ControlFits, world
    <2>2. /\ k.target = j.target /\ k.lif = j.lif + 1 /\ k.seen = j.seen
          /\ k.pc \in {"user", "readLifs", "lifs"}
          /\ k.pc = "user" => j.lif = NumLifs
      BY <1>0 DEF AfterLif, Jobs
    <2> HIDE DEF k
    \* Either the LIF is there now, or the reconciliation returned.
    <2>3. /\ OthersStay(s) /\ job'[s] \in {k, Idle}
          /\ job'[s] = Idle \/ j.lif \in Given(target)'
          /\ \/ UNCHANGED <<lifs, lost>>
             \/ /\ ~Passive(j.target)
                /\ lifs' = [lifs EXCEPT ![j.target] = @ \cup {j.lif}]
                /\ lost' = [lost EXCEPT ![j.target] = @ \ {j.lif}]
      <3>1. CASE KeepLif(s)
        BY <1>0, <1>o, <2>0, <2>1, <3>1 DEF KeepLif, world, LifsFit, Given, k
      <3>2. CASE CreateLif(s)
        BY <1>0, <1>o, <2>0, <2>1, <3>2
           DEF CreateLif, Applied, Return, Accepts, Passive, Given, TypeOK, k
      <3>3. QED
        BY <1>7, <3>1, <3>2
    <2>4. Grows
      BY <1>0, <2>1, <2>3 DEF Grows, Given, TypeOK
    <2>5. HalvesFit'
      <3>1. \A id \in Svms : Passive(id)' => Passive(id) /\ Given(id)' = Given(id)
        BY <1>0, <2>1, <2>3 DEF Passive, Given, TypeOK
      <3>2. QED
        BY <1>0, <2>1, <2>4, <3>1, HalvesStay
    <2>6. LifsFit(job[s])'
      <3>1. CASE job'[s] = Idle
        BY <3>1 DEF LifsFit, Idle
      <3>2. CASE job'[s] = k /\ j.lif \in Given(target)'
        <4>1. \A l \in Lifs : l < k.lif => l < j.lif \/ l = j.lif
          BY <2>1, <2>2, ConstantsAssumption DEF Lifs
        <4>2. \A l \in Lifs : l < k.lif => l \in Given(target)'
          BY <1>0, <2>0, <2>1, <2>4, <3>2, <4>1 DEF LifsFit, Grows
        <4>3. j.seen \subseteq Given(target)'
          BY <1>0, <2>0, <2>1, <2>4 DEF LifsFit, Grows
        <4>4. k.pc = "user" => Given(target)' = Lifs
          <5>1. Given(target)' \subseteq Lifs
            BY <1>1, <2>0, GivenLifs
          <5>2. k.pc = "user" => \A l \in Lifs : l < k.lif
            BY <2>1, <2>2, ConstantsAssumption DEF Lifs
          <5>3. QED
            BY <4>2, <5>1, <5>2
        <4>5. QED
          BY <2>0, <2>2, <3>2, <4>2, <4>3, <4>4 DEF LifsFit, Given
      <3>3. QED
        BY <2>3, <3>1, <3>2
    <2>7. ASSUME NEW t \in Shoots PROVE LifsFit(job[t])'
      <3>1. CASE t = s
        BY <2>6, <3>1
      <3>2. CASE t # s
        BY <1>1, <2>3, <2>4, <3>2, LifsFitStays DEF OthersStay, Completeness
      <3>3. QED
        BY <3>1, <3>2
    <2>8. QED
      BY <1>0, <1>1, <2>1, <2>4, <2>5, <2>7, ServedStays DEF Completeness
  <1>8. CASE EnsureUser(s)
    <2>1. /\ j.target \in Svms /\ Given(j.target) = Lifs
          /\ job'[s] = Idle /\ OthersStay(s) /\ UNCHANGED <<svm, lifs, lost>>
      BY <1>0, <1>8, ReturnEffect DEF EnsureUser, At, ControlFits, LifsFit
    <2>2. CASE UNCHANGED <<users, served>>
      BY <1>8, <2>1, <2>2, <1>r DEF EnsureUser, world
    <2>3. CASE /\ Accepts(j) \/ s \in users[j.target]
               /\ users' = [users EXCEPT ![j.target] = @ \cup {s}]
               /\ served' = [served EXCEPT ![s] = j.target]
      <3>1. Grows
        BY <1>0, <2>1, <2>3 DEF Grows, Given, TypeOK
      <3>2. HalvesFit'
        <4>1. \A id \in Svms : Passive(id)' => Passive(id) /\ users'[id] = users[id]
          BY <1>0, <2>1, <2>3 DEF Passive, Accepts, TypeOK
        <4>2. QED
          BY <1>0, <2>1, <3>1, <4>1, HalvesStay DEF Given
      <3>3. ASSUME NEW t \in Shoots, served'[t] # None
            PROVE  Given(served[t])' = Lifs /\ t \in users'[served'[t]]
        <4>1. CASE t = s
          BY <1>0, <2>1, <2>3, <4>1 DEF Given, TypeOK
        <4>2. CASE t # s
          BY <1>0, <2>1, <2>3, <3>1, <3>3, <4>2
             DEF Given, TypeOK, ServedIsComplete, Grows
        <4>3. QED
          BY <4>1, <4>2
      <3>4. ASSUME NEW t \in Shoots PROVE LifsFit(job[t])'
        BY <1>1, <2>1, <3>1, LifsFitStays DEF OthersStay, Completeness, Idle
      <3>5. QED
        BY <3>2, <3>3, <3>4 DEF Completeness, ServedIsComplete
    <2>4. QED
      BY <1>8, <2>2, <2>3 DEF EnsureUser
  <1>9. CASE Interrupted(s)
    BY <1>9, <1>r DEF Interrupted
  <1>10. CASE Overlook(s)
    BY <1>0, <1>10, <1>q, OverlookEffect
  <1>11. CASE AttemptFails(s)
    BY <1>11, <1>t DEF AttemptFails
  <1>12. QED
    BY <1>2, <1>3, <1>4, <1>5, <1>6, <1>7, <1>8, <1>9, <1>10, <1>11 DEF Reconcile, Mishap

\* So does everything the clusters do.
LEMMA OntapComplete ==
    ASSUME Control, Completeness, Ontap
    PROVE  Completeness'
  <1>0. TypeOK /\ HalvesFit /\ ServedIsComplete /\ UNCHANGED served
        /\ \A s \in Shoots : job[s] \in Jobs /\ LifsFit(job[s])
    BY DEF Control, TypeOK, Completeness, Ontap, Progress, SvmStarts, NvmeEnabled,
           Restart, Stop, LifLost, Outage, Recover, SwitchoverOrBack, Move
  <1>1. Control'
    BY OntapControl
  \* Whatever happens to a job, its history apart it stays as it is.
  <1>j. \A s \in Shoots : /\ job'[s].pc = job[s].pc /\ job'[s].lif = job[s].lif
                          /\ job'[s].seen = job[s].seen
                          /\ job'[s].target = job[s].target
    <2>1. CASE job' = job
      BY <2>1
    <2>2. ASSUME NEW ids, Unsteady(ids), NEW s \in Shoots
          PROVE  /\ job'[s].pc = job[s].pc /\ job'[s].lif = job[s].lif
                 /\ job'[s].seen = job[s].seen /\ job'[s].target = job[s].target
      <3>1. job'[s] = [job[s] EXCEPT !.steady = job[s].steady \ ids]
        BY <1>0, <2>2, UnsteadyEffect
      <3>2. QED
        BY <1>0, <3>1 DEF Jobs
    <2>3. QED
      BY <2>1, <2>2 DEF Ontap, Progress, SvmStarts, NvmeEnabled, Restart, Stop,
                        LifLost, Outage, Recover, SwitchoverOrBack, Move
  <1>g. ASSUME Grows, HalvesFit' PROVE Completeness'
    BY <1>0, <1>1, <1>g, <1>j, ServedStays, LifsFitStays DEF Completeness
  <1>p. ASSUME UNCHANGED users, \A id \in Svms : Given(id)' = Given(id),
               \A id \in Svms : Passive(id)' => Passive(id)
        PROVE  Completeness'
    BY <1>0, <1>g, <1>p, HalvesStay DEF Grows
  <1>2. ASSUME NEW id \in Svms, Progress(id) \/ Stop(id) PROVE Completeness'
    <2>1. UNCHANGED <<lifs, lost, users>>
      BY <1>2 DEF Progress, SvmStarts, NvmeEnabled, Restart, Stop
    <2>2. \A x \in Svms : Passive(x)' => Passive(x)
      BY <1>0, <1>2 DEF Progress, SvmStarts, NvmeEnabled, Restart, Stop, Passive, TypeOK
    <2>3. QED
      BY <1>p, <2>1, <2>2 DEF Given
  <1>3. ASSUME NEW c \in Clients, Outage(c) \/ Recover(c) PROVE Completeness'
    BY <1>3, <1>p DEF Outage, Recover, Passive, Given
  <1>4. ASSUME NEW c \in Clients, NEW from, NEW to, Move(from, to),
               \/ from = <<c, "primary">> /\ to = <<Partner[c], "mc">>
               \/ from = <<Partner[c], "mc">> /\ to = <<c, "primary">>
        PROVE  Completeness'
    <2>1. from \in Svms /\ to \in Svms /\ from # to
      BY <1>4, ConstantsAssumption DEF Svms
    <2>2. /\ svm'[from] = "standby" /\ svm'[to] = "ready"
          /\ Given(to)' = Given(from) /\ users'[to] = users[from]
          /\ Given(from)' = Given(from) /\ users'[from] = users[from]
          /\ \A id \in Svms \ {from, to} :
                svm'[id] = svm[id] /\ Given(id)' = Given(id) /\ users'[id] = users[id]
      BY <1>0, <1>4, <2>1 DEF Move, Given, TypeOK
    <2>3. Behind(to, from) /\ Passive(to)
      BY <1>0, <1>4 DEF HalvesFit, Move, Passive
    <2>4. Grows
      BY <2>2, <2>3 DEF Grows, Behind
    <2>5. Behind(from, to)' /\ Behind(to, from)'
      BY <2>2 DEF Behind, Passive
    <2>6. ASSUME NEW d \in Clients \ {c}
          PROVE  /\ Behind(<<d, "primary">>, <<Partner[d], "mc">>)'
                 /\ Behind(<<Partner[d], "mc">>, <<d, "primary">>)'
      <3>1. /\ <<d, "primary">> \in Svms \ {from, to}
            /\ <<Partner[d], "mc">> \in Svms \ {from, to}
        BY <1>4, ConstantsAssumption DEF Svms
      <3>2. QED
        BY <1>0, <2>2, <3>1 DEF HalvesFit, Behind, Passive
    <2>7. HalvesFit'
      BY <1>4, <2>5, <2>6 DEF HalvesFit
    <2>8. QED
      BY <1>g, <2>4, <2>7
  <1>5. ASSUME NEW id \in Svms, LifLost(id) PROVE Completeness'
    <2>1. \A x \in Svms : Given(x)' = Given(x)
      BY <1>0, <1>5 DEF LifLost, Given, TypeOK
    <2>2. QED
      BY <1>5, <1>p, <2>1 DEF LifLost, Passive
  <1>6. QED
    BY <1>2, <1>3, <1>4, <1>5 DEF Ontap, SwitchoverOrBack

\* The inductive invariant of the three parts, for any shoots, any clusters
\* and any number of LIFs, attempts and disturbances of every kind.
THEOREM Invariance == Spec => []IInv
  <1>1. Init => Completeness
    <2>1. Idle.pc = "idle"
      BY DEF Idle
    <2>2. \A c \in Clients : <<c, "primary">> \in Svms /\ <<Partner[c], "mc">> \in Svms
      BY ConstantsAssumption DEF Svms
    <2>3. QED
      BY <2>1, <2>2 DEF Init, Completeness, HalvesFit, Behind, ServedIsComplete, LifsFit,
                         Given
  <1>2. Control /\ Completeness /\ [Next]_vars => Completeness'
    <2> SUFFICES ASSUME Control, Completeness, [Next]_vars PROVE Completeness'
      OBVIOUS
    <2>1. CASE UNCHANGED vars
      BY <2>1 DEF vars, Completeness, HalvesFit, Behind, Passive, ServedIsComplete,
                  LifsFit, Given
    <2>2. QED
      BY <2>1, ReconcileComplete, OntapComplete DEF Next
  <1>3. Control /\ Steadiness /\ Completeness => IInv
    BY DEF IInv
  <1>4. QED
    BY <1>1, <1>2, <1>3, SteadinessInit, SteadinessNext, ControlInit, ControlNext,
       PTL DEF Spec

\* Every successful EnsureCompleteSVM leaves an SVM with all its LIFs and
\* the shoot's user, and they stay, but for LIFs that ONTAP itself loses.
THEOREM ServedAreComplete == Spec => []ServedIsComplete
  <1>1. IInv => ServedIsComplete
    BY DEF IInv, Completeness
  <1>2. QED
    BY Invariance, <1>1, PTL

=============================================================================

----------------------------- MODULE ActuatorProofs -----------------------------
(***************************************************************************)
(* For any shoots, clusters and disturbances: the process works with all   *)
(* clusters or not at all, so no lookup misses an SVM for a restart; and   *)
(* success, deletion and the resources in the shoots agree, as the         *)
(* contract of Extensions has it.                                          *)
(***************************************************************************)
EXTENDS Actuator, TLAPS

\* Workers have a client for every cluster.
Connected ==
    /\ process = "starting" => \A c \in Clusters : c < probe => c \in clients
    /\ process = "running" => clients = Clusters
    /\ \A s \in Shoots : job[s].pc # "idle" => process = "running"

\* A steady SVM runs, and the lookup is yet to come to its cluster, or cannot
\* reach it; then getWriteClient is yet to come to it, and to fail.
SteadyFits(j) ==
    /\ j.steady \subseteq svms
    /\ j.pc = "lookup" => \A c \in j.steady : c \notin up \/ c >= j.at
    /\ j.pc = "select" => \A c \in j.steady : c \notin up /\ c >= j.at
    /\ j.pc = "create" => j.steady = {}

Steadiness == \A s \in Shoots : SteadyFits(job[s])

\* What the steps of a worker and the results say of each other.
ResultFits(s) ==
    /\ s \in succeeded => s \in deployed /\ s \in webhook
    /\ job[s].pc = "webhook" => s \in deployed
    /\ job[s].pc = "deleteWebhook" => s \notin deployed /\ s \notin succeeded
    /\ job[s].pc # "idle" => extension[s] \notin {"none", "left"}
    /\ job[s].pc \in {"delete", "deleteWebhook"} => extension[s] = "deleting"
    /\ extension[s] = "none" => s \notin deployed /\ s \notin webhook

Results == \A s \in Shoots : ResultFits(s)

IInv == TypeOK /\ Connected /\ Steadiness /\ Results

-----------------------------------------------------------------------------

\* The idle job fits everything.
LEMMA IdleFits == Idle \in Jobs /\ SteadyFits(Idle) /\ Idle.pc = "idle"
  BY ConstantsAssumption DEF Idle, Jobs, Steps, SteadyFits

\* The bound on disturbances is kept.
LEMMA FaultsBounded ==
    ASSUME NEW kind, Fault(kind), faults \in 0..MaxFaults
    PROVE  faults' \in 0..MaxFaults
  BY ConstantsAssumption DEF Fault

\* A step of a worker that sets its job and nothing else but, perhaps, the
\* bound on disturbances.
LEMMA OnlyJob ==
    ASSUME IInv, NEW s \in Shoots, NEW j \in Jobs, GoTo(s, j), SteadyFits(j),
           j.pc # "idle" => process = "running" /\ extension[s] \notin {"none", "left"},
           j.pc = "webhook" => s \in deployed,
           j.pc = "delete" => extension[s] = "deleting",
           j.pc # "deleteWebhook",
           UNCHANGED <<startup, up, svms, objects, results>>,
           faults' \in 0..MaxFaults
    PROVE  IInv'
  <1> USE DEF startup, objects, results
  <1>1. job' \in [Shoots -> Jobs] /\ \A t \in Shoots : job'[t] = IF t = s THEN j ELSE job[t]
    BY DEF GoTo, IInv, TypeOK
  <1>2. TypeOK'
    BY <1>1 DEF IInv, TypeOK
  <1>3. Connected'
    BY <1>1 DEF IInv, Connected
  <1>4. Steadiness'
    BY <1>1 DEF IInv, Steadiness, SteadyFits
  <1>5. Results'
    BY <1>1 DEF IInv, Results, ResultFits
  <1> QED BY <1>2, <1>3, <1>4, <1>5 DEF IInv

\* The invariant holds in the beginning.
LEMMA Initially == Init => IInv
  <1> SUFFICES ASSUME Init PROVE IInv
    OBVIOUS
  <1>1. TypeOK
    <2>1. job \in [Shoots -> Jobs]
      BY IdleFits DEF Init
    <2>2. probe \in 1..(NumClusters + 1) /\ faults \in 0..MaxFaults
      BY ConstantsAssumption DEF Init
    <2> QED BY <2>1, <2>2 DEF Init, TypeOK
  <1>2. Connected
    BY IdleFits DEF Init, Connected
  <1>3. Steadiness
    BY IdleFits DEF Init, Steadiness
  <1>4. Results
    BY IdleFits DEF Init, Results, ResultFits
  <1> QED BY <1>1, <1>2, <1>3, <1>4 DEF IInv

-----------------------------------------------------------------------------
(* The process.                                                            *)

\* Starting the process, client by client, keeps the invariant.
LEMMA ProcessKeeps == ASSUME IInv, Process PROVE IInv'
  <1> USE DEF objects, results
  <1>1. CASE Start
    <2>1. TypeOK'
      BY <1>1, ConstantsAssumption DEF Start, IInv, TypeOK
    <2>2. Connected'
      BY <1>1 DEF Start, IInv, Connected, Clusters
    <2> QED BY <1>1, <2>1, <2>2
            DEF Start, IInv, Steadiness, SteadyFits, Results, ResultFits
  <1>2. CASE CreateAdminClient
    <2>1. probe \in Clusters /\ probe + 1 \in 1..(NumClusters + 1)
      BY <1>2, ConstantsAssumption DEF CreateAdminClient, Clusters
    <2>2. TypeOK'
      BY <1>2, <2>1 DEF CreateAdminClient, IInv, TypeOK
    <2>3. Connected'
      <3>1. process = "starting" /\ job' = job /\ \A s \in Shoots : job[s].pc = "idle"
        BY <1>2 DEF CreateAdminClient, IInv, Connected
      <3>2. CASE clients' = clients \cup {probe} /\ probe' = probe + 1 /\ UNCHANGED process
        <4>1. ASSUME NEW c \in Clusters, c < probe + 1 PROVE c \in clients \cup {probe}
          <5>1. c < probe \/ c = probe
            BY <2>1, <4>1, ConstantsAssumption DEF Clusters
          <5> QED BY <3>1, <5>1 DEF IInv, Connected
        <4> QED BY <3>1, <3>2, <4>1 DEF Connected
      <3>3. CASE process' = "down"
        BY <3>1, <3>3 DEF Connected
      <3> QED BY <1>2, <3>2, <3>3 DEF CreateAdminClient
    <2> QED BY <1>2, <2>2, <2>3
            DEF CreateAdminClient, IInv, Steadiness, SteadyFits, Results, ResultFits
  <1>3. CASE StartManager
    <2>1. TypeOK'
      BY <1>3 DEF StartManager, IInv, TypeOK
    <2>2. clients = Clusters
      <3>1. /\ clients \subseteq Clusters /\ probe \in 1..(NumClusters + 1)
            /\ probe \notin Clusters /\ \A c \in Clusters : c < probe => c \in clients
        BY <1>3 DEF StartManager, IInv, TypeOK, Connected
      <3>2. \A c \in Clusters : c < probe
        BY <3>1, ConstantsAssumption DEF Clusters
      <3> QED BY <3>1, <3>2
    <2>3. Connected'
      BY <1>3, <2>2 DEF StartManager, IInv, Connected
    <2> QED BY <1>3, <2>1, <2>3
            DEF StartManager, IInv, Steadiness, SteadyFits, Results, ResultFits
  <1> QED BY <1>1, <1>2, <1>3 DEF Process

\* So does the end of the process, which ends every reconciliation in it.
LEMMA StopKeeps == ASSUME IInv, Stop PROVE IInv'
  <1> USE DEF objects, results
  <1>1. job' = [s \in Shoots |-> Idle] /\ \A s \in Shoots : job'[s] = Idle
    BY DEF Stop
  <1>2. TypeOK'
    <2>1. job' \in [Shoots -> Jobs]
      BY <1>1, IdleFits
    <2>2. faults' \in 0..MaxFaults
      BY FaultsBounded DEF Stop, IInv, TypeOK
    <2> QED BY <2>1, <2>2 DEF Stop, IInv, TypeOK
  <1>3. Connected'
    BY <1>1, IdleFits DEF Stop, Connected
  <1>4. Steadiness'
    BY <1>1 DEF Stop, Steadiness, SteadyFits, Idle
  <1>5. Results'
    BY <1>1, IdleFits DEF Stop, IInv, Results, ResultFits
  <1> QED BY <1>2, <1>3, <1>4, <1>5 DEF IInv

-----------------------------------------------------------------------------
(* The workers.                                                            *)

\* The beginning of a reconciliation: nothing has been looked up yet.
LEMMA ReconcileKeeps == ASSUME IInv, NEW s \in Shoots, Reconcile(s) PROVE IInv'
  <1> DEFINE j == [pc |-> "lookup", at |-> 1, best |-> None, steady |-> svms]
  <1>1. svms \subseteq Clusters /\ faults \in 0..MaxFaults
    BY DEF IInv, TypeOK
  <1>2. /\ j \in Jobs /\ j.pc = "lookup" /\ j.steady = svms /\ j.at = 1
    <2>1. 1 \in 1..(NumClusters + 1)
      BY ConstantsAssumption
    <2> QED BY <1>1, <2>1 DEF Jobs, Steps
  <1>3. GoTo(s, j) /\ UNCHANGED <<startup, up, svms, objects, results, faults>>
    BY DEF Reconcile
  <1>4. process = "running" /\ extension[s] \notin {"none", "left"}
    BY DEF Reconcile
  <1> HIDE DEF j
  <1>5. ASSUME NEW c \in j.steady PROVE c >= j.at
    <2>1. c \in 1..NumClusters
      BY <1>1, <1>2 DEF Clusters
    <2> QED BY <1>2, <2>1, ConstantsAssumption
  <1>6. SteadyFits(j)
    BY <1>2, <1>5 DEF SteadyFits
  <1> QED BY <1>1, <1>2, <1>3, <1>4, <1>6, OnlyJob

\* What a worker in the midst of a reconciliation relies on.
LEMMA Working ==
    ASSUME IInv, NEW s \in Shoots, job[s].pc # "idle"
    PROVE  /\ job[s] \in Jobs /\ SteadyFits(job[s])
           /\ process = "running" /\ clients = Clusters /\ extension[s] \notin {"none", "left"}
           /\ faults \in 0..MaxFaults
  BY DEF IInv, TypeOK, Connected, Steadiness, Results, ResultFits

\* The lookup: an SVM that runs steadily is found, or its cluster is down or still to come.
LEMMA GetSVMByNameKeeps == ASSUME IInv, NEW s \in Shoots, GetSVMByName(s) PROVE IInv'
  <1> DEFINE j == job[s]
             found == [j EXCEPT !.pc = "complete", !.best = j.at]
             on == [j EXCEPT !.at = @ + 1]
             over == [j EXCEPT !.pc = "select", !.at = 1]
  <1>1. /\ j.pc = "lookup" /\ UNCHANGED <<startup, up, svms, objects, results, faults>>
    BY DEF GetSVMByName, At
  <1>2. /\ j \in Jobs /\ SteadyFits(j)
        /\ process = "running" /\ clients = Clusters /\ extension[s] \notin {"none", "left"}
        /\ faults \in 0..MaxFaults
    BY <1>1, Working
  <1>3. j.at \in 1..(NumClusters + 1) /\ j.steady \subseteq Clusters /\ NumClusters \in Nat
    BY <1>2, ConstantsAssumption DEF Jobs
  <1>4. CASE j.at \in clients \cap up \cap svms /\ GoTo(s, found)
    <2>1. found \in Jobs /\ found.pc = "complete" /\ found.steady = j.steady
      <3>1. j.at \in Clusters \cup {None}
        BY <1>2, <1>4
      <3> QED BY <1>2, <3>1 DEF Jobs, Steps
    <2>2. SteadyFits(found)
      BY <1>2, <2>1 DEF SteadyFits
    <2> HIDE DEF found
    <2> QED BY <1>1, <1>2, <1>4, <2>1, <2>2, OnlyJob
  <1>5. CASE j.at \in Clusters \ (clients \cap up \cap svms) /\ GoTo(s, on)
    <2>1. j.at + 1 \in 1..(NumClusters + 1)
      BY <1>3, <1>5 DEF Clusters
    <2>2. on \in Jobs /\ on.pc = "lookup" /\ on.steady = j.steady /\ on.at = j.at + 1
      BY <1>1, <1>2, <2>1 DEF Jobs
    <2>3. ASSUME NEW c \in j.steady PROVE c \notin up \/ c >= j.at + 1
      <3>1. c \in svms /\ (c \notin up \/ c >= j.at)
        BY <1>1, <1>2 DEF SteadyFits
      <3>2. c # j.at \/ c \notin up
        BY <1>2, <1>5, <3>1
      <3> QED BY <1>3, <3>1, <3>2 DEF Clusters
    <2>4. SteadyFits(on)
      BY <1>2, <2>2, <2>3 DEF SteadyFits
    <2> HIDE DEF on
    <2> QED BY <1>1, <1>2, <1>5, <2>2, <2>4, OnlyJob
  <1>6. CASE j.at \notin Clusters /\ GoTo(s, over)
    <2>1. over \in Jobs /\ over.pc = "select" /\ over.steady = j.steady /\ over.at = 1
      <3>1. 1 \in 1..(NumClusters + 1)
        BY <1>3
      <3> QED BY <1>2, <3>1 DEF Jobs, Steps
    <2>2. ASSUME NEW c \in j.steady PROVE c \notin up /\ c >= 1
      <3>1. c \notin up \/ c >= j.at
        BY <1>1, <1>2 DEF SteadyFits
      <3> QED BY <1>3, <1>6, <3>1 DEF Clusters
    <2>3. SteadyFits(over)
      BY <1>2, <2>1, <2>2 DEF SteadyFits
    <2> HIDE DEF over
    <2> QED BY <1>1, <1>2, <1>6, <2>1, <2>3, OnlyJob
  <1> HIDE DEF found, on, over
  <1> QED BY <1>4, <1>5, <1>6 DEF GetSVMByName, found, on, over

\* A failed call in the lookup: what it hides is not steady any more.
LEMMA OverlookKeeps == ASSUME IInv, NEW s \in Shoots, Overlook(s) PROVE IInv'
  <1> DEFINE j == job[s]
             on == [j EXCEPT !.at = @ + 1, !.steady = @ \ {j.at}]
  <1>1. /\ j.pc = "lookup" /\ j.at \in Clusters
        /\ GoTo(s, on) /\ UNCHANGED <<startup, up, svms, objects, results>>
    BY DEF Overlook, At, IInv, TypeOK
  <1>2. /\ j \in Jobs /\ SteadyFits(j)
        /\ process = "running" /\ extension[s] \notin {"none", "left"}
        /\ faults \in 0..MaxFaults
    BY <1>1, Working
  <1>3. faults' \in 0..MaxFaults
    BY <1>2, FaultsBounded DEF Overlook
  <1>4. j.at + 1 \in 1..(NumClusters + 1) /\ j.steady \subseteq Clusters /\ NumClusters \in Nat
    BY <1>1, <1>2, ConstantsAssumption DEF Jobs, Clusters
  <1>5. /\ on \in Jobs /\ on.pc = "lookup"
        /\ on.steady = j.steady \ {j.at} /\ on.at = j.at + 1
    BY <1>1, <1>2, <1>4 DEF Jobs
  <1>6. ASSUME NEW c \in on.steady PROVE c \in svms /\ (c \notin up \/ c >= j.at + 1)
    <2>1. c \in svms /\ c # j.at /\ (c \notin up \/ c >= j.at)
      BY <1>1, <1>2, <1>5, <1>6 DEF SteadyFits
    <2> QED BY <1>1, <1>4, <1>5, <1>6, <2>1 DEF Clusters
  <1>7. SteadyFits(on)
    BY <1>5, <1>6 DEF SteadyFits
  <1> HIDE DEF on
  <1> QED BY <1>1, <1>2, <1>3, <1>5, <1>7, OnlyJob

\* The selection: it passes a cluster only if that answers, so none with a steady SVM.
LEMMA GetWriteClientKeeps == ASSUME IInv, NEW s \in Shoots, GetWriteClient(s) PROVE IInv'
  <1> DEFINE j == job[s]
             on(best) == [j EXCEPT !.best = best, !.at = @ + 1]
             over == [j EXCEPT !.pc = "create"]
  <1>1. /\ j.pc = "select" /\ UNCHANGED <<startup, up, svms, objects, results, faults>>
    BY DEF GetWriteClient, At
  <1>2. /\ j \in Jobs /\ SteadyFits(j)
        /\ process = "running" /\ clients = Clusters /\ extension[s] \notin {"none", "left"}
        /\ faults \in 0..MaxFaults
    BY <1>1, Working
  <1>3. j.at \in 1..(NumClusters + 1) /\ j.steady \subseteq Clusters /\ NumClusters \in Nat
    BY <1>2, ConstantsAssumption DEF Jobs
  <1>4. \A c \in j.steady : c \notin up /\ c >= j.at
    BY <1>1, <1>2 DEF SteadyFits
  <1>5. ASSUME j.at \in clients \cap up, NEW best \in {j.best, j.at}, GoTo(s, on(best))
        PROVE  IInv'
    <2>1. j.at + 1 \in 1..(NumClusters + 1) /\ best \in Clusters \cup {None}
      BY <1>2, <1>3, <1>5 DEF Clusters, Jobs
    <2>2. /\ on(best) \in Jobs /\ on(best).pc = "select"
          /\ on(best).steady = j.steady /\ on(best).at = j.at + 1
      BY <1>1, <1>2, <2>1 DEF Jobs
    <2>3. \A c \in j.steady : c \notin up /\ c >= j.at + 1
      BY <1>3, <1>4, <1>5 DEF Clusters
    <2>4. SteadyFits(on(best))
      BY <1>2, <2>2, <2>3 DEF SteadyFits
    <2> HIDE DEF on
    <2> QED BY <1>1, <1>2, <1>5, <2>2, <2>4, OnlyJob
  <1>6. CASE Return(s)
    BY <1>1, <1>2, <1>6, IdleFits, OnlyJob DEF Return
  <1>7. CASE j.at \notin Clusters /\ GoTo(s, over)
    <2>1. over \in Jobs /\ over.pc = "create" /\ over.steady = j.steady
      BY <1>2 DEF Jobs, Steps
    <2>2. j.steady = {}
      BY <1>3, <1>4, <1>7 DEF Clusters
    <2>3. SteadyFits(over)
      BY <2>1, <2>2 DEF SteadyFits
    <2> HIDE DEF over
    <2> QED BY <1>1, <1>2, <1>7, <2>1, <2>3, OnlyJob
  <1>8. j.at \notin Clusters \ clients
    BY <1>2
  <1> HIDE DEF on, over
  <1> QED BY <1>5, <1>6, <1>7, <1>8 DEF GetWriteClient, on, over

\* Creation: no steady SVM has been missed.
LEMMA CreateKeeps == ASSUME IInv, NEW s \in Shoots, CreateSVM(s) PROVE IInv'
  <1> USE DEF startup, objects, results
  <1> DEFINE j == [job[s] EXCEPT !.pc = "complete", !.steady = {}]
             c == job[s].best
  <1>1. /\ job[s].pc = "create" /\ UNCHANGED <<startup, up, objects, results, faults>>
    BY DEF CreateSVM, At
  <1>2. /\ job[s] \in Jobs
        /\ process = "running" /\ extension[s] \notin {"none", "left"} /\ faults \in 0..MaxFaults
    BY <1>1, Working
  <1>3. j \in Jobs /\ j.pc = "complete" /\ j.steady = {}
    BY <1>2 DEF Jobs, Steps
  <1>4. CASE c \in up \ svms /\ svms' = svms \cup {c} /\ GoTo(s, j)
    <2> HIDE DEF j
    <2>1. job' \in [Shoots -> Jobs] /\ \A t \in Shoots : job'[t] = IF t = s THEN j ELSE job[t]
      BY <1>3, <1>4 DEF GoTo, IInv, TypeOK
    <2>2. TypeOK'
      BY <1>1, <1>4, <2>1 DEF IInv, TypeOK
    <2>3. Connected'
      BY <1>1, <1>2, <2>1 DEF IInv, Connected
    <2>4. Steadiness'
      BY <1>1, <1>3, <1>4, <2>1 DEF IInv, Steadiness, SteadyFits
    <2>5. Results'
      BY <1>1, <1>2, <1>3, <2>1 DEF IInv, Results, ResultFits
    <2> QED BY <2>2, <2>3, <2>4, <2>5 DEF IInv
  <1>5. CASE GoTo(s, Idle) /\ UNCHANGED svms
    BY <1>1, <1>2, <1>5, IdleFits, OnlyJob
  <1> QED BY <1>4, <1>5 DEF CreateSVM, Return

\* Completion: the LIFs, the user and the secret are there from here on.
LEMMA CompleteKeeps == ASSUME IInv, NEW s \in Shoots, CompleteSVM(s) PROVE IInv'
  <1> DEFINE j == [job[s] EXCEPT !.pc = "deploy"]
  <1>1. /\ job[s].pc = "complete"
        /\ UNCHANGED <<startup, up, svms, objects, results, faults>>
    BY DEF CompleteSVM, At
  <1>2. /\ job[s] \in Jobs /\ SteadyFits(job[s])
        /\ process = "running" /\ extension[s] \notin {"none", "left"} /\ faults \in 0..MaxFaults
    BY <1>1, Working
  <1>3. j \in Jobs /\ j.pc = "deploy" /\ j.steady = job[s].steady
    BY <1>2 DEF Jobs, Steps
  <1>4. GoTo(s, j) \/ GoTo(s, Idle)
    BY DEF CompleteSVM, Return
  <1> HIDE DEF j
  <1>5. SteadyFits(j)
    BY <1>2, <1>3 DEF SteadyFits
  <1> QED BY <1>1, <1>2, <1>3, <1>4, <1>5, IdleFits, OnlyJob

\* A step of a worker that changes the results of its own shoot.
LEMMA OwnResults ==
    ASSUME IInv, NEW s \in Shoots, NEW j \in Jobs, GoTo(s, j), SteadyFits(j),
           j.pc # "idle" => process = "running",
           UNCHANGED <<startup, up, svms, valid, known>>,
           faults' \in 0..MaxFaults,
           extension' \in [Shoots -> {"none", "left", "wanted", "deleting"}],
           deployed' \in SUBSET Shoots, webhook' \in SUBSET Shoots,
           succeeded' \in SUBSET Shoots,
           \A t \in Shoots \ {s} :
              /\ extension'[t] = extension[t]
              /\ t \in deployed' <=> t \in deployed
              /\ t \in webhook' <=> t \in webhook
              /\ t \in succeeded' <=> t \in succeeded,
           s \in succeeded' => s \in deployed' /\ s \in webhook',
           j.pc = "webhook" => s \in deployed',
           j.pc = "deleteWebhook" => s \notin deployed' /\ s \notin succeeded',
           j.pc # "idle" => extension'[s] \notin {"none", "left"},
           j.pc \in {"delete", "deleteWebhook"} => extension'[s] = "deleting",
           extension'[s] = "none" => s \notin deployed' /\ s \notin webhook'
    PROVE  IInv'
  <1> USE DEF startup
  <1>1. job' \in [Shoots -> Jobs] /\ \A t \in Shoots : job'[t] = IF t = s THEN j ELSE job[t]
    BY DEF GoTo, IInv, TypeOK
  <1>2. TypeOK'
    BY <1>1 DEF IInv, TypeOK
  <1>3. Connected'
    BY <1>1 DEF IInv, Connected
  <1>4. Steadiness'
    BY <1>1 DEF IInv, Steadiness, SteadyFits
  <1>5. ASSUME NEW t \in Shoots PROVE ResultFits(t)'
    <2>1. CASE t = s
      BY <1>1, <2>1 DEF ResultFits
    <2>2. CASE t # s
      <3>1. ResultFits(t)
        BY DEF IInv, Results
      <3> QED BY <1>1, <2>2, <3>1 DEF ResultFits
    <2> QED BY <2>1, <2>2
  <1> QED BY <1>2, <1>3, <1>4, <1>5 DEF IInv, Results

\* The deployment comes after the completion.
LEMMA DeployKeeps == ASSUME IInv, NEW s \in Shoots, DeployTrident(s) PROVE IInv'
  <1> USE DEF objects
  <1> DEFINE j == [job[s] EXCEPT !.pc = "webhook"]
  <1>1. job[s].pc = "deploy"
    BY DEF DeployTrident, At
  <1>2. /\ job[s] \in Jobs /\ SteadyFits(job[s])
        /\ process = "running" /\ extension[s] \notin {"none", "left"} /\ faults \in 0..MaxFaults
    BY <1>1, Working
  <1>3. j \in Jobs /\ j.pc = "webhook" /\ j.steady = job[s].steady
    BY <1>2 DEF Jobs, Steps
  <1>4. /\ GoTo(s, j) /\ deployed' = deployed \cup {s}
        /\ UNCHANGED <<startup, up, svms, objects, webhook, succeeded, faults>>
    BY DEF DeployTrident
  <1> HIDE DEF j
  <1>5. SteadyFits(j)
    BY <1>2, <1>3 DEF SteadyFits
  <1>6. ResultFits(s) /\ TypeOK
    BY DEF IInv, Results
  <1> QED BY <1>2, <1>3, <1>4, <1>5, <1>6, OwnResults DEF ResultFits, TypeOK

\* The webhook configuration is the last part of a success.
LEMMA WebhookKeeps ==
    ASSUME IInv, NEW s \in Shoots, ReconcileShootWebhookConfig(s) PROVE IInv'
  <1> USE DEF objects
  <1>1. job[s].pc = "webhook"
    BY DEF ReconcileShootWebhookConfig, At
  <1>2. extension[s] \notin {"none", "left"} /\ faults \in 0..MaxFaults
    BY <1>1, Working
  <1>3. /\ GoTo(s, Idle)
        /\ UNCHANGED <<startup, up, svms, objects, deployed, faults>>
    BY DEF ReconcileShootWebhookConfig, Return
  <1>4. \/ webhook' = webhook \cup {s} /\ succeeded' = succeeded \cup {s}
        \/ UNCHANGED <<webhook, succeeded>>
    BY DEF ReconcileShootWebhookConfig
  <1>5. ResultFits(s) /\ TypeOK /\ s \in deployed
    BY <1>1 DEF IInv, Results, ResultFits
  <1> QED BY <1>2, <1>3, <1>4, <1>5, IdleFits, OwnResults DEF ResultFits, TypeOK

\* The beginning of a deletion.
LEMMA DeleteKeeps == ASSUME IInv, NEW s \in Shoots, Delete(s) PROVE IInv'
  <1> DEFINE j == [Idle EXCEPT !.pc = "delete"]
  <1>1. /\ GoTo(s, j) /\ UNCHANGED <<startup, up, svms, objects, results, faults>>
        /\ process = "running" /\ extension[s] = "deleting"
    BY DEF Delete
  <1>2. j \in Jobs /\ j.pc = "delete" /\ j.steady = {}
    BY IdleFits DEF Idle, Jobs, Steps
  <1>3. faults' \in 0..MaxFaults
    BY <1>1 DEF IInv, TypeOK
  <1> HIDE DEF j
  <1>4. SteadyFits(j)
    BY <1>2 DEF SteadyFits
  <1> QED BY <1>1, <1>2, <1>3, <1>4, OnlyJob

\* The loop over the ManagedResources: those before its place are gone.
LEMMA DeleteManagedResourcesKeeps ==
    ASSUME IInv, NEW s \in Shoots, DeleteManagedResources(s) PROVE IInv'
  <1> USE DEF objects
  <1> DEFINE j == [job[s] EXCEPT !.pc = "deleteWebhook"]
  <1>1. job[s].pc = "delete"
    BY DEF DeleteManagedResources, At
  <1>2. /\ job[s] \in Jobs /\ SteadyFits(job[s])
        /\ process = "running" /\ extension[s] \notin {"none", "left"} /\ faults \in 0..MaxFaults
    BY <1>1, Working
  <1>3. j \in Jobs /\ j.pc = "deleteWebhook" /\ j.steady = job[s].steady
    BY <1>2 DEF Jobs, Steps
  <1>4. /\ GoTo(s, j) /\ deployed' = deployed \ {s} /\ succeeded' = succeeded \ {s}
        /\ UNCHANGED <<startup, up, svms, objects, webhook, faults>>
    BY DEF DeleteManagedResources
  <1> HIDE DEF j
  <1>5. SteadyFits(j)
    BY <1>2, <1>3 DEF SteadyFits
  <1>6. TypeOK /\ extension[s] = "deleting"
    BY <1>1 DEF IInv, Results, ResultFits
  <1> QED BY <1>2, <1>3, <1>4, <1>5, <1>6, OwnResults DEF TypeOK

\* The webhook's ManagedResource is the last to go.
LEMMA DeleteWebhookKeeps == ASSUME IInv, NEW s \in Shoots, DeleteWebhook(s) PROVE IInv'
  <1>1. job[s].pc = "deleteWebhook"
    BY DEF DeleteWebhook, At
  <1>2. faults \in 0..MaxFaults /\ s \notin deployed /\ s \notin succeeded /\ TypeOK
    BY <1>1, Working DEF IInv, Results, ResultFits
  <1>3. /\ GoTo(s, Idle) /\ webhook' = webhook \ {s}
        /\ extension' = [extension EXCEPT ![s] = "none"]
        /\ UNCHANGED <<startup, up, svms, valid, known, deployed, succeeded, faults>>
    BY DEF DeleteWebhook, Return
  <1> QED BY <1>2, <1>3, IdleFits, OwnResults DEF TypeOK

\* Every step that a worker takes, by the lemmas above.
LEMMA WorkerKeeps == ASSUME IInv, NEW s \in Shoots, Worker(s) PROVE IInv'
  BY ReconcileKeeps, GetSVMByNameKeeps, GetWriteClientKeeps, CreateKeeps,
     CompleteKeeps, DeployKeeps, WebhookKeeps, DeleteKeeps,
     DeleteManagedResourcesKeeps, DeleteWebhookKeeps DEF Worker

\* Migration and forced deletion change nothing outside.
LEMMA LetGoKeeps == ASSUME IInv, NEW s \in Shoots, LetGo(s) PROVE IInv'
  <1>1. job[s].pc = "idle"
    BY DEF LetGo, At
  <1>2. faults' \in 0..MaxFaults
    BY FaultsBounded DEF LetGo, IInv, TypeOK
  <1>3. /\ extension' = [extension EXCEPT ![s] = "left"]
        /\ succeeded' = succeeded \ {s}
        /\ UNCHANGED <<startup, up, svms, valid, known, job, deployed, webhook>>
    BY DEF LetGo
  <1>4. TypeOK'
    BY <1>2, <1>3 DEF IInv, TypeOK, startup
  <1>5. Results'
    BY <1>1, <1>3 DEF IInv, TypeOK, Results, ResultFits
  <1> QED BY <1>3, <1>4, <1>5 DEF IInv, Connected, Steadiness, SteadyFits, startup

-----------------------------------------------------------------------------
(* Failures, and what others do.                                           *)

\* A call that fails ends the reconciliation and no more.
LEMMA InterruptedKeeps == ASSUME IInv, NEW s \in Shoots, Interrupted(s) PROVE IInv'
  <1>1. GoTo(s, Idle) /\ UNCHANGED <<startup, up, svms, objects, results>>
    BY DEF Interrupted, Return
  <1>2. faults' \in 0..MaxFaults
    BY FaultsBounded DEF Interrupted, IInv, TypeOK
  <1> QED BY <1>1, <1>2, IdleFits, OnlyJob

\* A cluster comes or goes, and its SVM is no longer steady.
LEMMA ClusterKeeps ==
    ASSUME IInv, NEW c \in Clusters, Outage(c) \/ Recover(c) PROVE IInv'
  <1> USE DEF startup, objects, results
  <1>1. /\ up' \in SUBSET Clusters /\ \A d \in Clusters \ {c} : d \in up' <=> d \in up
        /\ Unsteady(c) /\ UNCHANGED <<startup, svms, objects, results>>
    BY DEF Outage, Recover, IInv, TypeOK
  <1>2. faults' \in 0..MaxFaults
    BY FaultsBounded DEF Outage, Recover, IInv, TypeOK
  <1>3. job' = [s \in Shoots |-> [job[s] EXCEPT !.steady = @ \ {c}]]
    BY <1>1 DEF Unsteady
  <1>4. ASSUME NEW s \in Shoots
        PROVE  /\ job'[s] \in Jobs /\ job'[s].pc = job[s].pc /\ job'[s].at = job[s].at
               /\ job'[s].steady = job[s].steady \ {c} /\ job[s].steady \subseteq Clusters
    <2>1. job[s] \in Jobs
      BY DEF IInv, TypeOK
    <2> QED BY <1>3, <2>1 DEF Jobs
  <1>5. TypeOK'
    <2>1. job' \in [Shoots -> Jobs]
      BY <1>3, <1>4
    <2> QED BY <1>1, <1>2, <2>1 DEF IInv, TypeOK
  <1>6. Connected'
    BY <1>1, <1>4 DEF IInv, Connected
  <1>7. ASSUME NEW s \in Shoots PROVE SteadyFits(job[s])'
    <2>1. SteadyFits(job[s])
      BY DEF IInv, Steadiness
    <2> QED BY <1>1, <1>4, <2>1 DEF SteadyFits
  <1>8. Results'
    BY <1>1, <1>4 DEF IInv, Results, ResultFits
  <1> QED BY <1>5, <1>6, <1>7, <1>8 DEF IInv, Steadiness

\* Owners and gardenlet change the objects and nothing else; none of them
\* removes an Extension at once.
LEMMA ObjectsKeep ==
    ASSUME IInv, NEW s \in Shoots, Toggle(s) \/ Spoil(s) \/ Mend(s) PROVE IInv'
  <1>1. UNCHANGED <<startup, up, svms, job, results>>
    BY DEF Toggle, Spoil, Mend
  <1>2. faults' \in 0..MaxFaults
    BY FaultsBounded DEF Toggle, Spoil, Mend, IInv, TypeOK
  <1>3. /\ extension' \in [Shoots -> {"none", "left", "wanted", "deleting"}]
        /\ \A t \in Shoots :
              /\ extension'[t] \in {"none", "left"} => extension'[t] = extension[t]
              /\ extension[t] = "deleting" => extension'[t] = "deleting"
    BY DEF Toggle, Spoil, Mend, IInv, TypeOK
  <1>4. valid' \in SUBSET Shoots /\ known' \in SUBSET Shoots
    BY DEF Toggle, Spoil, Mend, IInv, TypeOK
  <1>5. TypeOK'
    BY <1>1, <1>2, <1>3, <1>4 DEF IInv, TypeOK, startup, results
  <1>6. Results'
    BY <1>1, <1>3 DEF IInv, Results, ResultFits, results
  <1> QED BY <1>1, <1>5, <1>6 DEF IInv, Connected, Steadiness, SteadyFits, startup

\* Every step keeps the invariant.
LEMMA Stepwise == IInv /\ [Next]_vars => IInv'
  <1> SUFFICES ASSUME IInv, [Next]_vars PROVE IInv'
    OBVIOUS
  <1>1. CASE UNCHANGED vars
    BY <1>1 DEF IInv, TypeOK, Connected, Steadiness, SteadyFits, Results, ResultFits,
                vars
  <1> QED BY <1>1, ProcessKeeps, StopKeeps, WorkerKeeps, LetGoKeeps, OverlookKeeps,
             InterruptedKeeps, ObjectsKeep, ClusterKeeps DEF Next

-----------------------------------------------------------------------------

\* For any shoots, clusters and number of disturbances: workers have clients
\* for all clusters, and what they do, what they report and what is in the
\* shoots fit together.
THEOREM Invariance == Spec => []IInv
  BY Initially, Stepwise, PTL DEF Spec

\* Types, and the bounds of the loops over the clusters.
THEOREM TypeCorrectness == Spec => []TypeOK
  BY Invariance, PTL DEF IInv

\* Restarts during outages do not lead to a second SVM: only a call that
\* fails in the lookup, and a cluster that goes or comes during it, hide one
\* that runs.
THEOREM NoDoubleAfterRestart == Spec => []NeverDoublesASteadySvm
  <1>1. IInv => NeverDoublesASteadySvm
    BY DEF IInv, Steadiness, SteadyFits, NeverDoublesASteadySvm, At
  <1> QED BY Invariance, <1>1, PTL

\* What reports success is complete.
THEOREM SuccessesAreComplete == Spec => []SuccessIsComplete
  <1>1. IInv => SuccessIsComplete
    BY DEF IInv, TypeOK, Results, ResultFits, SuccessIsComplete
  <1> QED BY Invariance, <1>1, PTL

\* What was deleted left nothing.
THEOREM DeletionsAreComplete == Spec => []GoneIsClean
  <1>1. IInv => GoneIsClean
    BY DEF IInv, Results, ResultFits, GoneIsClean
  <1> QED BY Invariance, <1>1, PTL

-----------------------------------------------------------------------------
(* The contract.                                                           *)

\* What the contract sees of a job is whether it reconciles or deletes.
LEMMA WorkIs ==
    /\ WorkAt("idle") = "nothing"
    /\ WorkAt("delete") = "delete" /\ WorkAt("deleteWebhook") = "delete"
    /\ \A step \in Steps \ {"idle", "delete", "deleteWebhook"} : WorkAt(step) = "reconcile"
  BY DEF WorkAt, Steps

\* A step of a worker, as the contract sees its work.
LEMMA WorkGoesOn ==
    ASSUME TypeOK, NEW s \in Shoots, NEW j \in Jobs, GoTo(s, j)
    PROVE  Work' = [Work EXCEPT ![s] = WorkAt(j.pc)]
  <1>1. job' = [job EXCEPT ![s] = j] /\ job \in [Shoots -> Jobs]
    BY DEF GoTo, TypeOK
  <1>2. \A t \in Shoots : job'[t].pc = IF t = s THEN j.pc ELSE job[t].pc
    BY <1>1
  <1> QED BY <1>2 DEF Work

\* What the contract does not see.
LEMMA Unseen ==
    ASSUME Work' = Work, UNCHANGED <<extension, deployed, webhook>>
    PROVE  UNCHANGED Contract!vars
  BY DEF Contract!vars, Given

\* A step from one phase of a reconciliation, or of a deletion, to another.
LEMMA OnwardsUnseen ==
    ASSUME TypeOK, NEW s \in Shoots, NEW j \in Jobs, GoTo(s, j),
           WorkAt(j.pc) = WorkAt(job[s].pc), UNCHANGED <<extension, deployed, webhook>>
    PROVE  UNCHANGED Contract!vars
  <1>1. Work' = [Work EXCEPT ![s] = WorkAt(j.pc)] /\ Work[s] = WorkAt(job[s].pc)
    BY WorkGoesOn DEF Work
  <1>2. Work' = Work
    BY <1>1 DEF Work
  <1> QED BY <1>2, Unseen

\* An error returns.
LEMMA ReturnEnds ==
    ASSUME TypeOK, NEW s \in Shoots, Return(s), UNCHANGED <<extension, deployed, webhook>>
    PROVE  Contract!End(s)
  <1>1. Work' = [Work EXCEPT ![s] = "nothing"]
    BY WorkGoesOn, WorkIs, IdleFits DEF Return
  <1> QED BY <1>1 DEF Contract!End, Given

\* Reconcile and Delete begin what the Extension asks for.
LEMMA BeginsContract ==
    ASSUME IInv, NEW s \in Shoots, Reconcile(s) \/ Delete(s)
    PROVE  Contract!Begin(s)
  <1>1. TypeOK /\ job[s].pc = "idle" /\ UNCHANGED <<extension, deployed, webhook>>
    BY DEF IInv, Reconcile, Delete, At, objects, results
  <1>2. Work[s] = "nothing"
    BY <1>1, WorkIs DEF Work
  <1>3. CASE Reconcile(s)
    <2> DEFINE j == [pc |-> "lookup", at |-> 1, best |-> None, steady |-> svms]
    <2>1. j \in Jobs /\ j.pc = "lookup" /\ GoTo(s, j) /\ extension[s] = "wanted"
      BY <1>1, <1>3, ConstantsAssumption DEF Reconcile, Jobs, Steps, TypeOK
    <2> HIDE DEF j
    <2>2. Work' = [Work EXCEPT ![s] = "reconcile"]
      BY <1>1, <2>1, WorkGoesOn, WorkIs DEF Steps
    <2> QED BY <1>1, <1>2, <2>1, <2>2 DEF Contract!Begin, Given
  <1>4. CASE Delete(s)
    <2> DEFINE j == [Idle EXCEPT !.pc = "delete"]
    <2>1. j \in Jobs /\ j.pc = "delete" /\ GoTo(s, j) /\ extension[s] = "deleting"
      BY <1>4, IdleFits DEF Delete, Idle, Jobs, Steps
    <2> HIDE DEF j
    <2>2. Work' = [Work EXCEPT ![s] = "delete"]
      BY <1>1, <2>1, WorkGoesOn, WorkIs
    <2> QED BY <1>1, <1>2, <2>1, <2>2 DEF Contract!Begin, Given
  <1> QED BY <1>3, <1>4

\* The phase of the SVM gives the shoot nothing yet.
LEMMA SvmPhaseUnseen ==
    ASSUME IInv, NEW s \in Shoots,
           GetSVMByName(s) \/ GetWriteClient(s) \/ CreateSVM(s) \/ CompleteSVM(s)
    PROVE  UNCHANGED Contract!vars \/ Contract!End(s)
  <1> DEFINE phases == {"lookup", "select", "create", "complete", "deploy"}
  <1>1. /\ TypeOK /\ job[s] \in Jobs /\ UNCHANGED <<extension, deployed, webhook>>
        /\ job[s].pc \in phases
    BY DEF IInv, TypeOK, GetSVMByName, GetWriteClient, CreateSVM, CompleteSVM, At,
           objects, results
  <1>2. job \in [Shoots -> Jobs] /\ job'[s] \in Jobs
    BY <1>1, WorkerKeeps DEF IInv, TypeOK, Worker
  <1>3. ASSUME job' = [job EXCEPT ![s] = job'[s]], job'[s].pc \in phases
        PROVE  UNCHANGED Contract!vars
    <2> DEFINE j == job'[s]
    <2>1. j \in Jobs /\ GoTo(s, j) /\ j.pc \in phases
      BY <1>2, <1>3 DEF GoTo
    <2> HIDE DEF j
    <2>2. WorkAt(j.pc) = "reconcile" /\ WorkAt(job[s].pc) = "reconcile"
      BY <1>1, <2>1, WorkIs DEF Steps
    <2> QED BY <1>1, <2>1, <2>2, OnwardsUnseen
  <1>4. Return(s) => Contract!End(s)
    BY <1>1, ReturnEnds
  <1> DEFINE Goal == UNCHANGED Contract!vars \/ Contract!End(s)
  <1> SUFFICES Goal
    OBVIOUS
  <1>5. Return(s) => Goal
    BY <1>4
  <1>6. ASSUME NEW x, GoTo(s, x), x.pc \in phases PROVE Goal
    <2>1. job' = [job EXCEPT ![s] = x] /\ job'[s] = x
      BY <1>2, <1>6 DEF GoTo
    <2> QED BY <1>3, <1>6, <2>1
  <1>7. CASE GetSVMByName(s)
    <2> DEFINE found == [job[s] EXCEPT !.pc = "complete", !.best = job[s].at]
               onwards == [job[s] EXCEPT !.at = @ + 1]
               absent == [job[s] EXCEPT !.pc = "select", !.at = 1]
    <2>1. GoTo(s, found) \/ GoTo(s, onwards) \/ GoTo(s, absent)
      BY <1>7 DEF GetSVMByName
    <2>2. found.pc \in phases /\ onwards.pc \in phases /\ absent.pc \in phases
      BY <1>1 DEF Jobs
    <2> HIDE DEF found, onwards, absent, phases, Goal
    <2> QED BY <1>5, <1>6, <2>1, <2>2
  <1>8. CASE GetWriteClient(s)
    <2> DEFINE considered(best) == [job[s] EXCEPT !.best = best, !.at = @ + 1]
               onwards == [job[s] EXCEPT !.at = @ + 1]
               chosen == [job[s] EXCEPT !.pc = "create"]
    <2>1. \/ \E best \in {job[s].best, job[s].at} : GoTo(s, considered(best))
          \/ GoTo(s, onwards) \/ GoTo(s, chosen) \/ Return(s)
      BY <1>8 DEF GetWriteClient
    <2>2. \A best : considered(best).pc \in phases
      BY <1>1 DEF Jobs
    <2>3. onwards.pc \in phases /\ chosen.pc \in phases
      BY <1>1 DEF Jobs
    <2> HIDE DEF considered, onwards, chosen, phases, Goal
    <2> QED BY <1>5, <1>6, <2>1, <2>2, <2>3
  <1>9. CASE CreateSVM(s)
    <2> DEFINE created == [job[s] EXCEPT !.pc = "complete", !.steady = {}]
    <2>1. GoTo(s, created) \/ Return(s)
      BY <1>9 DEF CreateSVM
    <2>2. created.pc \in phases
      BY <1>1 DEF Jobs
    <2> HIDE DEF created, phases, Goal
    <2> QED BY <1>5, <1>6, <2>1, <2>2
  <1>10. CASE CompleteSVM(s)
    <2> DEFINE done == [job[s] EXCEPT !.pc = "deploy"]
    <2>1. GoTo(s, done) \/ Return(s)
      BY <1>10 DEF CompleteSVM
    <2>2. done.pc \in phases
      BY <1>1 DEF Jobs
    <2> HIDE DEF done, phases, Goal
    <2> QED BY <1>5, <1>6, <2>1, <2>2
  <1> QED BY <1>7, <1>8, <1>9, <1>10

\* Nor does a failed call of the lookup end anything.
LEMMA OverlookUnseen ==
    ASSUME IInv, NEW s \in Shoots, Overlook(s)
    PROVE  UNCHANGED Contract!vars
  <1> DEFINE j == [job[s] EXCEPT !.at = @ + 1, !.steady = @ \ {job[s].at}]
  <1>1. /\ TypeOK /\ job[s] \in Jobs /\ job[s].pc = "lookup" /\ job[s].at \in Clusters
        /\ GoTo(s, j) /\ UNCHANGED <<extension, deployed, webhook>>
    BY DEF IInv, TypeOK, Overlook, At, objects, results
  <1>2. job[s].at + 1 \in 1..(NumClusters + 1)
    BY <1>1, ConstantsAssumption DEF Clusters
  <1>3. j \in Jobs /\ j.pc = job[s].pc
    BY <1>1, <1>2 DEF Jobs
  <1> HIDE DEF j
  <1> QED BY <1>1, <1>3, OnwardsUnseen

\* What the resources say of the given parts, shoot by shoot.
LEMMA GivenIs ==
    /\ Given = [s \in Shoots |-> Given[s]]
    /\ \A s \in Shoots, part \in {"trident", "webhook"} :
          part \in Given[s] <=> s \in IF part = "trident" THEN deployed ELSE webhook
    /\ \A s \in Shoots : Given[s] \subseteq {"trident", "webhook"}
  BY DEF Given

\* One part of one shoot's, given or taken.
LEMMA GivenChanges ==
    ASSUME NEW s \in Shoots, NEW part \in {"trident", "webhook"}, NEW there \in BOOLEAN,
           deployed' = IF part # "trident" THEN deployed
                       ELSE IF there THEN deployed \cup {s} ELSE deployed \ {s},
           webhook' = IF part = "trident" THEN webhook
                      ELSE IF there THEN webhook \cup {s} ELSE webhook \ {s}
    PROVE  Given' = [Given EXCEPT ![s] = IF there THEN @ \cup {part} ELSE @ \ {part}]
  <1>1. /\ Given' = [t \in Shoots |-> Given'[t]]
        /\ \A t \in Shoots, p \in {"trident", "webhook"} :
              p \in Given'[t] <=> t \in IF p = "trident" THEN deployed' ELSE webhook'
        /\ \A t \in Shoots : Given'[t] \subseteq {"trident", "webhook"}
    BY DEF Given
  <1>2. ASSUME NEW t \in Shoots \ {s} PROVE Given'[t] = Given[t]
    BY <1>1, GivenIs
  <1>3. Given'[s] = IF there THEN Given[s] \cup {part} ELSE Given[s] \ {part}
    <2>1. CASE there
      BY <1>1, <2>1, GivenIs
    <2>2. CASE ~there
      BY <1>1, <2>2, GivenIs
    <2> QED BY <2>1, <2>2
  <1> QED BY <1>1, <1>2, <1>3, GivenIs

\* DeployTrident gives Trident's resources, ReconcileShootWebhookConfig the
\* webhook, with which the reconciliation is done.
LEMMA GivesContract ==
    ASSUME IInv, NEW s \in Shoots, DeployTrident(s) \/ ReconcileShootWebhookConfig(s)
    PROVE  Contract!Give(s) \/ Contract!End(s)
  <1>1. /\ TypeOK /\ job[s] \in Jobs /\ UNCHANGED extension
        /\ job[s].pc \in {"deploy", "webhook"}
    BY DEF IInv, TypeOK, DeployTrident, ReconcileShootWebhookConfig, At, objects
  <1>2. Work[s] = "reconcile" /\ extension[s] \in {"wanted", "deleting"}
    BY <1>1, WorkIs DEF IInv, TypeOK, Results, ResultFits, Steps, Work
  <1>3. CASE DeployTrident(s)
    <2> DEFINE j == [job[s] EXCEPT !.pc = "webhook"]
    <2>1. j \in Jobs /\ j.pc = "webhook" /\ GoTo(s, j)
      BY <1>1, <1>3 DEF DeployTrident, Jobs, Steps
    <2> HIDE DEF j
    <2>2. Work' = [Work EXCEPT ![s] = "reconcile"]
      BY <1>1, <2>1, WorkGoesOn, WorkIs DEF Steps
    <2>3. Work' = Work
      BY <1>2, <2>2 DEF Work
    <2>4. Given' = [Given EXCEPT ![s] = @ \cup {"trident"}]
      BY <1>3, GivenChanges DEF DeployTrident
    <2> QED BY <1>1, <1>2, <2>3, <2>4 DEF Contract!Give
  <1>4. CASE ReconcileShootWebhookConfig(s)
    <2>1. Return(s) /\ UNCHANGED deployed
      BY <1>4 DEF ReconcileShootWebhookConfig
    <2>2. CASE UNCHANGED webhook
      BY <1>1, <2>1, <2>2, ReturnEnds
    <2>3. CASE webhook' = webhook \cup {s}
      <3>1. Work' = [Work EXCEPT ![s] = "nothing"]
        BY <1>1, <2>1, WorkGoesOn, WorkIs, IdleFits DEF Return
      <3>2. Given' = [Given EXCEPT ![s] = @ \cup {"webhook"}]
        BY <2>1, <2>3, GivenChanges
      <3> QED BY <1>1, <1>2, <3>1, <3>2 DEF Contract!Give
    <2> QED BY <1>4, <2>2, <2>3 DEF ReconcileShootWebhookConfig
  <1> QED BY <1>3, <1>4

\* DeleteManagedResources takes Trident's resources back, DeleteWebhook the
\* last there is, and the Extension goes.
LEMMA TakesContract ==
    ASSUME IInv, NEW s \in Shoots, DeleteManagedResources(s) \/ DeleteWebhook(s)
    PROVE  Contract!Take(s) \/ Contract!Vanish(s)
  <1>1. TypeOK /\ job[s] \in Jobs /\ job[s].pc \in {"delete", "deleteWebhook"}
    BY DEF IInv, TypeOK, DeleteManagedResources, DeleteWebhook, At
  <1>2. Work[s] = "delete" /\ extension[s] = "deleting"
    BY <1>1, WorkIs DEF IInv, Results, ResultFits, Work
  <1>3. CASE DeleteManagedResources(s)
    <2> DEFINE j == [job[s] EXCEPT !.pc = "deleteWebhook"]
    <2>1. j \in Jobs /\ j.pc = "deleteWebhook" /\ GoTo(s, j)
      BY <1>1, <1>3 DEF DeleteManagedResources, Jobs, Steps
    <2> HIDE DEF j
    <2>2. Work' = [Work EXCEPT ![s] = "delete"]
      BY <1>1, <2>1, WorkGoesOn, WorkIs
    <2>3. Work' = Work
      BY <1>2, <2>2 DEF Work
    <2>4. Given' = [Given EXCEPT ![s] = @ \ {"trident"}] /\ UNCHANGED extension
      BY <1>3, GivenChanges DEF DeleteManagedResources, objects
    <2> QED BY <1>2, <2>3, <2>4 DEF Contract!Take
  <1>4. CASE DeleteWebhook(s)
    <2>1. Return(s) /\ s \notin deployed /\ deployed' = deployed /\ webhook' = webhook \ {s}
          /\ extension' = [extension EXCEPT ![s] = "none"]
      BY <1>4 DEF IInv, Results, ResultFits, DeleteWebhook, At
    <2>2. Work' = [Work EXCEPT ![s] = "nothing"]
      BY <1>1, <2>1, WorkGoesOn, WorkIs, IdleFits DEF Return
    <2>3. Given[s] \subseteq {"webhook"}
      BY <2>1, GivenIs
    <2>4. Given' = [Given EXCEPT ![s] = {}]
      <3>1. Given' = [Given EXCEPT ![s] = @ \ {"webhook"}]
        BY <2>1, GivenChanges
      <3> QED BY <2>3, <3>1
    <2> QED BY <1>2, <2>1, <2>2, <2>3, <2>4 DEF Contract!Vanish
  <1> QED BY <1>3, <1>4

\* What others do to the Extension, the clusters and the process, and what
\* the process does before its workers start.
LEMMA OthersContract ==
    ASSUME IInv,
           \/ Process \/ Stop
           \/ \E s \in Shoots : Toggle(s) \/ Spoil(s) \/ Mend(s)
           \/ \E c \in Clusters : Outage(c) \/ Recover(c)
    PROVE  [Contract!Next]_Contract!vars
  <1> USE DEF objects, results
  <1>1. CASE Process
    <2>1. UNCHANGED <<job, extension, deployed, webhook>>
      BY <1>1 DEF Process, Start, CreateAdminClient, StartManager
    <2> QED BY <2>1, Unseen DEF Work
  <1>2. CASE Stop
    <2>1. job' = [s \in Shoots |-> Idle] /\ UNCHANGED <<extension, deployed, webhook>>
      BY <1>2 DEF Stop
    <2>2. Work' = [s \in Shoots |-> "nothing"]
      BY <2>1, IdleFits, WorkIs DEF Work
    <2> QED BY <2>1, <2>2 DEF Contract!Next, Contract!Stop, Given
  <1>3. ASSUME NEW s \in Shoots, Toggle(s) PROVE Contract!Toggle(s)
    BY <1>3 DEF Toggle, Contract!Toggle, Work, Given
  <1>4. ASSUME NEW s \in Shoots, Spoil(s) \/ Mend(s) PROVE UNCHANGED Contract!vars
    BY <1>4, Unseen DEF Spoil, Mend, Work
  <1>5. ASSUME NEW c \in Clusters, Outage(c) \/ Recover(c) PROVE UNCHANGED Contract!vars
    <2>1. /\ job' = [s \in Shoots |-> [job[s] EXCEPT !.steady = @ \ {c}]]
          /\ UNCHANGED <<extension, deployed, webhook>>
      BY <1>5 DEF Outage, Recover, Unsteady
    <2>2. \A s \in Shoots : job'[s].pc = job[s].pc
      BY <2>1 DEF IInv, TypeOK, Jobs
    <2>3. Work' = Work
      BY <2>2 DEF Work
    <2> QED BY <2>1, <2>3, Unseen
  <1> QED BY <1>1, <1>2, <1>3, <1>4, <1>5 DEF Contract!Next

\* Every step is one of the contract's, or none.
LEMMA StepContract == IInv /\ [Next]_vars => [Contract!Next]_Contract!vars
  <1> SUFFICES ASSUME IInv, [Next]_vars PROVE [Contract!Next]_Contract!vars
    OBVIOUS
  <1>1. CASE UNCHANGED vars
    BY <1>1, Unseen DEF vars, objects, results, Work
  <1>2. ASSUME NEW s \in Shoots, Worker(s) PROVE [Contract!Next]_Contract!vars
    BY <1>2, BeginsContract, SvmPhaseUnseen, GivesContract, TakesContract
       DEF Worker, Contract!Next
  <1>3. ASSUME NEW s \in Shoots, Interrupted(s) PROVE Contract!End(s)
    BY <1>3, ReturnEnds DEF IInv, Interrupted, objects, results
  <1>4. ASSUME NEW s \in Shoots, LetGo(s) PROVE Contract!LetGo(s)
    <2>1. Work[s] = "nothing" /\ UNCHANGED <<job, deployed, webhook>>
      BY <1>4, WorkIs DEF LetGo, At, Work
    <2> QED BY <1>4, <2>1 DEF LetGo, Contract!LetGo, Work, Given
  <1>5. ASSUME NEW s \in Shoots, Overlook(s) PROVE UNCHANGED Contract!vars
    BY <1>5, OverlookUnseen
  <1> QED BY <1>1, <1>2, <1>3, <1>4, <1>5, OthersContract DEF Next, Contract!Next

\* For any shoots, clusters and disturbances: the extension gives and takes
\* what the contract says.  A reconciliation that a deletion overtook gives,
\* a deletion takes, the webhook last, and no restart makes a deletion of an
\* Extension that is wanted.
THEOREM RefinesContract == Spec => ImplementsContract
  <1>1. Init => Contract!Init
    BY IdleFits, WorkIs DEF Init, Contract!Init, Work, Given
  <1>2. IInv /\ [Next]_vars => [Contract!Next]_Contract!vars
    BY StepContract
  <1>3. Spec => []IInv
    BY Invariance
  <1> QED BY <1>1, <1>2, <1>3, PTL DEF Spec, ImplementsContract, Contract!Spec

=============================================================================

---------------------------- MODULE InterfacesProofs ----------------------------
(***************************************************************************)
(* For any shoots, nodes, addresses and configurations: whatever address   *)
(* is in use somewhere has its place in a valid configuration.             *)
(***************************************************************************)
EXTENDS Interfaces, FiniteSetTheorems, TLAPS

Valid == {r \in Requests : Validate(r)}

\* What a reconciliation carries is valid, and its loop within bounds.
JobFits(j) ==
    /\ j.pc # "idle" => j.request \in Valid
    /\ j.pc \in {"ensure", "create"} => j.lif = 1
    /\ j.pc \in {"read", "lifs"} => j.lif \in LifsOf(j.request)

\* A LIF has the address and the node that some valid configuration gives it.
LifFits(l) ==
    lifs[l] # None =>
        \E r \in Valid :
            /\ l \in LifsOf(r)
            /\ lifs[l] = [address |-> AddressOf(r, l), node |-> NodeAtCreation(l)]

EndpointFits(s) ==
    /\ backend[s] # None => \E r \in Valid : backend[s] = r.mgmt
    /\ policy[s] # {} => \E r \in Valid : policy[s] = AddressesOf(r)

Types ==
    /\ config \in [Shoots -> Requests]
    /\ svm \in BOOLEAN
    /\ lifs \in [LifNames -> Lifs \cup {None}]
    /\ job \in [Shoots -> Jobs]
    /\ backend \in [Shoots -> Texts \cup {None}]
    /\ policy \in [Shoots -> SUBSET Texts]
    /\ faults \in 0..MaxFaults

IInv ==
    /\ Types
    /\ \A s \in Shoots : JobFits(job[s]) /\ EndpointFits(s)
    /\ \A l \in LifNames : LifFits(l)

USE DEF Mgmt, DataLifs, LifNames

-----------------------------------------------------------------------------

\* A valid configuration has a first data LIF, a management LIF, and no more
\* LIFs than there are names; what it has for them are addresses.
LEMMA ValidRequests ==
    ASSUME NEW r \in Valid
    PROVE  /\ 1 \in LifsOf(r) /\ 0 \in LifsOf(r)
           /\ LifsOf(r) \subseteq LifNames
           /\ Len(r.data) \in Nat /\ Len(r.data) <= MaxData
           /\ AddressesOf(r) \subseteq Addresses \cap Texts
           /\ \A l \in LifsOf(r) : AddressOf(r, l) \in AddressesOf(r)
           /\ r.mgmt \in AddressesOf(r)
  <1>1. r \in Requests /\ r.data # <<>> /\ AddressesOf(r) \subseteq Addresses
    BY DEF Valid, Validate
  <1>2. r.data \in Seq(Texts) /\ Len(r.data) <= MaxData
    BY <1>1, ConstantsAssumption
  <1>3. Len(r.data) \in Nat /\ Len(r.data) # 0
    BY <1>1, <1>2
  <1>4. AddressesOf(r) \subseteq Texts
    BY <1>1 DEF Texts
  <1>5. 1 \in LifsOf(r) /\ 0 \in LifsOf(r) /\ LifsOf(r) \subseteq LifNames
    BY <1>2, <1>3, ConstantsAssumption DEF LifsOf
  <1>6. \A l \in LifsOf(r) : AddressOf(r, l) \in AddressesOf(r)
    BY DEF AddressesOf
  <1>7. r.mgmt \in AddressesOf(r)
    BY <1>5, <1>6 DEF AddressOf
  <1> QED BY <1>1, <1>2, <1>3, <1>4, <1>5, <1>6, <1>7

\* nodesUUIDs[i%len(nodesUUIDs)] is a node.
LEMMA NodeAtCreationIsNode ==
    ASSUME NEW l \in LifNames
    PROVE  NodeAtCreation(l) \in NodeNames
  <1>1. Len(Nodes) \in Nat \ {0} /\ MaxData \in Nat
    BY ConstantsAssumption
  <1>2. CASE l = 0
    BY <1>1, <1>2 DEF NodeAtCreation, NodeNames
  <1>3. CASE l # 0
    <2>1. l - 1 \in Nat
      BY <1>1, <1>3
    <2>2. ((l - 1) % Len(Nodes)) + 1 \in 1..Len(Nodes)
      BY <1>1, <2>1
    <2> QED BY <1>3, <2>2 DEF NodeAtCreation, NodeNames
  <1> QED BY <1>2, <1>3

\* The two loops mean the same node.
LEMMA LoopsAgree == ASSUME NEW j PROVE NodeFor(j) = NodeAtCreation(j.lif)
  BY DEF NodeFor, NodeAtCreation, NodeOfMissing

\* The loop over the LIFs stays among those of the configuration.
LEMMA LoopStays ==
    ASSUME NEW j \in Jobs, j.pc = "lifs", JobFits(j)
    PROVE  AfterLif(j) \in Jobs /\ JobFits(AfterLif(j))
  <1>1. j.request \in Valid /\ j.lif \in LifsOf(j.request)
    BY DEF JobFits
  <1>2. /\ 0 \in LifsOf(j.request) /\ LifsOf(j.request) \subseteq LifNames
        /\ Len(j.request.data) \in Nat
    BY <1>1, ValidRequests
  <1>3. CASE j.lif = 0
    <2>1. AfterLif(j) = [j EXCEPT !.pc = "backend"]
      BY <1>3 DEF AfterLif
    <2> QED BY <1>1, <2>1 DEF Jobs, Steps, JobFits
  <1>4. CASE j.lif # 0 /\ j.lif < Len(j.request.data)
    <2>1. j.lif \in 1..MaxData
      BY <1>1, <1>2, <1>4
    <2>2. AfterLif(j) = [j EXCEPT !.lif = @ + 1]
      BY <1>4, <2>1 DEF AfterLif
    <2>3. j.lif + 1 \in LifsOf(j.request)
      BY <1>2, <1>4, <2>1 DEF LifsOf
    <2> QED BY <1>1, <1>2, <2>2, <2>3 DEF Jobs, Steps, JobFits
  <1>5. CASE j.lif # 0 /\ ~(j.lif < Len(j.request.data))
    <2>1. AfterLif(j) = [j EXCEPT !.lif = 0, !.pc = IF j.creating THEN "lifs" ELSE "read"]
      BY <1>5 DEF AfterLif
    <2> QED BY <1>1, <1>2, <2>1 DEF Jobs, Steps, JobFits
  <1> QED BY <1>3, <1>4, <1>5

\* A step that replaces one job by one that fits and leaves the rest alone.
LEMMA JobReplaced ==
    ASSUME IInv, NEW s \in Shoots, NEW j \in Jobs, JobFits(j), GoTo(s, j),
           faults' \in 0..MaxFaults, svm' \in BOOLEAN,
           UNCHANGED <<config, lifs, backend, policy>>
    PROVE  IInv'
  <1>1. Types'
    BY DEF IInv, Types, GoTo
  <1>2. \A t \in Shoots : JobFits(job[t])'
    BY DEF IInv, Types, GoTo, JobFits
  <1>3. \A t \in Shoots : EndpointFits(t)'
    BY DEF IInv, EndpointFits
  <1>4. \A l \in LifNames : LifFits(l)'
    BY DEF IInv, LifFits
  <1> QED BY <1>1, <1>2, <1>3, <1>4 DEF IInv

\* Return leaves a job that carries nothing.
LEMMA IdleFits == Idle \in Jobs /\ JobFits(Idle)
  <1>1. 1 \in LifNames
    BY ConstantsAssumption
  <1> QED BY <1>1 DEF Idle, Jobs, Steps, JobFits

\* The bound on disturbances is kept.
LEMMA FaultsBounded ==
    ASSUME NEW kind, Fault(kind), faults \in 0..MaxFaults
    PROVE  faults' \in 0..MaxFaults
  BY ConstantsAssumption DEF Fault

-----------------------------------------------------------------------------

\* The invariant holds in the beginning and is kept by every step.
LEMMA Initially == Init => IInv
  <1> SUFFICES ASSUME Init PROVE IInv
    OBVIOUS
  <1>1. Types
    <2>1. lifs \in [LifNames -> Lifs \cup {None}]
      BY DEF Init
    <2>2. job \in [Shoots -> Jobs]
      BY IdleFits DEF Init
    <2>3. /\ backend \in [Shoots -> Texts \cup {None}]
          /\ policy \in [Shoots -> SUBSET Texts]
      BY DEF Init
    <2>4. faults \in 0..MaxFaults
      BY ConstantsAssumption DEF Init
    <2> QED BY <2>1, <2>2, <2>3, <2>4 DEF Init, Types
  <1>2. \A s \in Shoots : JobFits(job[s])
    BY IdleFits DEF Init
  <1>3. \A s \in Shoots : EndpointFits(s)
    BY DEF Init, EndpointFits
  <1>4. \A l \in LifNames : LifFits(l)
    BY DEF Init, LifFits
  <1> QED BY <1>1, <1>2, <1>3, <1>4 DEF IInv

\* A reconciliation begins with a configuration that passed Validate.
LEMMA BeginKeeps == ASSUME IInv, NEW s \in Shoots, Begin(s) PROVE IInv'
  <1> DEFINE j == [Idle EXCEPT !.pc = "ensure", !.request = config[s]]
  <1>1. config[s] \in Requests /\ config[s] \in Valid
    BY DEF IInv, Types, Begin, Valid
  <1>2. j \in Jobs /\ JobFits(j)
    BY <1>1, IdleFits DEF Jobs, Idle, Steps, JobFits
  <1>3. GoTo(s, j) /\ UNCHANGED <<config, svm, lifs, backend, policy, faults>>
    BY DEF Begin
  <1>4. faults' \in 0..MaxFaults /\ svm' \in BOOLEAN
    BY <1>3 DEF IInv, Types
  <1> HIDE DEF j
  <1> QED BY <1>2, <1>3, <1>4, JobReplaced

\* The lookup of the SVM decides between creation and validation.
LEMMA EnsureKeeps == ASSUME IInv, NEW s \in Shoots, EnsureCompleteSVM(s) PROVE IInv'
  <1> DEFINE j == [job[s] EXCEPT !.pc = IF svm THEN "read" ELSE "create"]
  <1>1. job[s] \in Jobs /\ job[s].request \in Valid /\ job[s].lif = 1
    BY DEF IInv, Types, JobFits, EnsureCompleteSVM, At
  <1>2. 1 \in LifsOf(job[s].request)
    BY <1>1, ValidRequests
  <1>3. j \in Jobs /\ JobFits(j)
    BY <1>1, <1>2 DEF Jobs, Steps, JobFits
  <1>4. GoTo(s, j) /\ UNCHANGED <<config, svm, lifs, backend, policy, faults>>
    BY DEF EnsureCompleteSVM
  <1>5. faults' \in 0..MaxFaults /\ svm' \in BOOLEAN
    BY <1>4 DEF IInv, Types
  <1> HIDE DEF j
  <1> QED BY <1>3, <1>4, <1>5, JobReplaced

\* Creation starts with the LIFs at the first data LIF.
LEMMA CreateKeeps == ASSUME IInv, NEW s \in Shoots, CreateSVM(s) PROVE IInv'
  <1> DEFINE j == [job[s] EXCEPT !.pc = "lifs", !.creating = TRUE]
  <1>1. job[s] \in Jobs /\ job[s].request \in Valid /\ job[s].lif = 1
    BY DEF IInv, Types, JobFits, CreateSVM, At
  <1>2. 1 \in LifsOf(job[s].request)
    BY <1>1, ValidRequests
  <1>3. j \in Jobs /\ JobFits(j)
    BY <1>1, <1>2 DEF Jobs, Steps, JobFits
  <1>4. GoTo(s, j) \/ GoTo(s, Idle)
    BY DEF CreateSVM, Return
  <1>5. UNCHANGED <<config, lifs, backend, policy>> /\ svm' \in BOOLEAN
    BY DEF CreateSVM
  <1>6. faults' \in 0..MaxFaults
    BY DEF CreateSVM, IInv, Types
  <1> HIDE DEF j
  <1> QED BY <1>3, <1>4, <1>5, <1>6, IdleFits, JobReplaced

\* The interfaces are read as they are.
LEMMA ReadKeeps ==
    ASSUME IInv, NEW s \in Shoots, GetExistingNetworkInterfaces(s) PROVE IInv'
  <1> DEFINE seen == {l \in LifNames : Exists(l)}
             j == [job[s] EXCEPT !.pc = "lifs", !.seen = seen]
  <1>1. /\ job[s] \in Jobs /\ job[s].request \in Valid
        /\ job[s].lif \in LifsOf(job[s].request)
    BY DEF IInv, Types, JobFits, GetExistingNetworkInterfaces, At
  <1>2. seen \in SUBSET LifNames
    OBVIOUS
  <1>3. GoTo(s, j) /\ UNCHANGED <<config, svm, lifs, backend, policy, faults>>
    BY DEF GetExistingNetworkInterfaces
  <1>4. faults' \in 0..MaxFaults /\ svm' \in BOOLEAN
    BY <1>3 DEF IInv, Types
  <1> HIDE DEF seen
  <1>5. j \in Jobs /\ JobFits(j)
    BY <1>1, <1>2 DEF Jobs, Steps, JobFits
  <1> HIDE DEF j
  <1> QED BY <1>3, <1>4, <1>5, JobReplaced

\* A LIF that is there is left as it is.
LEMMA KeepLifKeeps == ASSUME IInv, NEW s \in Shoots, KeepLif(s) PROVE IInv'
  <1>1. AfterLif(job[s]) \in Jobs /\ JobFits(AfterLif(job[s]))
    BY LoopStays DEF IInv, Types, KeepLif, At
  <1>2. /\ GoTo(s, AfterLif(job[s]))
        /\ UNCHANGED <<config, svm, lifs, backend, policy, faults>>
    BY DEF KeepLif
  <1>3. faults' \in 0..MaxFaults /\ svm' \in BOOLEAN
    BY <1>2 DEF IInv, Types
  <1> QED BY <1>1, <1>2, <1>3, JobReplaced

\* A new LIF has an address of the valid configuration, on the node of its index.
LEMMA CreateLifKeeps == ASSUME IInv, NEW s \in Shoots, CreateLif(s) PROVE IInv'
  <1> DEFINE j == job[s]
             r == job[s].request
             l == job[s].lif
             new == [address |-> AddressOf(r, l), node |-> NodeAtCreation(l)]
  <1>1. /\ j \in Jobs /\ JobFits(j) /\ j.pc = "lifs"
        /\ r \in Valid /\ l \in LifsOf(r)
    BY DEF IInv, Types, JobFits, CreateLif, At
  <1>2. AfterLif(j) \in Jobs /\ JobFits(AfterLif(j))
    BY <1>1, LoopStays
  <1>3. /\ l \in LifNames /\ AddressOf(r, l) \in Texts
    BY <1>1, ValidRequests
  <1>4. new \in Lifs
    BY <1>3, NodeAtCreationIsNode DEF Lifs
  <1>5. UNCHANGED <<config, svm, backend, policy>>
    BY DEF CreateLif
  <1>6. faults' \in 0..MaxFaults
    BY FaultsBounded DEF CreateLif, IInv, Types
  <1>7. GoTo(s, AfterLif(j)) \/ GoTo(s, Idle)
    BY DEF CreateLif, Return
  <1>8. CASE UNCHANGED lifs
    BY <1>2, <1>5, <1>6, <1>7, <1>8, IdleFits, JobReplaced DEF IInv, Types
  <1>9. CASE lifs' = [lifs EXCEPT ![l] = new]
    <2>1. PICK k \in Jobs : JobFits(k) /\ GoTo(s, k)
      BY <1>2, <1>7, IdleFits
    <2>2. Types'
      BY <1>3, <1>4, <1>5, <1>6, <1>9, <2>1 DEF IInv, Types, GoTo
    <2>3. \A t \in Shoots : JobFits(job[t])'
      BY <2>1 DEF IInv, Types, GoTo, JobFits
    <2>4. \A t \in Shoots : EndpointFits(t)'
      BY <1>5 DEF IInv, EndpointFits
    <2>5. \A m \in LifNames : lifs'[m] = IF m = l THEN new ELSE lifs[m]
      BY <1>9 DEF IInv, Types
    <2>6. \A m \in LifNames : LifFits(m)'
      BY <1>1, <2>5 DEF IInv, LifFits
    <2> QED BY <2>2, <2>3, <2>4, <2>6 DEF IInv
  <1>10. UNCHANGED lifs \/ lifs' = [lifs EXCEPT ![l] = new]
    BY LoopsAgree DEF CreateLif
  <1> QED BY <1>8, <1>9, <1>10

\* The backend gets the management address of that configuration.
LEMMA BackendKeeps == ASSUME IInv, NEW s \in Shoots, DeployBackend(s) PROVE IInv'
  <1> DEFINE j == [job[s] EXCEPT !.pc = "cwnp"]
             r == job[s].request
  <1>1. job[s] \in Jobs /\ r \in Valid
    BY DEF IInv, Types, JobFits, DeployBackend, At
  <1>2. j \in Jobs /\ JobFits(j)
    BY <1>1 DEF Jobs, Steps, JobFits
  <1>3. /\ GoTo(s, j) /\ backend' = [backend EXCEPT ![s] = r.mgmt]
        /\ UNCHANGED <<config, svm, lifs, policy, faults>>
    BY DEF DeployBackend
  <1>4. r.mgmt \in Texts
    BY <1>1, ValidRequests
  <1> HIDE DEF j
  <1>5. Types'
    BY <1>2, <1>3, <1>4 DEF IInv, Types, GoTo
  <1>6. \A t \in Shoots : JobFits(job[t])'
    BY <1>2, <1>3 DEF IInv, Types, GoTo, JobFits
  <1>7. \A t \in Shoots : EndpointFits(t)'
    BY <1>1, <1>3 DEF IInv, Types, EndpointFits
  <1>8. \A l \in LifNames : LifFits(l)'
    BY <1>3 DEF IInv, LifFits
  <1> QED BY <1>5, <1>6, <1>7, <1>8 DEF IInv

\* The policy gets its addresses.
LEMMA CwnpKeeps == ASSUME IInv, NEW s \in Shoots, DeployCwnp(s) PROVE IInv'
  <1> DEFINE r == job[s].request
  <1>1. job[s] \in Jobs /\ r \in Valid
    BY DEF IInv, Types, JobFits, DeployCwnp, At
  <1>2. /\ GoTo(s, Idle) /\ policy' = [policy EXCEPT ![s] = AddressesOf(r)]
        /\ UNCHANGED <<config, svm, lifs, backend, faults>>
    BY DEF DeployCwnp, Return
  <1>3. AddressesOf(r) \subseteq Texts
    BY <1>1, ValidRequests
  <1>4. Types'
    BY <1>2, <1>3, IdleFits DEF IInv, Types, GoTo
  <1>5. \A t \in Shoots : JobFits(job[t])'
    BY <1>2, IdleFits DEF IInv, Types, GoTo, JobFits
  <1>6. \A t \in Shoots : EndpointFits(t)'
    BY <1>1, <1>2 DEF IInv, Types, EndpointFits
  <1>7. \A l \in LifNames : LifFits(l)'
    BY <1>2 DEF IInv, LifFits
  <1> QED BY <1>4, <1>5, <1>6, <1>7 DEF IInv

\* A call that fails ends the reconciliation, its effect may remain.
LEMMA InterruptedKeeps == ASSUME IInv, NEW s \in Shoots, Interrupted(s) PROVE IInv'
  <1>1. GoTo(s, Idle) /\ UNCHANGED <<config, svm, lifs, backend, policy>>
    BY DEF Interrupted, Return
  <1>2. faults' \in 0..MaxFaults /\ svm' \in BOOLEAN
    BY <1>1, FaultsBounded DEF Interrupted, IInv, Types
  <1> QED BY <1>1, <1>2, IdleFits, JobReplaced

\* An edit touches no LIF, backend or policy.
LEMMA EditKeeps == ASSUME IInv, NEW s \in Shoots, Edit(s) PROVE IInv'
  <1>1. UNCHANGED <<svm, lifs, job, backend, policy>>
    BY DEF Edit
  <1>2. Types'
    BY <1>1, FaultsBounded DEF Edit, IInv, Types
  <1> QED BY <1>1, <1>2 DEF IInv, JobFits, EndpointFits, LifFits

\* A LIF that is lost leaves the others.
LEMMA LifLostKeeps == ASSUME IInv, NEW l \in LifNames, LifLost(l) PROVE IInv'
  <1>1. lifs' = [lifs EXCEPT ![l] = None] /\ UNCHANGED <<config, svm, job, backend, policy>>
    BY DEF LifLost
  <1>2. Types'
    BY <1>1, FaultsBounded DEF LifLost, IInv, Types
  <1>3. \A m \in LifNames : LifFits(m)'
    BY <1>1 DEF IInv, Types, LifFits
  <1> QED BY <1>1, <1>2, <1>3 DEF IInv, JobFits, EndpointFits

\* Every step keeps the invariant.
LEMMA Stepwise == IInv /\ [Next]_vars => IInv'
  <1> SUFFICES ASSUME IInv, [Next]_vars PROVE IInv'
    OBVIOUS
  <1>1. CASE UNCHANGED vars
    BY <1>1 DEF IInv, Types, JobFits, EndpointFits, LifFits, vars
  <1>2. ASSUME NEW s \in Shoots, Reconcile(s) PROVE IInv'
    BY <1>2, BeginKeeps, EnsureKeeps, CreateKeeps, ReadKeeps, KeepLifKeeps,
       CreateLifKeeps, BackendKeeps, CwnpKeeps DEF Reconcile
  <1> QED BY <1>1, <1>2, InterruptedKeeps, EditKeeps, LifLostKeeps DEF Next

\* For any shoots, nodes, configurations and number of disturbances, every
\* LIF, backend and policy has its addresses from valid configurations, and
\* a LIF is on the node that its index selects.
THEOREM Invariance == Spec => []IInv
  BY Initially, Stepwise, PTL DEF Spec

\* Types, and the bounds of the loop over the data LIFs.
THEOREM TypeCorrectness == Spec => []TypeOK
  <1>1. IInv => TypeOK
    BY DEF IInv, Types, TypeOK, JobFits
  <1> QED BY Invariance, <1>1, PTL

\* A LIF has the address that a valid configuration has for its name.
LEMMA LifAddress ==
    ASSUME IInv, NEW l \in LifNames, Exists(l)
    PROVE  \E r \in Valid : l \in LifsOf(r) /\ lifs[l].address = AddressOf(r, l)
  <1>1. LifFits(l)
    BY DEF IInv
  <1>2. PICK r \in Valid :
           /\ l \in LifsOf(r)
           /\ lifs[l] = [address |-> AddressOf(r, l), node |-> NodeAtCreation(l)]
    BY <1>1 DEF LifFits, Exists
  <1>3. lifs[l].address = AddressOf(r, l)
    BY <1>2
  <1> QED BY <1>2, <1>3

\* What does not parse reaches neither ONTAP nor a shoot.
THEOREM ValidAddresses == Spec => []AddressesAreValid
  <1> SUFFICES IInv => AddressesAreValid
    BY Invariance, PTL
  <1> SUFFICES ASSUME IInv PROVE AddressesAreValid
    OBVIOUS
  <1>1. ASSUME NEW l \in LifNames, Exists(l) PROVE lifs[l].address \in Addresses
    <2>1. PICK r \in Valid : l \in LifsOf(r) /\ lifs[l].address = AddressOf(r, l)
      BY <1>1, LifAddress
    <2> QED BY <2>1, ValidRequests
  <1>2. ASSUME NEW s \in Shoots, backend[s] # None PROVE backend[s] \in Addresses
    BY <1>2, ValidRequests DEF IInv, EndpointFits
  <1>3. ASSUME NEW s \in Shoots PROVE policy[s] \subseteq Addresses
    BY <1>3, ValidRequests DEF IInv, EndpointFits
  <1> QED BY <1>1, <1>2, <1>3 DEF AddressesAreValid

-----------------------------------------------------------------------------
(* The data LIFs are spread over the nodes.                                *)

\* Division with remainder, and its uniqueness.
LEMMA Division ==
    ASSUME NEW n \in Nat \ {0}, NEW a \in Nat
    PROVE  \E q \in Nat : \E r \in 0..(n - 1) : a = q * n + r /\ a % n = r
  <1>1. a % n \in 0..(n - 1) /\ a \div n \in Nat /\ a = (a \div n) * n + (a % n)
    BY SMTT(20)
  <1> QED BY <1>1

\* The remainder is the one that was added to the multiple.
LEMMA Remainder ==
    ASSUME NEW n \in Nat \ {0}, NEW q \in Nat, NEW r \in 0..(n - 1)
    PROVE  (q * n + r) % n = r
  BY SMTT(20)

\* A LIF of one node has one of any other node close below it, unless it is
\* the first one of its node.
Below(n, i, k, l) == IF k < i THEN l - (i - k) ELSE l - n + (k - i)

\* That one exists, is below, and is of the other node.
LEMMA BelowIsOfNode ==
    ASSUME NEW n \in Nat \ {0}, NEW i \in 1..n, NEW k \in 1..n,
           NEW l \in Nat \ {0}, ((l - 1) % n) + 1 = i, k < i \/ l # i
    PROVE  Below(n, i, k, l) \in 1..l /\ ((Below(n, i, k, l) - 1) % n) + 1 = k
  <1>0. l - 1 \in Nat
    OBVIOUS
  <1>1. PICK q \in Nat, r \in 0..(n - 1) : l - 1 = q * n + r /\ (l - 1) % n = r
    BY <1>0, Division
  <1>2. r = i - 1 /\ k - 1 \in 0..(n - 1)
    BY <1>1
  <1>3. CASE k < i
    <2>1. l - (i - k) - 1 = q * n + (k - 1)
      BY <1>1, <1>2
    <2>2. q * n \in Nat
      BY SMT
    <2>3. l - (i - k) \in 1..l
      BY <1>3, <2>1, <2>2
    <2>4. (q * n + (k - 1)) % n = k - 1
      BY <1>2, Remainder
    <2> QED BY <1>3, <2>1, <2>3, <2>4 DEF Below
  <1>4. CASE ~(k < i)
    <2>1. q # 0
      BY <1>1, <1>2, <1>4
    <2>2. q - 1 \in Nat /\ q * n = (q - 1) * n + n /\ (q - 1) * n \in Nat
      BY <2>1
    <2>3. l - n + (k - i) - 1 = (q - 1) * n + (k - 1)
      BY <1>1, <1>2, <2>2
    <2>4. l - n + (k - i) \in 1..l
      BY <1>4, <2>2, <2>3
    <2>5. ((q - 1) * n + (k - 1)) % n = k - 1
      BY <1>2, <2>2, Remainder
    <2> QED BY <1>4, <2>3, <2>4, <2>5 DEF Below
  <1> QED BY <1>3, <1>4

\* The data LIFs on a node.
On(n) == {l \in DataLifs : Exists(l) /\ lifs[l].node = n}

\* They are those that the index selects.
LEMMA OnNode ==
    ASSUME IInv, NEW i \in 1..Len(Nodes), NEW l \in DataLifs, Exists(l)
    PROVE  lifs[l].node = Nodes[i] <=> ((l - 1) % Len(Nodes)) + 1 = i
  <1> DEFINE k == ((l - 1) % Len(Nodes)) + 1
  <1>1. l \in LifNames /\ l # 0 /\ l - 1 \in Nat
    BY ConstantsAssumption
  <1>2. lifs[l].node = NodeAtCreation(l)
    <2>1. LifFits(l)
      BY <1>1 DEF IInv
    <2>2. PICK r \in Valid : lifs[l] = [address |-> AddressOf(r, l), node |-> NodeAtCreation(l)]
      BY <2>1 DEF LifFits, Exists
    <2> QED BY <2>2
  <1>3. NodeAtCreation(l) = Nodes[k]
    BY <1>1 DEF NodeAtCreation
  <1>4. k \in 1..Len(Nodes)
    BY <1>1, ConstantsAssumption
  <1> QED BY <1>2, <1>3, <1>4, ConstantsAssumption

\* Without gaps among the data LIFs, a node has at most one more of them than
\* another: all but its first have one of the other's below them.
LEMMA AtMostOneMore ==
    ASSUME IInv, \A l \in DataLifs : Exists(l) => \A k \in 1..l : Exists(k),
           NEW i \in 1..Len(Nodes), NEW k \in 1..Len(Nodes)
    PROVE  Cardinality(On(Nodes[i])) <= Cardinality(On(Nodes[k])) + 1
  <1> DEFINE N == Len(Nodes)
             S == On(Nodes[i])
             T == On(Nodes[k])
             f == [l \in S \ {i} |-> Below(N, i, k, l)]
  <1>1. N \in Nat \ {0} /\ MaxData \in Nat
    BY ConstantsAssumption
  <1>2. IsFiniteSet(S) /\ IsFiniteSet(T)
    <2>1. IsFiniteSet(DataLifs)
      BY <1>1, FS_Interval
    <2>2. S \subseteq DataLifs /\ T \subseteq DataLifs
      BY DEF On
    <2> QED BY <2>1, <2>2, FS_Subset
  <1>3. ASSUME NEW l \in S \ {i} PROVE Below(N, i, k, l) \in T
    <2>1. l \in DataLifs /\ Exists(l) /\ l # i /\ ((l - 1) % N) + 1 = i
      BY OnNode DEF On
    <2>2. l \in Nat \ {0}
      BY <1>1, <2>1
    <2>3. Below(N, i, k, l) \in 1..l /\ ((Below(N, i, k, l) - 1) % N) + 1 = k
      BY <1>1, <2>1, <2>2, BelowIsOfNode
    <2>4. Below(N, i, k, l) \in DataLifs /\ Exists(Below(N, i, k, l))
      BY <1>1, <2>1, <2>3
    <2> QED BY <2>3, <2>4, OnNode DEF On
  <1>4. f \in Injection(S \ {i}, T)
    <2>1. ASSUME NEW a \in S \ {i}, NEW b \in S \ {i}, Below(N, i, k, a) = Below(N, i, k, b)
          PROVE  a = b
      <3>1. a \in Nat /\ b \in Nat
        BY <1>1 DEF On
      <3> QED BY <1>1, <2>1, <3>1 DEF Below
    <2> QED BY <1>3, <2>1 DEF Injection, IsInjective
  <1>5. Cardinality(S \ {i}) <= Cardinality(T)
    BY <1>2, <1>4, FS_Injection
  <1>6. Cardinality(S) \in Nat /\ Cardinality(T) \in Nat
    BY <1>2, FS_CardinalityType
  <1>7. Cardinality(S \ {i}) = IF i \in S THEN Cardinality(S) - 1 ELSE Cardinality(S)
    BY <1>2, FS_RemoveElement
  <1> HIDE DEF S, T
  <1>8. Cardinality(S) <= Cardinality(T) + 1
    BY <1>5, <1>6, <1>7
  <1> QED BY <1>8 DEF S, T

\* Once there are no gaps, no node has two data LIFs more than another,
\* whichever shoots created them and in whichever order they got lost.
THEOREM Spread == Spec => []LifsAreSpread
  <1>1. IInv => LifsAreSpread
    BY AtMostOneMore DEF LifsAreSpread, On, NodeNames
  <1> QED BY Invariance, <1>1, PTL

=============================================================================

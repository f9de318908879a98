--------------------------- MODULE DeploymentProofs ---------------------------
(***************************************************************************)
(* Deployment: types, the order of the CRDs and the orchestrator, the      *)
(* order of a deletion, and the contract of Extensions, for any            *)
(* disturbances and any number of them.                                    *)
(***************************************************************************)
EXTENDS Deployment, TLAPS

\* What the tuple of parts consists of (tridentResources, then the webhook).
LEMMA OrderFacts ==
    /\ Len(Order) = 6
    /\ Order[1] = "crds" /\ Order[2] = "backends" /\ Order[3] = "secret"
    /\ Order[4] = "cwnp" /\ Order[5] = "init" /\ Order[6] = "webhook"
  BY DEF Order

\* Every position of the order holds a part.
LEMMA OrderInParts == \A i \in 1..Len(Order) : Order[i] \in Parts
  BY DEF Parts

\* The deletion loop and the deployment loop: only the sixth part is the
\* webhook, only the first the CRDs.
LEMMA OrderEnds ==
    \A i \in 1..Len(Order) :
        /\ Order[i] = "webhook" <=> i = 6
        /\ Order[i] = "crds" <=> i = 1
  BY OrderFacts

\* The initial state satisfies the invariant.
LEMMA InitIInv == Init => IInv
  <1> SUFFICES ASSUME Init PROVE IInv
    OBVIOUS
  <1>1. TypeOK
    <2>1. next \in 1..Len(Order) /\ faults \in 0..MaxFaults
      BY ConstantsAssumption, OrderFacts DEF Init
    <2> QED
      BY <2>1 DEF Init, TypeOK
  <1>2. "init" \in Parts
    BY OrderFacts, OrderInParts
  <1> QED
    BY <1>1, <1>2 DEF Init, IInv, CrdsAwaited, InitFindsItsCrds, WithdrawnInOrder

\* Every step keeps the types.
LEMMA StepTypeOK == TypeOK /\ CrdsAwaited /\ [Next]_vars => TypeOK'
  <1> SUFFICES ASSUME TypeOK, CrdsAwaited, [Next]_vars PROVE TypeOK'
    OBVIOUS
  <1> USE ConstantsAssumption, OrderFacts, OrderInParts, OrderEnds DEF TypeOK
  <1>1. CASE StartReconcile \/ SkipCwnp
    BY <1>1 DEF StartReconcile, SkipCwnp, Onwards
  <1>2. CASE DeployResource
    BY <1>2 DEF DeployResource, Onwards, Return
  <1>3. CASE WaitUntilHealthy
    <2>1. next = 1
      BY <1>3 DEF WaitUntilHealthy, CrdsAwaited
    <2> QED
      BY <1>3, <2>1 DEF WaitUntilHealthy, Onwards, Return
  <1>4. CASE StartDelete \/ Interrupted
    BY <1>4 DEF StartDelete, Interrupted, Fault, Return
  <1>5. CASE DeleteManagedResource
    BY <1>5 DEF DeleteManagedResource, Return
  <1>6. ASSUME NEW p \in Parts, Apply(p) \/ Prune(p) PROVE TypeOK'
    BY <1>6 DEF Apply, Prune
  <1>7. CASE OperatorInstalls \/ Toggle \/ FirewallChanges
    <2>1. /\ UNCHANGED <<pc, next, mr, shoot>>
          /\ faults' \in 0..MaxFaults
      BY <1>7 DEF OperatorInstalls, Toggle, FirewallChanges, Fault
    <2>2. operator' \in BOOLEAN /\ firewall' \in BOOLEAN
      BY <1>7 DEF OperatorInstalls, Toggle, FirewallChanges
    <2>3. extension' \in {"none", "wanted", "deleting"}
      BY <1>7 DEF OperatorInstalls, Toggle, FirewallChanges
    <2> QED
      BY <2>1, <2>2, <2>3
  <1>8. CASE UNCHANGED vars
    BY <1>8 DEF vars
  <1> QED
    BY <1>1, <1>2, <1>3, <1>4, <1>5, <1>6, <1>7, <1>8 DEF Next, Controller

\* Nothing takes the CRDs out of the shoot: their ManagedResource keeps its
\* objects (keepObjects).
LEMMA CrdsStay == [Next]_vars /\ "crds" \in shoot => "crds" \in shoot'
  <1> SUFFICES ASSUME [Next]_vars, "crds" \in shoot PROVE "crds" \in shoot'
    OBVIOUS
  <1>1. ASSUME NEW p \in Parts, Apply(p) \/ Prune(p) PROVE "crds" \in shoot'
    BY <1>1 DEF Apply, Prune, Keeps
  <1>2. CASE ~(\E p \in Parts : Apply(p) \/ Prune(p))
    BY <1>2 DEF Next, Controller, vars, StartReconcile, SkipCwnp, DeployResource,
                WaitUntilHealthy, StartDelete, DeleteManagedResource, Interrupted,
                OperatorInstalls, Toggle, FirewallChanges
  <1> QED
    BY <1>1, <1>2

\* Every step keeps what the invariant says of the CRDs.
LEMMA StepOrder == IInv /\ [Next]_vars => (CrdsAwaited /\ InitFindsItsCrds)'
  <1> SUFFICES ASSUME TypeOK, CrdsAwaited, InitFindsItsCrds, [Next]_vars
               PROVE  (CrdsAwaited /\ InitFindsItsCrds)'
    BY DEF IInv
  <1> USE OrderFacts, OrderInParts, OrderEnds, CrdsStay
      DEF TypeOK, CrdsAwaited, InitFindsItsCrds
  <1>1. CASE StartReconcile
    BY <1>1 DEF StartReconcile
  <1>2. CASE SkipCwnp
    BY <1>2 DEF SkipCwnp, Onwards
  <1>3. CASE DeployResource
    <2>1. CASE next = 1
      BY <1>3, <2>1 DEF DeployResource, Waits
    <2>2. CASE next # 1
      BY <1>3, <2>2 DEF DeployResource, Waits, Onwards, Return
    <2> QED
      BY <2>1, <2>2
  <1>4. CASE WaitUntilHealthy
    BY <1>4 DEF WaitUntilHealthy, Onwards, Return
  <1>5. CASE StartDelete
    BY <1>5 DEF StartDelete
  <1>6. CASE DeleteManagedResource
    BY <1>6 DEF DeleteManagedResource, Return
  <1>7. CASE Interrupted
    BY <1>7 DEF Interrupted, Return
  <1>8. ASSUME NEW p \in Parts, Apply(p) \/ Prune(p)
        PROVE  (CrdsAwaited /\ InitFindsItsCrds)'
    BY <1>8 DEF Apply, Prune
  <1>9. CASE OperatorInstalls \/ Toggle \/ FirewallChanges
    BY <1>9 DEF OperatorInstalls, Toggle, FirewallChanges
  <1>10. CASE UNCHANGED vars
    BY <1>10 DEF vars
  <1> QED
    BY <1>1, <1>2, <1>3, <1>4, <1>5, <1>6, <1>7, <1>8, <1>9, <1>10 DEF Next, Controller

\* Every step keeps what the invariant says of deletions.
LEMMA StepWithdrawn == IInv /\ [Next]_vars => WithdrawnInOrder'
  <1> SUFFICES ASSUME TypeOK, CrdsAwaited, WithdrawnInOrder, [Next]_vars
               PROVE  WithdrawnInOrder'
    BY DEF IInv
  <1> USE DEF TypeOK
  <1>1. CASE StartReconcile \/ StartDelete
    BY <1>1, OrderFacts DEF StartReconcile, StartDelete, WithdrawnInOrder
  <1>2. CASE SkipCwnp \/ WaitUntilHealthy
    BY <1>2 DEF SkipCwnp, WaitUntilHealthy, Onwards, Return, WithdrawnInOrder
  <1>3. CASE DeployResource
    <2>1. pc' # "delete" /\ extension' = extension /\ extension # "none"
      BY <1>3 DEF DeployResource, Onwards, Return, WithdrawnInOrder
    <2> QED BY <2>1 DEF WithdrawnInOrder
  <1>4. CASE DeleteManagedResource
    <2>1. /\ pc = "delete" /\ extension = "deleting" /\ Order[next] \in Parts
          /\ \A p \in Parts : mr'[p] = "present" => mr[p] = "present" /\ p # Order[next]
      BY <1>4, OrderInParts DEF DeleteManagedResource, WithdrawnInOrder
    <2>2. CASE next < Len(Order)
      <3>1. pc' = pc /\ extension' = extension /\ next' = next + 1
        BY <1>4, <2>2 DEF DeleteManagedResource
      <3>2. ASSUME NEW i \in 1..Len(Order), i < next + 1 PROVE mr'[Order[i]] # "present"
        <4>1. i < next \/ i = next
          BY <3>2, OrderFacts
        <4> QED BY <2>1, <4>1, OrderInParts DEF WithdrawnInOrder
      <3> QED BY <2>1, <3>1, <3>2 DEF WithdrawnInOrder
    <2>3. CASE ~(next < Len(Order))
      <3>1. pc' = "idle" /\ extension' = "none" /\ next = Len(Order)
        BY <1>4, <2>3, OrderFacts DEF DeleteManagedResource, Return
      <3>2. ASSUME NEW p \in Parts PROVE mr'[p] # "present"
        <4>1. PICK i \in 1..Len(Order) : p = Order[i]
          BY DEF Parts
        <4>2. i < next \/ i = next
          BY <3>1, OrderFacts
        <4> QED BY <2>1, <4>1, <4>2 DEF WithdrawnInOrder
      <3> QED BY <3>1, <3>2 DEF WithdrawnInOrder
    <2> QED BY <2>2, <2>3
  <1>5. CASE Interrupted
    BY <1>5 DEF Interrupted, Return, WithdrawnInOrder
  <1>6. ASSUME NEW p \in Parts, Apply(p) \/ Prune(p) PROVE WithdrawnInOrder'
    <2>1. /\ UNCHANGED <<pc, next, extension>>
          /\ \A q \in Parts : mr'[q] = "present" => mr[q] = "present"
      BY <1>6 DEF Apply, Prune
    <2> QED BY <2>1, OrderInParts DEF WithdrawnInOrder
  <1>7. CASE OperatorInstalls \/ Toggle \/ FirewallChanges
    BY <1>7 DEF OperatorInstalls, Toggle, FirewallChanges, WithdrawnInOrder
  <1>8. CASE UNCHANGED vars
    BY <1>8 DEF vars, WithdrawnInOrder
  <1> QED
    BY <1>1, <1>2, <1>3, <1>4, <1>5, <1>6, <1>7, <1>8 DEF Next, Controller

\* IInv is an invariant of every deployment and every deletion.
THEOREM Invariance == Spec => []IInv
  <1>1. IInv /\ [Next]_vars => IInv'
    BY StepTypeOK, StepOrder, StepWithdrawn DEF IInv
  <1> QED
    BY InitIInv, <1>1, PTL DEF Spec

\* The variables keep to their types for any bound on the disturbances.
THEOREM TypeCorrectness == Spec => []TypeOK
  BY Invariance, PTL DEF IInv

\* The GRM is never handed the orchestrator before the shoot knows its kind
\* (deployResources waits for the CRDs, whose objects outlive their
\* ManagedResource), however often the extension is disabled, enabled and
\* interrupted.
THEOREM InitAfterCrds == Spec => []InitFindsItsCrds
  BY Invariance, PTL DEF IInv

\* Wherever a deletion is interrupted and repeated, it has asked for the
\* deletion of every part before the one it is at, and the Extension goes only
\* when nothing is asked to stay.
THEOREM DeletesInOrder == Spec => []WithdrawnInOrder
  BY Invariance, PTL DEF IInv

-----------------------------------------------------------------------------
(* The contract.                                                           *)

\* Every step of the deployment is one of the contract's, or none.
LEMMA StepContract == IInv /\ [Next]_vars => [Contract!Next]_Contract!vars
  <1> SUFFICES ASSUME TypeOK, CrdsAwaited, WithdrawnInOrder, [Next]_vars
               PROVE  [Contract!Next]_Contract!vars
    BY DEF IInv
  <1> USE DEF Shoots, Extensions, Work, Present
  <1>1. CASE StartReconcile \/ StartDelete
    <2>1. Contract!Begin("shoot")
      BY <1>1 DEF StartReconcile, StartDelete, Contract!Begin
    <2> QED BY <2>1 DEF Contract!Next
  <1>2. CASE SkipCwnp
    BY <1>2 DEF SkipCwnp, Onwards, Contract!vars
  <1>3. CASE WaitUntilHealthy
    <2>1. CASE Onwards
      BY <1>3, <2>1 DEF WaitUntilHealthy, Onwards, Contract!vars
    <2>2. CASE Return
      <3>1. Contract!End("shoot")
        BY <1>3, <2>2 DEF WaitUntilHealthy, Return, Contract!End
      <3> QED BY <3>1 DEF Contract!Next
    <2> QED BY <1>3, <2>1, <2>2 DEF WaitUntilHealthy
  <1>4. CASE DeployResource
    <2> DEFINE p == Order[next]
    <2>1. /\ pc = "deploy" /\ p \in Parts /\ UNCHANGED extension
          /\ extension \in {"wanted", "deleting"}
          /\ mr' = [mr EXCEPT ![p] = IF @ = "absent" THEN "present" ELSE @]
          /\ pc' \in {"idle", "deploy", "wait"}
      BY <1>4, OrderInParts DEF DeployResource, Onwards, Return, TypeOK, WithdrawnInOrder
    <2> HIDE DEF p
    <2>2. Work["shoot"] = "reconcile" /\ Extensions["shoot"] \in {"wanted", "deleting"}
      BY <2>1
    <2>3. Work' = Work \/ Work' = [Work EXCEPT !["shoot"] = "nothing"]
      BY <2>1
    <2>4. CASE mr[p] \in {"absent", "present"}
      <3>1. Present' = [Present EXCEPT !["shoot"] = @ \cup {p}]
        BY <2>1, <2>4 DEF TypeOK
      <3>2. Contract!Give("shoot")
        BY <2>1, <2>2, <2>3, <3>1 DEF Contract!Give
      <3> QED BY <3>2 DEF Contract!Next
    <2>5. CASE mr[p] = "deleting"
      <3>1. Present' = Present /\ Extensions' = Extensions
        BY <2>1, <2>5 DEF TypeOK
      <3>2. CASE Work' = Work
        BY <3>1, <3>2 DEF Contract!vars
      <3>3. CASE Work' = [Work EXCEPT !["shoot"] = "nothing"]
        BY <3>1, <3>3 DEF Contract!Next, Contract!End
      <3> QED BY <2>3, <3>2, <3>3
    <2> QED BY <2>1, <2>4, <2>5 DEF TypeOK
  <1>5. CASE DeleteManagedResource
    <2> DEFINE p == Order[next]
    <2>1. /\ pc = "delete" /\ extension = "deleting" /\ p \in Parts
          /\ mr' = [mr EXCEPT ![p] = IF @ = "present" THEN "deleting" ELSE @]
      BY <1>5, OrderInParts DEF DeleteManagedResource, WithdrawnInOrder, TypeOK
    <2>2. Work["shoot"] = "delete" /\ Extensions["shoot"] = "deleting"
      BY <2>1
    <2>3. Present' = [Present EXCEPT !["shoot"] = @ \ {p}]
      <3> HIDE DEF p
      <3> QED BY <2>1 DEF TypeOK
    <2>4. CASE next < Len(Order)
      <3>1. Work' = Work /\ Extensions' = Extensions
        BY <1>5, <2>4 DEF DeleteManagedResource
      <3>2. Contract!Take("shoot")
        <4> HIDE DEF p
        <4> QED BY <2>1, <2>2, <2>3, <3>1 DEF Contract!Take
      <3> QED BY <3>2 DEF Contract!Next
    <2>5. CASE ~(next < Len(Order))
      <3>1. pc' = "idle" /\ extension' = "none" /\ next = Len(Order)
        BY <1>5, <2>5, OrderFacts DEF DeleteManagedResource, Return, TypeOK
      <3>2. ASSUME NEW q \in Parts, mr[q] = "present" PROVE q = p
        <4>1. PICK i \in 1..Len(Order) : q = Order[i]
          BY DEF Parts
        <4>2. i < next \/ i = next
          BY <3>1, OrderFacts
        <4> QED BY <2>1, <3>2, <4>1, <4>2 DEF WithdrawnInOrder
      <3> HIDE DEF p
      <3>3. Present["shoot"] \subseteq {p}
        BY <3>2
      <3>4. Present' = [Present EXCEPT !["shoot"] = {}]
        BY <2>3, <3>3
      <3>5. /\ Extensions' = [Extensions EXCEPT !["shoot"] = "none"]
            /\ Work' = [Work EXCEPT !["shoot"] = "nothing"]
        BY <3>1
      <3>6. Contract!Vanish("shoot")
        BY <2>1, <2>2, <3>3, <3>4, <3>5 DEF Contract!Vanish
      <3> QED BY <3>6 DEF Contract!Next
    <2> QED BY <2>4, <2>5
  <1>6. CASE Interrupted
    <2>1. Contract!End("shoot")
      BY <1>6 DEF Interrupted, Return, Contract!End
    <2> QED BY <2>1 DEF Contract!Next
  <1>7. ASSUME NEW p \in Parts, Apply(p) \/ Prune(p) PROVE UNCHANGED Contract!vars
    <2>1. /\ UNCHANGED <<pc, extension>>
          /\ \A q \in Parts : mr'[q] = "present" <=> mr[q] = "present"
      BY <1>7 DEF Apply, Prune, TypeOK
    <2> QED BY <2>1 DEF Contract!vars
  <1>8. CASE Toggle
    <2>1. Contract!Toggle("shoot")
      BY <1>8 DEF Toggle, Contract!Toggle
    <2> QED BY <2>1 DEF Contract!Next
  <1>9. CASE OperatorInstalls \/ FirewallChanges \/ UNCHANGED vars
    BY <1>9 DEF OperatorInstalls, FirewallChanges, vars, Contract!vars
  <1> QED
    BY <1>1, <1>2, <1>3, <1>4, <1>5, <1>6, <1>7, <1>8, <1>9 DEF Next, Controller

\* For any disturbances: resource by resource, with waits, pruning and
\* interruptions in between, the shoot is given only by reconciliations of an
\* Extension that was wanted, loses only to deletions, and the Extension goes
\* with the last resource.
THEOREM RefinesContract == Spec => ImplementsContract
  <1>1. Init => Contract!Init
    BY DEF Init, Contract!Init, Extensions, Work, Present, Shoots
  <1>2. IInv /\ [Next]_vars => [Contract!Next]_Contract!vars
    BY StepContract
  <1>3. Spec => []IInv
    BY Invariance
  <1> QED BY <1>1, <1>2, <1>3, PTL DEF Spec, ImplementsContract, Contract!Spec

=============================================================================

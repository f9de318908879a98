-------------------------- MODULE CredentialsProofs --------------------------
(* Credentials: its invariants hold for all shoots, seeds and accounts.    *)
EXTENDS Credentials, TLAPS

Values == Passwords \cup {Absent, Empty}

USE DEF seedSecrets

-----------------------------------------------------------------------------
(* What the building blocks of the steps do, shoot by shoot.               *)

\* A job that goes on changes its own step and password and no other job.
LEMMA GoToEffect ==
    ASSUME TypeOK, NEW s \in Shoots, NEW step \in Steps, NEW pw \in Values,
           GoTo(s, step, pw)
    PROVE  /\ pc' \in [Shoots -> Steps] /\ held' \in [Shoots -> Values]
           /\ pc'[s] = step /\ held'[s] = pw
           /\ \A t \in Shoots \ {s} : pc'[t] = pc[t] /\ held'[t] = held[t]
  BY DEF TypeOK, GoTo, Values

\* A disturbance keeps the bound on disturbances.
LEMMA FaultEffect ==
    ASSUME TypeOK, NEW kind, Fault(kind)
    PROVE  faults' \in 0..MaxFaults
  BY ConstantsAssumption DEF TypeOK, Fault

\* After a call that took effect the job goes on, or has returned.
LEMMA AppliedEffect ==
    ASSUME TypeOK, NEW s \in Shoots, NEW step \in Steps, NEW pw \in Values,
           Applied(s, step, pw)
    PROVE  /\ pc' \in [Shoots -> Steps] /\ held' \in [Shoots -> Values]
           /\ faults' \in 0..MaxFaults
           /\ \/ pc'[s] = step /\ held'[s] = pw
              \/ pc'[s] = "idle" /\ held'[s] = Absent
           /\ \A t \in Shoots \ {s} : pc'[t] = pc[t] /\ held'[t] = held[t]
  <1>1. CASE GoTo(s, step, pw) /\ UNCHANGED faults
    BY <1>1, GoToEffect DEF TypeOK
  <1>2. CASE Return(s) /\ Fault("lostReply")
    <2>1. "idle" \in Steps /\ Absent \in Values
      BY DEF Steps, Values
    <2>2. QED
      BY <1>2, <2>1, GoToEffect, FaultEffect DEF Return
  <1>3. QED
    BY <1>1, <1>2 DEF Applied

\* Writing a seed secret changes that secret and no other.
LEMMA WriteSecretEffect ==
    ASSUME TypeOK, NEW s \in Shoots, NEW pw \in Values, WriteSecret(s, pw)
    PROVE  /\ secret' \in [Seeds -> [Shoots -> Values]]
           /\ secret'[home[s]][s] = pw
           /\ \A d \in Seeds, t \in Shoots :
                 <<d, t>> # <<home[s], s>> => secret'[d][t] = secret[d][t]
  <1>1. home[s] \in Seeds /\ secret \in [Seeds -> [Shoots -> Values]]
    BY DEF TypeOK, Values
  <1> DEFINE row == [secret[home[s]] EXCEPT ![s] = pw]
  <1>2. secret' = [secret EXCEPT ![home[s]] = row]
    BY DEF WriteSecret
  <1>3. row \in [Shoots -> Values] /\ row[s] = pw
        /\ \A t \in Shoots \ {s} : row[t] = secret[home[s]][t]
    BY <1>1
  <1> HIDE DEF row
  <1>4. QED
    BY <1>1, <1>2, <1>3

\* Setting a password changes that account and its last setter only.
LEMMA SetPasswordEffect ==
    ASSUME TypeOK, NEW s \in Shoots, NEW pw \in Passwords, SetPassword(s, pw)
    PROVE  /\ account' \in [Users -> Passwords \cup {Absent}]
           /\ setter' \in [Users -> (Seeds \X Shoots) \cup {Absent}]
           /\ account'[UserOf[s]] = pw /\ setter'[UserOf[s]] = <<home[s], s>>
           /\ \A u \in Users \ {UserOf[s]} :
                 account'[u] = account[u] /\ setter'[u] = setter[u]
  <1>1. UserOf[s] \in Users /\ <<home[s], s>> \in Seeds \X Shoots
    BY ConstantsAssumption DEF TypeOK
  <1>2. QED
    BY <1>1 DEF TypeOK, SetPassword

\* attemptUserCreation sets the password of an absent account, or nothing.
LEMMA CreateAccountEffect ==
    ASSUME TypeOK, NEW s \in Shoots, NEW pw \in Passwords,
           NEW step \in Steps, NEW carry \in Values,
           CreateAccount(s, pw, step, carry)
    PROVE  /\ pc' \in [Shoots -> Steps] /\ held' \in [Shoots -> Values]
           /\ faults' \in 0..MaxFaults
           /\ \A t \in Shoots \ {s} : pc'[t] = pc[t] /\ held'[t] = held[t]
           /\ \/ /\ Account(s) = Absent /\ SetPassword(s, pw)
                 /\ pc'[s] = step /\ held'[s] = carry
              \/ /\ Account(s) = Absent /\ SetPassword(s, pw)
                 /\ pc'[s] = "idle" /\ held'[s] = Absent
              \/ /\ UNCHANGED <<account, setter>>
                 /\ pc'[s] = "idle" /\ held'[s] = Absent
  <1>1. CASE Account(s) = Absent /\ SetPassword(s, pw) /\ Applied(s, step, carry)
    BY <1>1, AppliedEffect
  <1>2. CASE Return(s) /\ UNCHANGED <<account, setter, faults>>
    BY <1>2, GoToEffect DEF Return, Steps, Values, TypeOK
  <1>3. QED
    BY <1>1, <1>2 DEF CreateAccount

-----------------------------------------------------------------------------
(* Types.  An account gets no password but a real one because of what      *)
(* CarriedPasswordFits says of the password that a reconciliation holds.   *)

\* The initial state is well-typed.
LEMMA TypeInit == Init => TypeOK
  BY ConstantsAssumption DEF Init, TypeOK, Steps

\* Every step keeps the types, given what the jobs carry.
LEMMA TypeNext == TypeOK /\ CarriedPasswordFits /\ [Next]_vars => TypeOK'
  <1> SUFFICES ASSUME TypeOK, CarriedPasswordFits, [Next]_vars PROVE TypeOK'
    OBVIOUS
  <1> USE DEF TypeOK, Steps, Values
  <1>1. CASE UNCHANGED vars
    BY <1>1 DEF vars
  <1>2. CASE Switchover
    BY <1>2, FaultEffect DEF Switchover
  <1>3. ASSUME NEW s \in Shoots, Disturb(s) PROVE TypeOK'
    <2>1. CASE Interrupted(s)
      BY <2>1, GoToEffect, FaultEffect DEF Interrupted, Return
    <2>2. CASE SecretDamaged(s)
      BY <2>2, WriteSecretEffect, FaultEffect DEF SecretDamaged
    <2>6. CASE UsernameLost(s)
      BY <2>6, FaultEffect DEF UsernameLost
    <2>3. CASE AccountLost(s)
      BY <2>3, FaultEffect DEF AccountLost
    <2>4. CASE MigrateAndRestore(s)
      BY <2>4, FaultEffect DEF MigrateAndRestore
    <2>5. QED
      BY <1>3, <2>1, <2>2, <2>3, <2>4, <2>6 DEF Disturb
  <1>4. ASSUME NEW s \in Shoots, Reconcile(s) PROVE TypeOK'
    <2>0. Secret(s) \in Values /\ held[s] \in Values
      BY DEF Secret
    <2>1. CASE CheckSecret(s)
      BY <2>0, <2>1, GoToEffect DEF CheckSecret
    <2>2. CASE CheckUser(s)
      <3>1. \A pw \in Values, seen \in BOOLEAN : NextStep(pw, seen) \in Steps
        BY DEF NextStep
      <3>2. QED
        BY <2>0, <2>2, <3>1, GoToEffect, FaultEffect DEF CheckUser
    <2>3. CASE ValidatePasswordConsistency(s)
      BY <2>3, GoToEffect DEF ValidatePasswordConsistency
    <2>4. CASE CreateONTAPUserWithPassword(s)
      <3>1. held[s] \in Passwords
        BY <2>4 DEF CreateONTAPUserWithPassword, CarriedPasswordFits, CarriedFits
      <3>2. QED
        BY <2>4, <3>1, CreateAccountEffect, SetPasswordEffect
           DEF CreateONTAPUserWithPassword
    <2>5. CASE CreateCompleteUser(s)
      BY <2>5, CreateAccountEffect, SetPasswordEffect DEF CreateCompleteUser
    <2>6. CASE ResetONTAPUserPassword(s)
      BY <2>6, AppliedEffect, GoToEffect, SetPasswordEffect
         DEF ResetONTAPUserPassword, Return
    <2>7. CASE CreateSecret(s)
      <3>1. nameless' \in SUBSET (Seeds \X Shoots)
        BY <2>7 DEF CreateSecret, WithUsername
      <3>2. QED
        BY <2>0, <2>7, <3>1, AppliedEffect, GoToEffect, WriteSecretEffect DEF CreateSecret
    <2>8. CASE UpdateSecret(s)
      <3>1. nameless' \in SUBSET (Seeds \X Shoots)
        BY <2>8 DEF UpdateSecret, WithUsername
      <3>2. QED
        BY <2>0, <2>8, <3>1, AppliedEffect, GoToEffect, WriteSecretEffect DEF UpdateSecret
    <2>9. CASE FetchCredentials(s)
      BY <2>0, <2>9, GoToEffect DEF FetchCredentials, Return
    <2>10. CASE DeploySecret(s)
      BY <2>0, <2>10, GoToEffect DEF DeploySecret, Return
    <2>11. QED
      BY <1>4, <2>1, <2>2, <2>3, <2>4, <2>5, <2>6, <2>7, <2>8, <2>9, <2>10
         DEF Reconcile
  <1>5. QED
    BY <1>1, <1>2, <1>3, <1>4 DEF Next

-----------------------------------------------------------------------------
(* The three kinds of steps: one that only moves a reconciliation, one     *)
(* that sets the account's password, one that writes the seed secret.      *)
(* Each leaves one obligation, about the shoot that takes it.              *)

OthersStay(s) == \A t \in Shoots \ {s} : pc'[t] = pc[t] /\ held'[t] = held[t]

\* A reconciliation that has returned carries nothing that could be wrong.
LEMMA IdleFits ==
    ASSUME NEW s \in Shoots, pc'[s] = "idle"
    PROVE  CarriedFits(s)'
  BY DEF CarriedFits

\* A step that changes neither secrets nor accounts keeps the invariants.
LEMMA QuietStep ==
    ASSUME IInv, NEW s \in Shoots, OthersStay(s), CarriedFits(s)',
           UNCHANGED <<home, secret, account, setter>>
    PROVE  LastSetterMatches' /\ SetByAnOwner' /\ CarriedPasswordFits'
  <1>1. LastSetterMatches' /\ SetByAnOwner'
    BY DEF IInv, LastSetterMatches, SetByAnOwner, Account
  <1>2. ASSUME NEW t \in Shoots \ {s} PROVE CarriedFits(t)'
    <2>1. CarriedFits(t) /\ pc'[t] = pc[t] /\ held'[t] = held[t]
      BY DEF IInv, CarriedPasswordFits, OthersStay
    <2>2. QED
      BY <2>1 DEF CarriedFits, Secret, Account
  <1>3. QED
    BY <1>1, <1>2 DEF CarriedPasswordFits

\* So does one that sets a password while the secret holds that password or none.
LEMMA PasswordStep ==
    ASSUME IInv, NEW s \in Shoots, NEW pw \in Passwords, OthersStay(s),
           SetPassword(s, pw), Secret(s) \in {pw, Absent, Empty},
           CarriedFits(s)', UNCHANGED <<home, secret>>
    PROVE  LastSetterMatches' /\ SetByAnOwner' /\ CarriedPasswordFits'
  <1>0. TypeOK /\ home[s] \in Seeds /\ UserOf \in [Shoots -> Users]
    BY ConstantsAssumption DEF IInv, TypeOK
  <1>e. /\ account'[UserOf[s]] = pw /\ setter'[UserOf[s]] = <<home[s], s>>
        /\ \A u \in Users \ {UserOf[s]} :
              account'[u] = account[u] /\ setter'[u] = setter[u]
    BY <1>0, SetPasswordEffect
  <1>1. LastSetterMatches'
    <2> SUFFICES ASSUME NEW d \in Seeds, NEW t \in Shoots,
                        setter'[UserOf[t]] = <<d, t>>,
                        secret[d][t] \in Passwords, Account(t)' \in Passwords
                 PROVE  secret[d][t] = Account(t)'
      BY DEF LastSetterMatches
    <2>1. CASE UserOf[t] = UserOf[s]
      BY <1>0, <1>e, <2>1, ConstantsAssumption DEF Account, Secret
    <2>2. CASE UserOf[t] # UserOf[s]
      BY <1>0, <1>e, <2>2 DEF IInv, LastSetterMatches, Account
    <2>3. QED
      BY <2>1, <2>2
  <1>2. SetByAnOwner'
    BY <1>0, <1>e DEF IInv, SetByAnOwner
  <1>3. ASSUME NEW t \in Shoots \ {s} PROVE CarriedFits(t)'
    <2>1. CarriedFits(t) /\ pc'[t] = pc[t] /\ held'[t] = held[t]
      BY DEF IInv, CarriedPasswordFits, OthersStay
    <2>2. CASE UserOf[t] = UserOf[s]
      BY <1>0, <1>e, <2>1, <2>2 DEF CarriedFits, Secret, Account
    <2>3. CASE UserOf[t] # UserOf[s]
      BY <1>0, <1>e, <2>1, <2>3 DEF CarriedFits, Secret, Account
    <2>4. QED
      BY <2>2, <2>3
  <1>4. QED
    BY <1>1, <1>2, <1>3 DEF CarriedPasswordFits

\* So does one that writes a secret which fits the shoot's account.
LEMMA SecretStep ==
    ASSUME IInv, NEW s \in Shoots, NEW pw \in Values, OthersStay(s),
           WriteSecret(s, pw),
           /\ pw \in Passwords /\ Account(s) \in Passwords
           /\ setter[UserOf[s]] = <<home[s], s>>
           => pw = Account(s),
           CarriedFits(s)', UNCHANGED <<home, account, setter>>
    PROVE  LastSetterMatches' /\ SetByAnOwner' /\ CarriedPasswordFits'
  <1>0. TypeOK /\ home \in [Shoots -> Seeds]
    BY DEF IInv, TypeOK
  <1>e. /\ secret'[home[s]][s] = pw
        /\ \A d \in Seeds, t \in Shoots :
              <<d, t>> # <<home[s], s>> => secret'[d][t] = secret[d][t]
    BY <1>0, WriteSecretEffect
  <1>1. LastSetterMatches'
    <2> SUFFICES ASSUME NEW d \in Seeds, NEW t \in Shoots,
                        setter[UserOf[t]] = <<d, t>>,
                        secret'[d][t] \in Passwords, Account(t) \in Passwords
                 PROVE  secret'[d][t] = Account(t)
      BY DEF LastSetterMatches, Account
    <2>1. CASE <<d, t>> = <<home[s], s>>
      BY <1>e, <2>1
    <2>2. CASE <<d, t>> # <<home[s], s>>
      BY <1>e, <2>2 DEF IInv, LastSetterMatches
    <2>3. QED
      BY <2>1, <2>2
  <1>2. SetByAnOwner'
    BY DEF IInv, SetByAnOwner
  <1>3. ASSUME NEW t \in Shoots \ {s} PROVE CarriedFits(t)'
    <2>1. CarriedFits(t) /\ pc'[t] = pc[t] /\ held'[t] = held[t]
      BY DEF IInv, CarriedPasswordFits, OthersStay
    <2>2. secret'[home[t]][t] = secret[home[t]][t]
      BY <1>0, <1>e
    <2>3. QED
      BY <2>1, <2>2 DEF CarriedFits, Secret, Account
  <1>4. QED
    BY <1>1, <1>2, <1>3 DEF CarriedPasswordFits

-----------------------------------------------------------------------------
(* The steps, each an instance of one of the three.                        *)

\* Every call of a reconciliation keeps the invariants.
LEMMA ReconcileKeeps ==
    ASSUME IInv, NEW s \in Shoots, Reconcile(s)
    PROVE  LastSetterMatches' /\ SetByAnOwner' /\ CarriedPasswordFits'
  <1>0. /\ TypeOK /\ Secret(s) \in Values /\ held[s] \in Values
        /\ CarriedFits(s)
    BY DEF IInv, TypeOK, Secret, Values, CarriedPasswordFits
  <1> USE DEF Steps, Values
  <1>1. CASE CheckSecret(s)
    <2>1. OthersStay(s) /\ pc'[s] = "checkUser" /\ held'[s] = Secret(s)
      BY <1>0, <1>1, GoToEffect DEF CheckSecret, OthersStay
    <2>2. UNCHANGED <<home, secret, account, setter>>
      BY <1>1 DEF CheckSecret
    <2>3. CarriedFits(s)'
      BY <2>1, <2>2 DEF CarriedFits, Secret
    <2>4. QED
      BY <2>1, <2>2, <2>3, QuietStep
  <1>2. CASE CheckUser(s)
    <2>1. PICK seen \in BOOLEAN : GoTo(s, NextStep(held[s], seen), held[s])
      BY <1>2 DEF CheckUser
    <2>2. NextStep(held[s], seen) \in
             IF held[s] \in Passwords THEN {"validate", "createUser"}
                                      ELSE {"reset", "createBoth"}
      BY DEF NextStep, IsUsable
    <2>3. /\ OthersStay(s) /\ held'[s] = held[s]
          /\ pc'[s] = NextStep(held[s], seen)
      BY <1>0, <2>1, <2>2, GoToEffect DEF OthersStay
    <2>4. pc[s] = "checkUser" /\ UNCHANGED <<home, secret, account, setter>>
      BY <1>2 DEF CheckUser
    <2>5. CarriedFits(s)'
      BY <1>0, <2>2, <2>3, <2>4, ConstantsAssumption DEF CarriedFits, Secret
    <2>6. QED
      BY <2>3, <2>4, <2>5, QuietStep
  <1>3. CASE ValidatePasswordConsistency(s)
    <2>1. OthersStay(s) /\ pc'[s] = "fetch"
      BY <1>0, <1>3, GoToEffect DEF ValidatePasswordConsistency, OthersStay
    <2>2. UNCHANGED <<home, secret, account, setter>>
      BY <1>3 DEF ValidatePasswordConsistency
    <2>3. QED
      BY <2>1, <2>2, QuietStep DEF CarriedFits
  <1>4. CASE CreateONTAPUserWithPassword(s)
    <2>1. held[s] \in Passwords /\ Secret(s) \in {held[s], Absent, Empty}
      BY <1>0, <1>4 DEF CreateONTAPUserWithPassword, CarriedFits
    <2>2. /\ OthersStay(s) /\ pc'[s] \in {"fetch", "idle"}
          /\ SetPassword(s, held[s]) \/ UNCHANGED <<account, setter>>
      BY <1>0, <1>4, <2>1, CreateAccountEffect
         DEF CreateONTAPUserWithPassword, OthersStay
    <2>3. UNCHANGED <<home, secret>> /\ CarriedFits(s)'
      BY <1>4, <2>2 DEF CreateONTAPUserWithPassword, CarriedFits
    <2>4. QED
      BY <2>1, <2>2, <2>3, QuietStep, PasswordStep
  <1>5. CASE CreateCompleteUser(s)
    <2>1. PICK pw \in Passwords : CreateAccount(s, pw, "createSecret", pw)
      BY <1>5 DEF CreateCompleteUser
    <2>2. UNCHANGED <<home, secret>> /\ Secret(s) \notin Passwords
      BY <1>0, <1>5 DEF CreateCompleteUser, CarriedFits
    <2>3. OthersStay(s)
      BY <1>0, <2>1, CreateAccountEffect DEF OthersStay
    <2>4. CASE /\ SetPassword(s, pw)
               /\ \/ pc'[s] = "createSecret" /\ held'[s] = pw
                  \/ pc'[s] = "idle"
      <3>1. account'[UserOf[s]] = pw
        BY <1>0, <2>4, SetPasswordEffect
      <3>2. CarriedFits(s)'
        BY <2>2, <2>4, <3>1 DEF CarriedFits, Secret, Account
      <3>3. QED
        BY <1>0, <2>2, <2>3, <2>4, <3>2, PasswordStep
    <2>5. CASE UNCHANGED <<account, setter>> /\ pc'[s] = "idle"
      BY <2>2, <2>3, <2>5, IdleFits, QuietStep
    <2>6. QED
      BY <1>0, <2>1, <2>4, <2>5, CreateAccountEffect
  <1>6. CASE ResetONTAPUserPassword(s)
    <2>1. UNCHANGED <<home, secret>> /\ Secret(s) \notin Passwords
      BY <1>0, <1>6 DEF ResetONTAPUserPassword, CarriedFits
    <2>2. CASE \E pw \in Passwords :
                  SetPassword(s, pw) /\ Applied(s, "createSecret", pw)
      <3>1. PICK pw \in Passwords :
                  SetPassword(s, pw) /\ Applied(s, "createSecret", pw)
        BY <2>2
      <3>2. /\ OthersStay(s)
            /\ \/ pc'[s] = "createSecret" /\ held'[s] = pw
               \/ pc'[s] = "idle"
        BY <1>0, <3>1, AppliedEffect DEF OthersStay
      <3>3. account'[UserOf[s]] = pw
        BY <1>0, <3>1, SetPasswordEffect
      <3>4. CarriedFits(s)'
        BY <2>1, <3>2, <3>3 DEF CarriedFits, Secret, Account
      <3>5. QED
        BY <1>0, <2>1, <3>1, <3>2, <3>4, PasswordStep
    <2>3. CASE Return(s) /\ UNCHANGED <<account, setter>>
      <3>1. OthersStay(s) /\ pc'[s] = "idle"
        BY <1>0, <2>3, GoToEffect DEF Return, OthersStay
      <3>2. QED
        BY <2>1, <2>3, <3>1, IdleFits, QuietStep
    <2>4. QED
      BY <1>6, <2>2, <2>3 DEF ResetONTAPUserPassword
  <1>7. CASE CreateSecret(s) \/ UpdateSecret(s)
    <2>1. /\ UNCHANGED <<home, account, setter>>
          /\ held[s] \in Passwords /\ Secret(s) \notin Passwords
          /\ /\ Account(s) \in Passwords
             /\ setter[UserOf[s]] = <<home[s], s>>
             => held[s] = Account(s)
      BY <1>0, <1>7 DEF CreateSecret, UpdateSecret, CarriedFits
    <2>2. CASE WriteSecret(s, held[s]) /\ Applied(s, "fetch", Absent)
      <3>1. OthersStay(s) /\ pc'[s] \in {"fetch", "idle"}
        BY <1>0, <2>2, AppliedEffect DEF OthersStay
      <3>2. CarriedFits(s)'
        BY <3>1 DEF CarriedFits
      <3>3. QED
        BY <1>0, <2>1, <2>2, <3>1, <3>2, SecretStep
    <2>3. CASE /\ UNCHANGED secret
               /\ GoTo(s, "createSecret", held[s]) \/ GoTo(s, "updateSecret", held[s])
      <3>1. /\ OthersStay(s) /\ held'[s] = held[s]
            /\ pc'[s] \in {"createSecret", "updateSecret"}
        BY <1>0, <2>3, GoToEffect DEF OthersStay
      <3>2. CarriedFits(s)'
        BY <2>1, <2>3, <3>1 DEF CarriedFits, Secret, Account
      <3>3. QED
        BY <2>1, <2>3, <3>1, <3>2, QuietStep
    <2>4. QED
      BY <1>7, <2>2, <2>3 DEF CreateSecret, UpdateSecret
  <1>8. CASE FetchCredentials(s)
    <2>1. /\ OthersStay(s)
          /\ \/ pc'[s] = "deploy" /\ held'[s] = Secret(s) /\ Secret(s) # Absent
             \/ pc'[s] = "idle"
      BY <1>0, <1>8, GoToEffect DEF FetchCredentials, Return, OthersStay
    <2>2. UNCHANGED <<home, secret, account, setter>>
      BY <1>8 DEF FetchCredentials
    <2>3. CarriedFits(s)'
      <3>1. home[s] \in Seeds
        BY <1>0 DEF TypeOK
      <3>2. /\ Secret(s) \in Passwords /\ Account(s) \in Passwords
            /\ setter[UserOf[s]] = <<home[s], s>>
            => Secret(s) = Account(s)
        BY <3>1 DEF Secret, IInv, LastSetterMatches
      <3>3. CASE pc'[s] = "deploy" /\ held'[s] = Secret(s) /\ Secret(s) # Absent
        BY <2>2, <3>2, <3>3 DEF CarriedFits, Account
      <3>4. CASE pc'[s] = "idle"
        BY <3>4 DEF CarriedFits
      <3>5. QED
        BY <2>1, <3>3, <3>4
    <2>4. QED
      BY <2>1, <2>2, <2>3, QuietStep
  <1>9. CASE DeploySecret(s)
    <2>1. OthersStay(s) /\ pc'[s] = "idle"
      BY <1>0, <1>9, GoToEffect DEF DeploySecret, Return, OthersStay
    <2>2. QED
      BY <1>9, <2>1, IdleFits, QuietStep DEF DeploySecret
  <1>10. QED
    BY <1>1, <1>2, <1>3, <1>4, <1>5, <1>6, <1>7, <1>8, <1>9 DEF Reconcile

\* So does everything that happens behind its back.
LEMMA DisturbKeeps ==
    ASSUME IInv, NEW s \in Shoots, Disturb(s)
    PROVE  LastSetterMatches' /\ SetByAnOwner' /\ CarriedPasswordFits'
  <1>0. TypeOK /\ home \in [Shoots -> Seeds] /\ UserOf \in [Shoots -> Users]
        /\ CarriedFits(s)
    BY ConstantsAssumption DEF IInv, TypeOK, CarriedPasswordFits
  <1> USE DEF Steps, Values
  <1>1. CASE Interrupted(s)
    <2>1. OthersStay(s) /\ pc'[s] = "idle"
      BY <1>0, <1>1, GoToEffect DEF Interrupted, Return, OthersStay
    <2>2. QED
      BY <1>1, <2>1, IdleFits, QuietStep DEF Interrupted
  <1>2. CASE SecretDamaged(s)
    <2>1. PICK pw \in {Absent, Empty} : WriteSecret(s, pw)
      BY <1>2 DEF SecretDamaged
    <2>2. OthersStay(s) /\ UNCHANGED <<pc, held, home, account, setter>>
      BY <1>2 DEF SecretDamaged, OthersStay
    <2>3. secret'[home[s]][s] = pw
      BY <1>0, <2>1, WriteSecretEffect
    <2>4. CarriedFits(s)'
      BY <1>0, <2>2, <2>3, ConstantsAssumption DEF CarriedFits, Secret, Account
    <2>5. QED
      BY <2>1, <2>2, <2>4, SecretStep, ConstantsAssumption
  <1>3. CASE AccountLost(s)
    <2>1. /\ account' = [account EXCEPT ![UserOf[s]] = Absent]
          /\ UNCHANGED <<pc, held, home, secret, setter>>
      BY <1>3 DEF AccountLost
    <2>2. \A u \in Users : account'[u] \in {account[u], Absent}
      BY <1>0, <2>1 DEF TypeOK
    <2>3. LastSetterMatches' /\ SetByAnOwner'
      BY <1>0, <2>1, <2>2, ConstantsAssumption
         DEF IInv, LastSetterMatches, SetByAnOwner, Account
    <2>4. ASSUME NEW t \in Shoots PROVE CarriedFits(t)'
      BY <1>0, <2>1, <2>2, ConstantsAssumption
         DEF IInv, CarriedPasswordFits, CarriedFits, Secret, Account
    <2>5. QED
      BY <2>3, <2>4 DEF CarriedPasswordFits
  <1>4. CASE MigrateAndRestore(s)
    <2>1. /\ UNCHANGED <<pc, held, secret, account, setter>>
          /\ pc[s] = "idle"
          /\ \A t \in Shoots \ {s} : home'[t] = home[t]
      BY <1>0, <1>4 DEF MigrateAndRestore
    <2>2. LastSetterMatches' /\ SetByAnOwner'
      BY <2>1 DEF IInv, LastSetterMatches, SetByAnOwner, Account
    <2>3. ASSUME NEW t \in Shoots \ {s} PROVE CarriedFits(t)'
      BY <2>1 DEF IInv, CarriedPasswordFits, CarriedFits, Secret, Account
    <2>4. CarriedFits(s)'
      BY <2>1, IdleFits
    <2>5. QED
      BY <2>2, <2>3, <2>4 DEF CarriedPasswordFits
  <1>5. CASE UsernameLost(s)
    <2>1. OthersStay(s) /\ UNCHANGED <<pc, held, home, secret, account, setter>>
      BY <1>5 DEF UsernameLost, OthersStay
    <2>2. CarriedFits(s)'
      BY <1>0, <2>1 DEF CarriedFits, Secret, Account
    <2>3. QED
      BY <2>1, <2>2, QuietStep
  <1>6. QED
    BY <1>1, <1>2, <1>3, <1>4, <1>5 DEF Disturb

\* Every step keeps IInv.
LEMMA IInvNext == IInv /\ [Next]_vars => IInv'
  <1> SUFFICES ASSUME IInv, [Next]_vars PROVE IInv'
    OBVIOUS
  <1>1. TypeOK'
    BY TypeNext DEF IInv
  <1>2. LastSetterMatches' /\ SetByAnOwner' /\ CarriedPasswordFits'
    <2>1. ASSUME NEW s \in Shoots, Reconcile(s) \/ Disturb(s)
          PROVE  LastSetterMatches' /\ SetByAnOwner' /\ CarriedPasswordFits'
      BY <2>1, ReconcileKeeps, DisturbKeeps
    <2>2. CASE Switchover \/ UNCHANGED vars
      BY <2>2 DEF Switchover, vars, IInv, LastSetterMatches, SetByAnOwner,
                  CarriedPasswordFits, CarriedFits, Secret, Account
    <2>3. QED
      BY <2>1, <2>2 DEF Next
  <1>3. QED
    BY <1>1, <1>2 DEF IInv

\* The initial state satisfies IInv.
LEMMA IInvInit == Init => IInv
  BY TypeInit, ConstantsAssumption
     DEF Init, IInv, LastSetterMatches, SetByAnOwner, CarriedPasswordFits,
         CarriedFits, Account

-----------------------------------------------------------------------------

\* In every reachable state of the user and secret phase, for any shoots,
\* seeds and accounts, all of IInv holds.
THEOREM Invariance == Spec => []IInv
  BY IInvInit, IInvNext, PTL DEF Spec

\* The types: accounts get real passwords only, whatever the seed secrets
\* were damaged to.
THEOREM TypeCorrectness == Spec => []TypeOK
  <1>1. IInv => TypeOK
    BY DEF IInv
  <1>2. QED
    BY <1>1, Invariance, PTL

\* validateAndEnsureCompleteUserState never leaves two passwords behind:
\* the secret of whoever last set an account's password matches it.
THEOREM LastSetterConsistency == Spec => []LastSetterMatches
  <1>1. IInv => LastSetterMatches
    BY DEF IInv
  <1>2. QED
    BY <1>1, Invariance, PTL

\* An account that no two shoots share was last set by its shoot on its seed.
LEMMA SoleSetter ==
    ASSUME IInv, SoleOwners, NEW s \in Shoots, Account(s) \in Passwords
    PROVE  setter[UserOf[s]] = <<home[s], s>>
  <1>1. UserOf[s] \in Users /\ home[s] \in Seeds
    BY ConstantsAssumption DEF IInv, TypeOK
  <1>2. PICK d \in Seeds, t \in Shoots :
           UserOf[t] = UserOf[s] /\ setter[UserOf[s]] = <<d, t>>
    BY <1>1 DEF IInv, SetByAnOwner, Account
  <1>3. QED
    BY <1>1, <1>2 DEF SoleOwners

\* Where no two shoots share an account and there is one seed, the secret
\* in the seed and the ONTAP account hold the same password.
THEOREM SoleOwnerConsistency == Spec => []SecretMatchesAccount
  <1>1. IInv => SecretMatchesAccount
    <2> SUFFICES ASSUME IInv, SoleOwners, NEW s \in Shoots,
                        Secret(s) \in Passwords, Account(s) \in Passwords
                 PROVE  Secret(s) = Account(s)
      BY DEF SecretMatchesAccount
    <2>1. setter[UserOf[s]] = <<home[s], s>> /\ home[s] \in Seeds
      BY SoleSetter DEF IInv, TypeOK
    <2>2. QED
      BY <2>1 DEF IInv, LastSetterMatches, Secret
  <1>2. QED
    BY <1>1, Invariance, PTL

\* There, too, no reconciliation deploys into the shoot a password that does
\* not open the account.
THEOREM DeployedPasswordsWork == Spec => DeploysWorkingPassword
  <1> DEFINE Works(s) ==
          /\ SoleOwners
          /\ deployed'[s] # deployed[s]
          /\ deployed'[s] \in Passwords /\ Account(s) \in Passwords
          => deployed'[s] = Account(s)
  <1>1. IInv /\ [Next]_vars => \A s \in Shoots : Works(s)
    <2> SUFFICES ASSUME IInv, [Next]_vars, NEW s \in Shoots, SoleOwners,
                        deployed'[s] # deployed[s],
                        deployed'[s] \in Passwords, Account(s) \in Passwords
                 PROVE  deployed'[s] = Account(s)
      OBVIOUS
    <2>1. PICK t \in Shoots : DeploySecret(t)
      <3>1. deployed' # deployed
        OBVIOUS
      <3>2. ASSUME NEW t \in Shoots, Reconcile(t) PROVE DeploySecret(t)
        BY <3>1, <3>2 DEF Reconcile, CheckSecret, CheckUser,
             ValidatePasswordConsistency, CreateONTAPUserWithPassword,
             CreateCompleteUser, ResetONTAPUserPassword, CreateSecret,
             UpdateSecret, FetchCredentials
      <3>3. ASSUME NEW t \in Shoots, Disturb(t) PROVE FALSE
        BY <3>1, <3>3 DEF Disturb, Interrupted, SecretDamaged, UsernameLost, AccountLost,
             MigrateAndRestore
      <3>4. QED
        BY <3>1, <3>2, <3>3 DEF Next, Switchover, vars
    <2>2. s = t /\ deployed'[s] = held[s] /\ pc[s] = "deploy"
      BY <2>1 DEF DeploySecret, IInv, TypeOK
    <2>3. QED
      BY <2>2, SoleSetter DEF IInv, CarriedPasswordFits, CarriedFits
  <1>2. QED
    BY <1>1, Invariance, PTL DEF Spec, DeploysWorkingPassword

\* A step of shoot t's reconciliation leaves alone the secrets of other
\* shoots, the accounts of other names, and what is not yet damaged of its own.
LEMMA WorkingPairStays ==
    ASSUME IInv, SoleOwners, NEW s \in Shoots, NEW t \in Shoots,
           Secret(s) \in Passwords, Secret(s) = Account(s),
           Reconcile(t) \/ Disturb(t)
    PROVE  /\ secret'[home[s]][s] \in {Secret(s), Absent, Empty}
           /\ account'[UserOf[s]] \in {Account(s), Absent}
  <1> DEFINE Goal == /\ secret'[home[s]][s] \in {Secret(s), Absent, Empty}
                     /\ account'[UserOf[s]] \in {Account(s), Absent}
  <1>0. /\ TypeOK /\ CarriedFits(t) /\ Account(s) # Absent
        /\ home[s] \in Seeds /\ UserOf[s] \in Users
        /\ UserOf[t] = UserOf[s] => t = s
    BY ConstantsAssumption DEF IInv, CarriedPasswordFits, TypeOK, SoleOwners
  \* A step that writes no secret, and one that sets no password.
  <1>s. ASSUME UNCHANGED secret PROVE secret'[home[s]][s] = Secret(s)
    BY <1>s DEF Secret
  <1>a. ASSUME UNCHANGED account PROVE account'[UserOf[s]] = Account(s)
    BY <1>a DEF Account
  <1>w. ASSUME NEW pw \in Values, WriteSecret(t, pw),
               t = s => pw \in {Absent, Empty}
        PROVE  secret'[home[s]][s] \in {Secret(s), Absent, Empty}
    BY <1>0, <1>w, WriteSecretEffect DEF Secret
  <1>p. ASSUME NEW pw \in Passwords, SetPassword(t, pw), t # s
        PROVE  account'[UserOf[s]] = Account(s)
    BY <1>0, <1>p, SetPasswordEffect DEF Account
  <1>c. ASSUME NEW pw \in Passwords, NEW step, NEW carry,
               CreateAccount(t, pw, step, carry)
        PROVE  account'[UserOf[s]] = Account(s)
    BY <1>0, <1>a, <1>c, <1>p DEF CreateAccount
  <1>1. CASE CreateONTAPUserWithPassword(t)
    <2>1. held[t] \in Passwords /\ UNCHANGED secret
      BY <1>0, <1>1 DEF CreateONTAPUserWithPassword, CarriedFits
    <2>2. QED
      BY <1>1, <1>s, <1>c, <2>1 DEF CreateONTAPUserWithPassword
  <1>2. CASE CreateCompleteUser(t)
    BY <1>2, <1>s, <1>c DEF CreateCompleteUser
  <1>3. CASE ResetONTAPUserPassword(t)
    <2>1. t # s /\ UNCHANGED secret
      BY <1>0, <1>3 DEF ResetONTAPUserPassword, CarriedFits
    <2>2. QED
      BY <1>3, <1>s, <1>a, <1>p, <2>1 DEF ResetONTAPUserPassword
  <1>4. CASE CreateSecret(t) \/ UpdateSecret(t)
    <2>1. t # s /\ held[t] \in Values /\ UNCHANGED account
      BY <1>0, <1>4 DEF CreateSecret, UpdateSecret, CarriedFits, Values
    <2>2. UNCHANGED secret \/ WriteSecret(t, held[t])
      BY <1>4 DEF CreateSecret, UpdateSecret
    <2>3. QED
      BY <1>s, <1>a, <1>w, <2>1, <2>2
  <1>5. CASE SecretDamaged(t)
    <2>1. UNCHANGED account /\ (WriteSecret(t, Absent) \/ WriteSecret(t, Empty))
      BY <1>5 DEF SecretDamaged
    <2>2. Absent \in Values /\ Empty \in Values
      BY DEF Values
    <2>3. QED
      BY <1>a, <1>w, <2>1, <2>2
  <1>6. CASE AccountLost(t)
    BY <1>0, <1>6, <1>s DEF AccountLost, Account, TypeOK
  <1>7. CASE UNCHANGED <<secret, account>>
    BY <1>7, <1>s, <1>a
  <1>8. QED
    <2>1. ASSUME Reconcile(t) PROVE Goal
      BY <1>1, <1>2, <1>3, <1>4, <1>7, <2>1
         DEF Reconcile, CheckSecret, CheckUser, ValidatePasswordConsistency,
             FetchCredentials, DeploySecret
    <2>2. ASSUME Disturb(t) PROVE Goal
      BY <1>5, <1>6, <1>7, <2>2 DEF Disturb, Interrupted, UsernameLost, MigrateAndRestore
    <2>3. QED
      BY <2>1, <2>2

\* There, too, credentials that work are never replaced: as long as secret
\* and account agree, no step gives either of them another password.
THEOREM WorkingPasswordsStay == Spec => NeverRotatesWorkingPassword
  <1> DEFINE Stays(s) ==
          /\ SoleOwners
          /\ Secret(s) \in Passwords /\ Secret(s) = Account(s)
          => /\ secret'[home[s]][s] \in {Secret(s), Absent, Empty}
             /\ account'[UserOf[s]] \in {Account(s), Absent}
  <1>1. IInv /\ [Next]_vars => \A s \in Shoots : Stays(s)
    <2> SUFFICES ASSUME IInv, [Next]_vars, NEW s \in Shoots, SoleOwners,
                        Secret(s) \in Passwords, Secret(s) = Account(s)
                 PROVE  /\ secret'[home[s]][s] \in {Secret(s), Absent, Empty}
                        /\ account'[UserOf[s]] \in {Account(s), Absent}
      OBVIOUS
    <2>1. CASE \E t \in Shoots : Reconcile(t) \/ Disturb(t)
      BY <2>1, WorkingPairStays
    <2>2. CASE Switchover \/ UNCHANGED vars
      BY <2>2 DEF Switchover, vars, Secret, Account
    <2>3. QED
      BY <2>1, <2>2 DEF Next
  <1>2. QED
    BY <1>1, Invariance, PTL DEF Spec, NeverRotatesWorkingPassword

-----------------------------------------------------------------------------
(* What a shoot with an account of its own sees is a CredentialRegister.   *)

\* Where no two shoots share an account, a write to one is seen by one shoot.
LEMMA SeenAccount ==
    ASSUME TypeOK, SoleOwners, NEW s \in Shoots, NEW pw,
           account' = [account EXCEPT ![UserOf[s]] = pw]
    PROVE  Accounts' = [Accounts EXCEPT ![s] = pw]
  <1>1. \A t \in Shoots : account'[UserOf[t]] = IF t = s THEN pw ELSE account[UserOf[t]]
    BY ConstantsAssumption DEF TypeOK, SoleOwners
  <1>2. QED
    BY <1>1 DEF Accounts, Account

\* A write to a seed secret is seen by its shoot only.
LEMMA SeenSecret ==
    ASSUME TypeOK, NEW s \in Shoots, NEW pw \in Values, WriteSecret(s, pw), UNCHANGED home
    PROVE  Secrets' = [Secrets EXCEPT ![s] = pw]
  <1>1. \A t \in Shoots : secret'[home[t]][t] = IF t = s THEN pw ELSE secret[home[t]][t]
    BY WriteSecretEffect DEF TypeOK
  <1>2. QED
    BY <1>1 DEF Secrets, Secret

\* What is not written looks the same.
LEMMA SeenUnchanged ==
    /\ UNCHANGED account => UNCHANGED Accounts
    /\ UNCHANGED <<home, secret>> => UNCHANGED Secrets
  BY DEF Accounts, Account, Secrets, Secret

\* A password is set only if no usable secret contradicts it.
LEMMA SeenSetPassword ==
    ASSUME IInv, SoleOwners, NEW s \in Shoots, NEW pw \in Passwords,
           SetPassword(s, pw), UNCHANGED <<home, secret, deployed>>,
           \/ Secret(s) \notin Passwords
           \/ Secret(s) = pw /\ Account(s) = Absent
    PROVE  Register!Next
  <1>1. Accounts' = [Accounts EXCEPT ![s] = pw] /\ UNCHANGED <<Secrets, deployed>>
    BY SeenAccount, SeenUnchanged DEF IInv, SetPassword
  <1>2. Accounts[s] = Account(s) /\ Secrets[s] = Secret(s)
    BY DEF Accounts, Secrets
  <1>3. Register!Renew(s) \/ Register!Restore(s)
    BY <1>1, <1>2 DEF Register!Renew, Register!Restore, Register!Usable
  <1>4. QED
    BY <1>3 DEF Register!Next

\* Every call of a reconciliation is a step of the register, or none.
LEMMA ReconcileRefines ==
    ASSUME IInv, SoleOwners, NEW s \in Shoots, Reconcile(s)
    PROVE  Register!Next \/ UNCHANGED Register!vars
  <1>0. TypeOK /\ CarriedFits(s) /\ held[s] \in Values
    BY DEF IInv, TypeOK, CarriedPasswordFits, Values
  <1>1. CASE UNCHANGED <<home, secret, account, deployed>>
    BY <1>1, SeenUnchanged DEF Register!vars
  <1>2. CASE CreateONTAPUserWithPassword(s)
    <2>1. /\ held[s] \in Passwords /\ Secret(s) \in {held[s], Absent, Empty}
          /\ UNCHANGED <<home, secret, deployed>>
      BY <1>0, <1>2 DEF CreateONTAPUserWithPassword, CarriedFits
    <2>2. UNCHANGED account \/ (Account(s) = Absent /\ SetPassword(s, held[s]))
      BY <1>2 DEF CreateONTAPUserWithPassword, CreateAccount
    <2>3. QED
      BY <1>1, <2>1, <2>2, SeenSetPassword, ConstantsAssumption
  <1>3. CASE CreateCompleteUser(s) \/ ResetONTAPUserPassword(s)
    <2>1. Secret(s) \notin Passwords /\ UNCHANGED <<home, secret, deployed>>
      BY <1>0, <1>3 DEF CreateCompleteUser, ResetONTAPUserPassword, CarriedFits
    <2>2. UNCHANGED account \/ \E pw \in Passwords : SetPassword(s, pw)
      BY <1>3 DEF CreateCompleteUser, ResetONTAPUserPassword, CreateAccount
    <2>3. QED
      BY <1>1, <2>1, <2>2, SeenSetPassword
  <1>4. CASE CreateSecret(s) \/ UpdateSecret(s)
    <2>1. /\ held[s] \in Passwords /\ Secret(s) \notin Passwords
          /\ UNCHANGED <<home, account, deployed>>
      BY <1>0, <1>4 DEF CreateSecret, UpdateSecret, CarriedFits
    <2>2. Account(s) \in {held[s], Absent}
      <3>1. Account(s) \in Passwords \cup {Absent}
        BY <1>0, ConstantsAssumption DEF TypeOK, Account
      <3>2. Account(s) \in Passwords => held[s] = Account(s)
        BY <1>0, <1>4, SoleSetter DEF CreateSecret, UpdateSecret, CarriedFits
      <3>3. QED
        BY <3>1, <3>2
    <2>3. CASE WriteSecret(s, held[s])
      <3>1. Secrets' = [Secrets EXCEPT ![s] = held[s]] /\ UNCHANGED <<Accounts, deployed>>
        BY <1>0, <2>1, <2>3, SeenSecret, SeenUnchanged
      <3>2. Accounts[s] = Account(s) /\ Secrets[s] = Secret(s)
        BY DEF Accounts, Secrets
      <3>3. Register!Publish(s)
        BY <2>1, <2>2, <3>1, <3>2 DEF Register!Publish, Register!Usable
      <3>4. QED
        BY <3>3 DEF Register!Next
    <2>4. QED
      BY <1>1, <1>4, <2>1, <2>3 DEF CreateSecret, UpdateSecret
  <1>5. CASE DeploySecret(s)
    <2>1. /\ deployed' = [deployed EXCEPT ![s] = held[s]]
          /\ UNCHANGED <<Accounts, Secrets>>
      BY <1>5, SeenUnchanged DEF DeploySecret
    <2>2. held[s] \in Passwords \cup {Empty} /\ Accounts[s] = Account(s)
      BY <1>0, <1>5 DEF DeploySecret, CarriedFits, Values, Accounts
    <2>3. Account(s) \in {held[s], Absent} \/ held[s] = Empty
      <3>1. Account(s) \in Passwords \cup {Absent}
        BY <1>0, ConstantsAssumption DEF TypeOK, Account
      <3>2. Account(s) \in Passwords /\ held[s] \in Passwords => held[s] = Account(s)
        BY <1>0, <1>5, SoleSetter DEF DeploySecret, CarriedFits
      <3>3. QED
        BY <2>2, <3>1, <3>2
    <2>4. Register!Deploy(s)
      BY <2>1, <2>2, <2>3 DEF Register!Deploy
    <2>5. QED
      BY <2>4 DEF Register!Next
  <1>6. QED
    BY <1>1, <1>2, <1>3, <1>4, <1>5
       DEF Reconcile, CheckSecret, CheckUser, ValidatePasswordConsistency, FetchCredentials

\* What happens behind its back is a loss, or nothing the shoot sees.
LEMMA DisturbRefines ==
    ASSUME IInv, SoleOwners, NEW s \in Shoots, Disturb(s)
    PROVE  Register!Next \/ UNCHANGED Register!vars
  <1>0. TypeOK
    BY DEF IInv
  <1>1. CASE SecretDamaged(s)
    <2>1. PICK pw \in {Absent, Empty} : WriteSecret(s, pw)
      BY <1>1 DEF SecretDamaged
    <2>2. UNCHANGED <<home, account, deployed>>
      BY <1>1 DEF SecretDamaged
    <2>3. Secrets' = [Secrets EXCEPT ![s] = pw] /\ UNCHANGED <<Accounts, deployed>>
      BY <1>0, <2>1, <2>2, SeenSecret, SeenUnchanged DEF Values
    <2>4. QED
      BY <2>3 DEF Register!Next, Register!Lose
  <1>2. CASE AccountLost(s)
    <2>1. Accounts' = [Accounts EXCEPT ![s] = Absent] /\ UNCHANGED <<Secrets, deployed>>
      BY <1>0, <1>2, SeenAccount, SeenUnchanged DEF AccountLost
    <2>2. QED
      BY <2>1 DEF Register!Next, Register!Lose
  <1>3. CASE Interrupted(s)
    BY <1>3, SeenUnchanged DEF Interrupted, Register!vars
  <1>4. CASE MigrateAndRestore(s)
    <2>1. home[s] \in Seeds /\ \E d \in Seeds : d # home[s]
      BY <1>0, <1>4 DEF MigrateAndRestore, TypeOK
    <2>2. QED
      BY <2>1 DEF SoleOwners
  <1>5. CASE UsernameLost(s)
    BY <1>5, SeenUnchanged DEF UsernameLost, Register!vars
  <1>6. QED
    BY <1>1, <1>2, <1>3, <1>4, <1>5 DEF Disturb

\* Where no two shoots share an account and there is one seed, the user and
\* secret phase implements CredentialRegister.
THEOREM RefinesRegister == SoleOwners => (Spec => ImplementsRegister)
  <1>1. Init => Register!Init
    BY ConstantsAssumption DEF Init, Register!Init, Accounts, Account, Secrets, Secret
  <1>2. IInv /\ SoleOwners /\ [Next]_vars => [Register!Next]_(Register!vars)
    <2> SUFFICES ASSUME IInv, SoleOwners, [Next]_vars
                 PROVE  Register!Next \/ UNCHANGED Register!vars
      OBVIOUS
    <2>1. CASE \E s \in Shoots : Reconcile(s) \/ Disturb(s)
      BY <2>1, ReconcileRefines, DisturbRefines
    <2>2. CASE Switchover \/ UNCHANGED vars
      BY <2>2, SeenUnchanged DEF Switchover, vars, Register!vars
    <2>3. QED
      BY <2>1, <2>2 DEF Next
  <1> SUFFICES ASSUME SoleOwners PROVE Spec => ImplementsRegister
    OBVIOUS
  <1>3. IInv /\ [Next]_vars => [Register!Next]_(Register!vars)
    BY <1>2
  <1>4. QED
    BY <1>1, <1>3, Invariance, PTL DEF Spec, ImplementsRegister, Register!Spec

=============================================================================

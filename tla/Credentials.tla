----------------------------- MODULE Credentials -----------------------------
(***************************************************************************)
(* The user and secret phase of a reconciliation (pkg/trident/user.go) and *)
(* the hand-over of the credentials to the shoot (actuator.go, Reconcile   *)
(* after ensureSvmForProject).                                             *)
(*                                                                         *)
(* A shoot's credentials live in three places that no transaction spans:   *)
(* the ONTAP account of the project's SVM, the secret in kube-system of    *)
(* the seed, and the secret deployed into the shoot.  Each seed runs its   *)
(* own extension and has its own secrets, the ONTAP account is shared.     *)
(* One reconciliation per shoot is active at a time; it can stop between   *)
(* any two calls, and a call can take effect although its reply is lost.   *)
(***************************************************************************)
EXTENDS Naturals

CONSTANTS
    Shoots,     \* the shoots of one project; they share the project's SVM
    Seeds,      \* the seeds a shoot's control plane can live on
    Users,      \* ONTAP account names
    UserOf,     \* getClusterUsername: the account name of each shoot
    Passwords,  \* the passwords generateSecurePassword can return
    Absent,     \* no secret, no account, or nothing held
    Empty,      \* a secret whose password field is missing or empty
    FaultKinds, \* the disturbances a run allows
    MaxFaults   \* bound: how many disturbances a behaviour has

ASSUME ConstantsAssumption ==
    /\ UserOf \in [Shoots -> Users]
    /\ Absent \notin Passwords /\ Empty \notin Passwords /\ Absent # Empty
    /\ MaxFaults \in Nat

VARIABLES
    pc,         \* the call each shoot's reconciliation makes next
    held,       \* the password it carries from one call to the next
    home,       \* the seed each shoot lives on
    secret,     \* the passwords in the seed secrets: secret[d][s]
    nameless,   \* the <<d, s>> whose seed secret has lost its username
    account,    \* ONTAP accounts of the SVM and their passwords
    deployed,   \* the password in the secret deployed into the shoot
    runsAs,     \* the name the running SVM has: "project" or "project-mc"
    faults,     \* disturbances left
    setter      \* history: the <<seed, shoot>> that last set each account

seedSecrets == <<secret, nameless>>
vars == <<pc, held, home, seedSecrets, account, deployed, runsAs, faults, setter>>

Steps == {"idle", "checkUser", "validate", "createUser", "createBoth",
          "reset", "createSecret", "updateSecret", "fetch", "deploy"}

TypeOK ==
    /\ pc \in [Shoots -> Steps]
    /\ held \in [Shoots -> Passwords \cup {Absent, Empty}]
    /\ home \in [Shoots -> Seeds]
    /\ secret \in [Seeds -> [Shoots -> Passwords \cup {Absent, Empty}]]
    /\ nameless \in SUBSET (Seeds \X Shoots)
    /\ account \in [Users -> Passwords \cup {Absent}]
    /\ deployed \in [Shoots -> Passwords \cup {Absent, Empty}]
    /\ runsAs \in {"project", "project-mc"}
    /\ faults \in 0..MaxFaults
    /\ setter \in [Users -> (Seeds \X Shoots) \cup {Absent}]

Init ==
    /\ pc = [s \in Shoots |-> "idle"]
    /\ held = [s \in Shoots |-> Absent]
    /\ home \in [Shoots -> Seeds]
    /\ secret = [d \in Seeds |-> [s \in Shoots |-> Absent]]
    /\ nameless = {}
    /\ account = [u \in Users |-> Absent]
    /\ deployed = [s \in Shoots |-> Absent]
    /\ runsAs = "project"
    /\ faults = MaxFaults
    /\ setter = [u \in Users |-> Absent]

-----------------------------------------------------------------------------
(* What the steps are made of.                                             *)

Secret(s) == secret[home[s]][s]
Account(s) == account[UserOf[s]]

\* A disturbance of this kind may happen and is charged to the bound.
Fault(kind) == kind \in FaultKinds /\ faults > 0 /\ faults' = faults - 1

GoTo(s, step, pw) ==
    /\ pc' = [pc EXCEPT ![s] = step]
    /\ held' = [held EXCEPT ![s] = pw]

\* Reconcile returns: on success, on an error, or because the process died.
\* Nothing the reconciliation knew survives it.
Return(s) == GoTo(s, "idle", Absent)

\* The call took effect; its caller goes on, or never hears of it.
Applied(s, step, pw) ==
    \/ GoTo(s, step, pw) /\ UNCHANGED faults
    \/ Return(s) /\ Fault("lostReply")

\* MUTANT: a secret that exists counts, whatever its password field holds.
IsUsableAnySecret(pw) == pw # Absent

\* checkIfAccountExistsForSvm reports AlreadyExists only for a secret that
\* holds a non-empty password; any other secret counts as missing.
IsUsable(pw) == pw \in Passwords

SetPassword(s, pw) ==
    /\ account' = [account EXCEPT ![UserOf[s]] = pw]
    /\ setter' = [setter EXCEPT ![UserOf[s]] = <<home[s], s>>]

WriteSecret(s, pw) == secret' = [secret EXCEPT ![home[s]][s] = pw]

\* The secret is written with a username.
WithUsername(s) == nameless' = nameless \ {<<home[s], s>>}
Nameless(s) == <<home[s], s>> \in nameless

-----------------------------------------------------------------------------
(* validateAndEnsureCompleteUserState: what exists, then one of four ways. *)

CheckSecret(s) ==
    /\ pc[s] = "idle"
    /\ GoTo(s, "checkUser", Secret(s))
    /\ UNCHANGED <<home, seedSecrets, account, deployed, runsAs, faults, setter>>

\* MUTANT: with both in place, make them consistent by a reset.
NextStepAlwaysReset(pw, seen) ==
    IF seen THEN "reset" ELSE IF IsUsable(pw) THEN "createUser" ELSE "createBoth"

\* The way to go.  A mere negation of what was seen: a failed query has
\* seen nothing and is not told apart from an account that is missing.
NextStep(pw, seen) ==
    IF IsUsable(pw)
    THEN IF seen THEN "validate" ELSE "createUser"
    ELSE IF seen THEN "reset" ELSE "createBoth"

CheckUser(s) ==
    /\ pc[s] = "checkUser"
    /\ \/ /\ GoTo(s, NextStep(held[s], Account(s) # Absent), held[s])
          /\ UNCHANGED faults
       \/ /\ GoTo(s, NextStep(held[s], FALSE), held[s])
          /\ Fault("queryError")
    /\ UNCHANGED <<home, seedSecrets, account, deployed, runsAs, setter>>

\* The check is skipped: ONTAP cannot be asked for a password.
ValidatePasswordConsistency(s) ==
    /\ pc[s] = "validate"
    /\ GoTo(s, "fetch", Absent)
    /\ UNCHANGED <<home, seedSecrets, account, deployed, runsAs, faults, setter>>

\* MUTANT: an account that exists is as good as one created.
CreateAccountOrKeep(s, pw, step, carry) ==
    /\ IF Account(s) = Absent THEN SetPassword(s, pw) ELSE UNCHANGED <<account, setter>>
    /\ Applied(s, step, carry)

\* ONTAP refuses to create an account that exists.
CreateAccount(s, pw, step, carry) ==
    \/ /\ Account(s) = Absent
       /\ SetPassword(s, pw)
       /\ Applied(s, step, carry)
    \/ /\ Account(s) # Absent
       /\ Return(s)
       /\ UNCHANGED <<account, setter, faults>>

CreateONTAPUserWithPassword(s) ==
    /\ pc[s] = "createUser"
    /\ CreateAccount(s, held[s], "fetch", Absent)
    /\ UNCHANGED <<home, seedSecrets, deployed, runsAs>>

CreateCompleteUser(s) ==
    /\ pc[s] = "createBoth"
    /\ \E pw \in Passwords : CreateAccount(s, pw, "createSecret", pw)
    /\ UNCHANGED <<home, seedSecrets, deployed, runsAs>>

\* The account is addressed by the project's name, not by the UUID of the
\* SVM that was found.
ResetONTAPUserPassword(s) ==
    /\ pc[s] = "reset"
    /\ \/ /\ Account(s) # Absent /\ runsAs = "project"
          /\ \E pw \in Passwords :
                SetPassword(s, pw) /\ Applied(s, "createSecret", pw)
       \/ /\ Account(s) = Absent \/ runsAs # "project"
          /\ Return(s)
          /\ UNCHANGED <<account, setter, faults>>
    /\ UNCHANGED <<home, seedSecrets, deployed, runsAs>>

\* MUTANT: a secret in the way is an error.
CreateSecretOnce(s) ==
    /\ pc[s] = "createSecret"
    /\ \/ /\ Secret(s) = Absent
          /\ WriteSecret(s, held[s]) /\ WithUsername(s)
          /\ Applied(s, "fetch", Absent)
       \/ Secret(s) # Absent /\ Return(s) /\ UNCHANGED <<seedSecrets, faults>>
    /\ UNCHANGED <<home, account, deployed, runsAs, setter>>

\* buildAndCreateSecretInSeed
CreateSecret(s) ==
    /\ pc[s] = "createSecret"
    /\ \/ /\ Secret(s) = Absent
          /\ WriteSecret(s, held[s]) /\ WithUsername(s)
          /\ Applied(s, "fetch", Absent)
       \/ /\ Secret(s) # Absent
          /\ GoTo(s, "updateSecret", held[s])
          /\ UNCHANGED <<seedSecrets, faults>>
    /\ UNCHANGED <<home, account, deployed, runsAs, setter>>

\* updateSecretInSeed: the resource version makes its Get and its Update
\* one step; a change in between is an error (Interrupted).
UpdateSecret(s) ==
    /\ pc[s] = "updateSecret"
    /\ \/ /\ Secret(s) # Absent
          /\ WriteSecret(s, held[s]) /\ WithUsername(s)
          /\ Applied(s, "fetch", Absent)
       \/ /\ Secret(s) = Absent
          /\ GoTo(s, "createSecret", held[s])
          /\ UNCHANGED <<seedSecrets, faults>>
    /\ UNCHANGED <<home, account, deployed, runsAs, setter>>

-----------------------------------------------------------------------------
(* Reconcile, after the SVM: read the secret again and deploy it.          *)

\* A secret without a username is an error; an Empty one may lack the password
\* too (an error) or hold an empty one, which is deployed.
FetchCredentials(s) ==
    /\ pc[s] = "fetch"
    /\ \/ Secret(s) # Absent /\ ~Nameless(s) /\ GoTo(s, "deploy", Secret(s))
       \/ (Secret(s) \in {Absent, Empty} \/ Nameless(s)) /\ Return(s)
    /\ UNCHANGED <<home, seedSecrets, account, deployed, runsAs, faults, setter>>

DeploySecret(s) ==
    /\ pc[s] = "deploy"
    /\ deployed' = [deployed EXCEPT ![s] = held[s]]
    /\ Return(s)
    /\ UNCHANGED <<home, seedSecrets, account, runsAs, faults, setter>>

\* A call fails without effect, or the process stops.
Interrupted(s) ==
    /\ pc[s] # "idle"
    /\ Fault("failed")
    /\ Return(s)
    /\ UNCHANGED <<home, seedSecrets, account, deployed, runsAs, setter>>

-----------------------------------------------------------------------------
(* What happens to the three places behind the controller's back.          *)

\* Nothing protects the seed secret from deletion (comment in
\* buildAndCreateSecretInSeed) or from being edited.
SecretDamaged(s) ==
    /\ \/ Fault("secretDeleted") /\ WriteSecret(s, Absent)
       \/ /\ Secret(s) # Absent
          /\ Fault("secretEmptied")
          /\ WriteSecret(s, Empty)
    /\ UNCHANGED <<pc, held, home, nameless, account, deployed, runsAs, setter>>

\* An edit takes the username away and leaves the password: user.go finds the
\* secret in order, the actuator does not.
UsernameLost(s) ==
    /\ Secret(s) # Absent /\ Fault("usernameLost")
    /\ nameless' = nameless \cup {<<home[s], s>>}
    /\ UNCHANGED <<pc, held, home, secret, account, deployed, runsAs, setter>>

AccountLost(s) ==
    /\ Fault("accountLost")
    /\ account' = [account EXCEPT ![UserOf[s]] = Absent]
    /\ UNCHANGED <<pc, held, home, seedSecrets, deployed, runsAs, setter>>

\* Migrate does nothing on the old seed, Restore reconciles on the new one:
\* the old seed keeps its secret.
MigrateAndRestore(s) ==
    /\ pc[s] = "idle"
    /\ Fault("migrate")
    /\ \E d \in Seeds \ {home[s]} : home' = [home EXCEPT ![s] = d]
    /\ UNCHANGED <<pc, held, seedSecrets, account, deployed, runsAs, setter>>

\* A MetroCluster switchover: the SVM, with its accounts, runs under the
\* "-mc" name on the other cluster; a switchback undoes it.
Switchover ==
    /\ Fault("switchover")
    /\ runsAs' = IF runsAs = "project" THEN "project-mc" ELSE "project"
    /\ UNCHANGED <<pc, held, home, seedSecrets, account, deployed, setter>>

-----------------------------------------------------------------------------

Reconcile(s) ==
    \/ CheckSecret(s) \/ CheckUser(s)
    \/ ValidatePasswordConsistency(s)
    \/ CreateONTAPUserWithPassword(s) \/ CreateCompleteUser(s)
    \/ ResetONTAPUserPassword(s)
    \/ CreateSecret(s) \/ UpdateSecret(s)
    \/ FetchCredentials(s) \/ DeploySecret(s)

Disturb(s) ==
    \/ Interrupted(s) \/ SecretDamaged(s) \/ UsernameLost(s)
    \/ AccountLost(s) \/ MigrateAndRestore(s)

Next == (\E s \in Shoots : Reconcile(s) \/ Disturb(s)) \/ Switchover

Spec == Init /\ [][Next]_vars

\* A reconciliation goes on, one that failed is queued again, and gardenlet
\* asks for a new one from time to time.
FairSpec == Spec /\ \A s \in Shoots : WF_vars(Reconcile(s))

-----------------------------------------------------------------------------
(* Safety.                                                                 *)

\* A password in a seed secret is the one ONTAP has, whenever the shoot and
\* the seed of that secret were the last to set it: the two writes are not
\* atomic and each can be lost, yet they never leave two passwords behind.
LastSetterMatches ==
    \A d \in Seeds, s \in Shoots :
        /\ setter[UserOf[s]] = <<d, s>>
        /\ secret[d][s] \in Passwords
        /\ Account(s) \in Passwords
        => secret[d][s] = Account(s)

\* Every account with a password was given it by a shoot it belongs to.
SetByAnOwner ==
    \A u \in Users : account[u] \in Passwords =>
        \E d \in Seeds, s \in Shoots : UserOf[s] = u /\ setter[u] = <<d, s>>

\* Shoots with names of their own, on one seed, use nobody else's account.
SoleOwners ==
    /\ \A s, t \in Shoots : UserOf[s] = UserOf[t] => s = t
    /\ \A d, e \in Seeds : d = e

\* The secret in the seed and the ONTAP account never hold different
\* passwords, whatever is interrupted, lost or damaged, as long as no two
\* shoots share an account and no shoot changes its seed.
SecretMatchesAccount ==
    SoleOwners => \A s \in Shoots :
        Secret(s) \in Passwords /\ Account(s) \in Passwords
            => Secret(s) = Account(s)

\* What a reconciliation carries from call to call still fits what it will
\* be written next to when it gets there (held is read or generated several
\* calls, and possibly several disturbances, earlier).
CarriedFits(s) ==
    LET mine == setter[UserOf[s]] = <<home[s], s>> /\ Account(s) \in Passwords
    IN  /\ pc[s] = "checkUser" => Secret(s) \in {held[s], Absent, Empty}
        /\ pc[s] \in {"validate", "createUser"} =>
              /\ held[s] \in Passwords
              /\ Secret(s) \in {held[s], Absent, Empty}
        /\ pc[s] \in {"reset", "createBoth"} => Secret(s) \notin Passwords
        /\ pc[s] \in {"createSecret", "updateSecret"} =>
              /\ held[s] \in Passwords
              /\ Secret(s) \notin Passwords
              /\ mine => held[s] = Account(s)
        /\ pc[s] = "deploy" =>
              /\ held[s] # Absent
              /\ held[s] \in Passwords /\ mine => held[s] = Account(s)

CarriedPasswordFits == \A s \in Shoots : CarriedFits(s)

IInv == TypeOK /\ LastSetterMatches /\ SetByAnOwner /\ CarriedPasswordFits

\* A reconciliation never replaces credentials that work: while the secret
\* and the account agree, no step gives either of them another password.
NeverRotatesWorkingPassword ==
    [][\A s \in Shoots :
          /\ SoleOwners
          /\ Secret(s) \in Passwords /\ Secret(s) = Account(s)
          => /\ secret'[home[s]][s] \in {Secret(s), Absent, Empty}
             /\ account'[UserOf[s]] \in {Account(s), Absent}]_vars

\* What reaches the shoot opens the account: no step deploys a password
\* that is not the account's, unless the account is gone altogether.
DeploysWorkingPassword ==
    [][\A s \in Shoots :
          /\ SoleOwners
          /\ deployed'[s] # deployed[s]
          /\ deployed'[s] \in Passwords /\ Account(s) \in Passwords
          => deployed'[s] = Account(s)]_vars

\* "validatePasswordConsistency ensures ONTAP and K8s passwords match"
\* (comment at user.go:260): past it, the two are equal.
PasswordConsistencyEnsured ==
    [][\A s \in Shoots :
          ValidatePasswordConsistency(s) /\ Account(s) \in Passwords
          => held[s] = Account(s)]_vars

\* What a shoot with an account of its own sees of all this.
Accounts == [s \in Shoots |-> Account(s)]
Secrets == [s \in Shoots |-> Secret(s)]
Register == INSTANCE CredentialRegister WITH account <- Accounts, secret <- Secrets

\* Crashes, lost replies and calls to two systems included, a reconciliation
\* only ever sets a new password, restores an account, publishes to the seed
\* or deploys to the shoot, under the conditions of CredentialRegister.
ImplementsRegister == Register!Spec

-----------------------------------------------------------------------------
(* Liveness.                                                               *)

\* After the last disturbance, unless the SVM stays under its -mc name, every
\* shoot ends up with one password in the account, in the seed and in the
\* shoot.  Only a username that was lost alone keeps a shoot from it: nobody
\* writes a secret again whose password is there.
CredentialsHeal ==
    <>[](runsAs = "project") =>
        \A s \in Shoots :
            <>[]~Nameless(s) =>
                <>[](/\ Secret(s) \in Passwords
                     /\ Account(s) = Secret(s)
                     /\ deployed[s] = Secret(s))

\* README, Reconcile State Matrix: with an SVM, its LIFs and its user in
\* place and no secret, "Reset ONTAP password + Create K8s secret".
MissingSecretIsRecreated ==
    \A s \in Shoots :
        (Account(s) \in Passwords /\ Secret(s) = Absent)
            ~> (Secret(s) \in Passwords \/ Account(s) = Absent)

=============================================================================

\* One shoot on one seed: nothing but the controller sets its passwords.
CONSTANTS
    s1 = s1
    s2 = s2
    u1 = u1
    Absent = Absent
    Empty = Empty
    Shoots = {s1}
    Seeds = {d1}
    Users = {u1}
    UserOf <- OneShoot
    Passwords = {p1, p2, p3}
    FaultKinds = {"lostReply", "failed", "queryError", "secretDeleted", "secretEmptied", "usernameLost",
                  "accountLost", "switchover"}
    MaxFaults = 4
SPECIFICATION FairSpec
INVARIANTS
    SecretMatchesAccount
PROPERTIES
    NeverRotatesWorkingPassword
    DeploysWorkingPassword
    ImplementsRegister
    CredentialsHeal

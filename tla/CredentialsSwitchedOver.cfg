\* The seed secret is lost while the SVM runs under its -mc name.
CONSTANTS
    s1 = s1
    s2 = s2
    u1 = u1
    Absent = Absent
    Empty = Empty
    Shoots = {s1}
    Seeds = {d1}
    Users = {u1}
    UserOf <- OneShoot
    Passwords = {p1, p2, p3}
    FaultKinds = {"secretDeleted", "switchover"}
    MaxFaults = 2
SPECIFICATION FairSpec
PROPERTIES
    MissingSecretIsRecreated

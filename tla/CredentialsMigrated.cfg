\* A shoot that migrates to another seed and back.
CONSTANTS
    s1 = s1
    s2 = s2
    u1 = u1
    Absent = Absent
    Empty = Empty
    Shoots = {s1}
    Seeds = {d1, d2}
    Users = {u1}
    UserOf <- OneShoot
    Passwords = {p1, p2}
    FaultKinds = {"migrate"}
    MaxFaults = 2
SPECIFICATION Spec
PROPERTIES
    PasswordConsistencyEnsured

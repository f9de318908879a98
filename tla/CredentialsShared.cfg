\* Two shoots on two seeds share an ONTAP account, for their names are cut;
\* everything may happen.  Names of more projects and namespaces.
CONSTANTS
    s1 = s1
    s2 = s2
    u1 = u1
    Absent = Absent
    Empty = Empty
    Shoots = {s1, s2}
    Seeds = {d1, d2}
    Characters = {"-", "p", "s", "1", "2", "credentials"}
    ProjectIds <- SomeIds
    Namespaces <- SomeNamespaces
    Limit = 2
    Users <- NamedUsers
    UserOf <- NamedUser
    Passwords = {p1, p2}
    FaultKinds = {"lostReply", "failed", "queryError", "secretDeleted", "secretEmptied", "usernameLost",
                  "accountLost", "migrate", "switchover"}
    MaxFaults = 3
SPECIFICATION Spec
INVARIANTS
    TypeOK
    LastSetterMatches
    IInv
    AccountsMeetOntap
    SecretsAreApart
    AccountsAreApart
SYMMETRY SharedSymmetry

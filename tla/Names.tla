--------------------------------- MODULE Names ---------------------------------
(***************************************************************************)
(* The names under which a shoot is known elsewhere, all made from its     *)
(* metal-stack project ID and the namespace of its control plane: the SVM  *)
(* and the seed secret (pkg/controller/ontap/actuator.go), and the account *)
(* on the SVM (pkg/trident/user.go).  Nothing else keeps the shoots apart. *)
(*                                                                         *)
(* A name is a sequence of characters; the prefix shoot-- of a namespace   *)
(* is a flag, since the code only asks for it and takes it off.            *)
(***************************************************************************)
EXTENDS Naturals, Sequences, FiniteSets

CONSTANTS
    Characters,   \* those of names; the word credentials counts as one
    ProjectIds,   \* what the annotation of a shoot may say
    Namespaces,   \* [technical : BOOLEAN, rest : sequence], rest after shoot--
    Limit         \* the length to which accounts are cut, 25 in the code

Hyphen == "-"
Separator == <<Hyphen, Hyphen>>

Text == Seq(Characters)

ASSUME NamesAssumption ==
    /\ Limit \in Nat \ {0}
    /\ {Hyphen, "p", "s", "credentials"} \subseteq Characters
    /\ ProjectIds \subseteq Text
    /\ Namespaces \subseteq [technical : BOOLEAN, rest : Text]

\* MUTANT: the project ID as it is.
SvmNameWithHyphens(id) == <<"p">> \o id

\* What is left of a project ID without its hyphens, and how much of that
\* there is up to a place.
Kept(id) == {i \in 1..Len(id) : id[i] # Hyphen}
Rank(id, i) == Cardinality({k \in Kept(id) : k <= i})

\* A project ID without its hyphens, behind a letter.
SvmName(id) ==
    <<"p">> \o [k \in 1..Cardinality(Kept(id)) |->
                   id[CHOOSE i \in Kept(id) : Rank(id, i) = k]]

\* "<svm>-<namespace>-credentials".
SecretName(svm, rest) == svm \o <<Hyphen>> \o rest \o <<Hyphen, "credentials">>

Separators(rest) == {i \in 1..(Len(rest) - 1) : SubSeq(rest, i, i + 1) = Separator}

\* strings.Cut: what follows the first separator.
ShootName(rest) ==
    LET first == CHOOSE i \in Separators(rest) : \A k \in Separators(rest) : i <= k
    IN  SubSeq(rest, first + 2, Len(rest))

NamesAShoot(namespace) ==
    /\ namespace.technical /\ Separators(namespace.rest) # {}
    /\ ShootName(namespace.rest) # <<>>

\* MUTANT: a hyphen at the front is kept.
UsernameAsItBegins(shoot) == SubSeq(shoot, 1, IF Len(shoot) > Limit THEN Limit ELSE Len(shoot))

\* MUTANT: one character less than the limit.
UsernameBelowLimit(shoot) ==
    LET started == IF Head(shoot) = Hyphen THEN <<"s">> \o Tail(shoot) ELSE shoot
    IN  SubSeq(started, 1, IF Len(started) >= Limit THEN Limit - 1 ELSE Len(started))

\* getClusterUsername of a shoot's name.
Username(shoot) ==
    LET started == IF Head(shoot) = Hyphen THEN <<"s">> \o Tail(shoot) ELSE shoot
    IN  SubSeq(started, 1, IF Len(started) > Limit THEN Limit ELSE Len(started))

\* The account of a shoot, for a namespace that is one.
AccountName(namespace) == Username(ShootName(namespace.rest))

--------------------------------------------------------------------------------
(* What the names must achieve, for all IDs and namespaces at once.  An ID *)
(* that is missing and a namespace that is not a shoot's end in an error   *)
(* before there is an account or a secret.                                 *)

Ids == ProjectIds \ {<<>>}
ShootSpaces == {namespace \in Namespaces : NamesAShoot(namespace)}

\* Every account that the code asks for fits what user.go:72 says of ONTAP: it
\* is not empty, does not begin with a hyphen and is not too long, whatever
\* the namespace.
AccountNamesFit ==
    \A namespace \in ShootSpaces :
        LET account == AccountName(namespace)
        IN  Len(account) \in 1..Limit /\ Head(account) # Hyphen

\* No two shoots of a seed share a secret, be they of one project or of two,
\* even where the IDs and the namespaces have hyphens in places that would
\* let one combination read like another (%s-%s-credentials, user.go:24).
SecretNamesDiffer ==
    \A m, n \in ShootSpaces : m # n =>
        \A i, j \in Ids : SecretName(SvmName(i), m.rest) # SecretName(SvmName(j), n.rest)

Ordinary(shoot) == Len(shoot) <= Limit /\ Head(shoot) # Hyphen
ProjectPart(rest) == SubSeq(rest, 1, Len(rest) - Len(ShootName(rest)))

\* Two shoots that one Gardener project has under different names share no
\* account, as long as the names are no longer than the limit and begin with
\* something else than a hyphen.  (Credentials shows what sharing does.)
AccountNamesDiffer ==
    \A m, n \in ShootSpaces :
        /\ m # n /\ ProjectPart(m.rest) = ProjectPart(n.rest)
        /\ Ordinary(ShootName(m.rest)) /\ Ordinary(ShootName(n.rest))
        => AccountName(m) # AccountName(n)

=============================================================================

--------------------------- MODULE MCSharedAccount ---------------------------
(* Credentials with accounts named by Names: two shoots whose names differ *)
(* only behind the limit.                                                  *)
EXTENDS MCCredentials, Names

Strings(n) == UNION {[1..k -> {"-", "s"}] : k \in 0..n}

\* Hyphens in all places.
SomeIds == {<<>>, <<"s">>, <<"s", "s">>, <<"s", "-", "s">>, <<"s", "-", "-", "s">>}

\* A project of up to two characters and a shoot of up to three, other
\* strings, and the namespace of something else.
SomeNamespaces ==
    {[technical |-> TRUE, rest |-> p \o Separator \o n] : p \in Strings(2), n \in Strings(3)}
    \cup {[technical |-> TRUE, rest |-> r] : r \in Strings(2)}
    \cup {[technical |-> FALSE, rest |-> <<"s", "-", "-", "s">>]}

NamespaceOf(s) ==
    [technical |-> TRUE,
     rest |-> <<"p", "-", "-", "s", "s">> \o IF s = s1 THEN <<"1">> ELSE <<"2">>]
NamedUser == [s \in {s1, s2} |-> AccountName(NamespaceOf(s))]
NamedUsers == {NamedUser[s] : s \in {s1, s2}}

\* The names do not depend on the state, so Init is where to compare them.

\* Every account that user.go asks for is one that ONTAP accepts.
AccountsMeetOntap == Init => AccountNamesFit

\* The seed secrets of two shoots, whatever their projects, are two objects.
SecretsAreApart == Init => SecretNamesDiffer

\* Shoots of a Gardener project have one account each unless a name is cut or
\* begins with a hyphen.
AccountsAreApart == Init => AccountNamesDiffer
=============================================================================

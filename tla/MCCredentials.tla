--------------------------- MODULE MCCredentials ---------------------------
(* Instances of Credentials for TLC.                                       *)
EXTENDS Credentials, TLC

CONSTANTS s1, s2, u1

OneShoot == s1 :> u1

PasswordSymmetry == Permutations(Passwords)
SharedSymmetry == PasswordSymmetry \cup Permutations(Seeds)
=============================================================================

-------------------------- MODULE CredentialRegister --------------------------
(***************************************************************************)
(* What the user and secret phase promises a shoot that has an ONTAP       *)
(* account of its own: one password, kept in three places that get it one  *)
(* after the other.  Any place can lose it; the rest says what may fill a  *)
(* place again, and with what.  Credentials implements this.               *)
(***************************************************************************)
CONSTANTS
    Shoots,
    Passwords,
    Absent,    \* nothing there
    Empty      \* a secret without a password

VARIABLES
    account,   \* the password of each shoot's ONTAP account
    secret,    \* the password in its seed secret
    deployed   \* the password in the shoot

vars == <<account, secret, deployed>>

Usable(pw) == pw \in Passwords

Init ==
    /\ account = [s \in Shoots |-> Absent]
    /\ secret = [s \in Shoots |-> Absent]
    /\ deployed = [s \in Shoots |-> Absent]

\* A new password is set only when nobody could know the old one.
Renew(s) ==
    /\ ~Usable(secret[s])
    /\ \E pw \in Passwords : account' = [account EXCEPT ![s] = pw]
    /\ UNCHANGED <<secret, deployed>>

\* A lost account comes back with the password that the secret kept.
Restore(s) ==
    /\ Usable(secret[s]) /\ account[s] = Absent
    /\ account' = [account EXCEPT ![s] = secret[s]]
    /\ UNCHANGED <<secret, deployed>>

\* A secret without a password is given the account's, unless that was lost
\* meanwhile.
Publish(s) ==
    /\ ~Usable(secret[s])
    /\ \E pw \in Passwords :
          /\ account[s] \in {pw, Absent}
          /\ secret' = [secret EXCEPT ![s] = pw]
    /\ UNCHANGED <<account, deployed>>

\* The shoot is given the account's password, or an emptied secret.
Deploy(s) ==
    /\ \E pw \in Passwords \cup {Empty} :
          /\ account[s] \in {pw, Absent} \/ pw = Empty
          /\ deployed' = [deployed EXCEPT ![s] = pw]
    /\ UNCHANGED <<account, secret>>

\* Somebody deletes or empties a secret, or deletes an account.
Lose(s) ==
    /\ \/ /\ account' = [account EXCEPT ![s] = Absent]
          /\ UNCHANGED secret
       \/ /\ \E pw \in {Absent, Empty} : secret' = [secret EXCEPT ![s] = pw]
          /\ UNCHANGED account
    /\ UNCHANGED deployed

Next == \E s \in Shoots : Renew(s) \/ Restore(s) \/ Publish(s) \/ Deploy(s) \/ Lose(s)

Spec == Init /\ [][Next]_vars

=============================================================================

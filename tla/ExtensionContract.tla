--------------------------- MODULE ExtensionContract ---------------------------
(***************************************************************************)
(* What the controller of Extensions promises, wherever it fails, stops    *)
(* and starts again: only a reconciliation, begun for an Extension that is *)
(* wanted, gives its shoot anything; only a deletion, begun for one that   *)
(* is not, takes it back; and the Extension goes with the last of it.      *)
(* Actuator implements this for the shoots of a project, with Trident's    *)
(* resources as one part; Deployment for one shoot, resource by resource.  *)
(***************************************************************************)
CONSTANTS
    Shoots,
    Parts       \* what an Extension may give its shoot

VARIABLES
    extension,  \* each shoot's Extension: "wanted", "deleting", "none" or "left"
    work,       \* what is done for it: "nothing", "reconcile" or "delete"
    given       \* what it has given, and not asked back

vars == <<extension, work, given>>

Init ==
    /\ extension = [s \in Shoots |-> "wanted"]
    /\ work = [s \in Shoots |-> "nothing"]
    /\ given = [s \in Shoots |-> {}]

Begin(s) ==
    /\ work[s] = "nothing"
    /\ \/ extension[s] = "wanted" /\ work' = [work EXCEPT ![s] = "reconcile"]
       \/ extension[s] = "deleting" /\ work' = [work EXCEPT ![s] = "delete"]
    /\ UNCHANGED <<extension, given>>

\* Done, or an error.
End(s) ==
    /\ work' = [work EXCEPT ![s] = "nothing"]
    /\ UNCHANGED <<extension, given>>

\* The Extension may have been disabled meanwhile; it cannot be gone.
Give(s) ==
    /\ work[s] = "reconcile" /\ extension[s] \in {"wanted", "deleting"}
    /\ \E p \in Parts : given' = [given EXCEPT ![s] = @ \cup {p}]
    /\ work' = work \/ work' = [work EXCEPT ![s] = "nothing"]
    /\ UNCHANGED extension

Take(s) ==
    /\ work[s] = "delete" /\ extension[s] = "deleting"
    /\ \E p \in Parts : given' = [given EXCEPT ![s] = @ \ {p}]
    /\ UNCHANGED <<extension, work>>

\* The last is taken, and the Extension goes.
Vanish(s) ==
    /\ work[s] = "delete" /\ extension[s] = "deleting"
    /\ \E p \in Parts : given[s] \subseteq {p}
    /\ given' = [given EXCEPT ![s] = {}]
    /\ extension' = [extension EXCEPT ![s] = "none"]
    /\ work' = [work EXCEPT ![s] = "nothing"]

\* It is handed to others, with all it has given.
LetGo(s) ==
    /\ work[s] = "nothing" /\ extension[s] \in {"wanted", "deleting"}
    /\ extension' = [extension EXCEPT ![s] = "left"]
    /\ UNCHANGED <<work, given>>

\* Its owner enables or disables it.
Toggle(s) ==
    /\ \/ extension[s] \in {"none", "left"} /\ extension' = [extension EXCEPT ![s] = "wanted"]
       \/ extension[s] = "wanted" /\ extension' = [extension EXCEPT ![s] = "deleting"]
    /\ UNCHANGED <<work, given>>

\* The controller stops, and all its work with it.
Stop ==
    /\ work' = [s \in Shoots |-> "nothing"]
    /\ UNCHANGED <<extension, given>>

Next ==
    \/ \E s \in Shoots :
          \/ Begin(s) \/ End(s) \/ Give(s) \/ Take(s) \/ Vanish(s)
          \/ LetGo(s) \/ Toggle(s)
    \/ Stop

Spec == Init /\ [][Next]_vars

=============================================================================

----------------------------- MODULE ProjectService -----------------------------
(***************************************************************************)
(* What EnsureCompleteSVM promises a project, however it finds, creates    *)
(* and completes SVMs: no new one for a shoot that has a steady one to     *)
(* find, as long as no call fails there, and success only with an SVM that *)
(* was given all it needs.  A failed call may hide the SVMs of one cluster *)
(* from one shoot, which may then double them.  What an SVM has been given *)
(* only ONTAP can take from it.  SvmManager implements this.               *)
(***************************************************************************)
EXTENDS Naturals

CONSTANTS
    Shoots,    \* the shoots of one project
    Clients,   \* the clusters
    Svms,      \* the SVMs it may have there, each a cluster and a name
    Lifs,      \* the LIFs that make an SVM complete
    None,      \* no SVM
    MaxFaults  \* how many failures there can be

VARIABLES
    phase,     \* of each SVM: "absent", "off", "on" or "standby"
    lifs,      \* the LIFs each SVM has
    lost,      \* those that ONTAP lost and nobody has created again
    users,     \* the shoots that have a user on it
    up,        \* the clusters that answer
    asking,    \* the shoots that wait for an SVM
    watched,   \* for each of them the SVMs that have been steady since it asked,
               \* and that it has not overlooked
    served,    \* the SVM that each shoot was last given
    failures   \* how many there can still be

configuration == <<lifs, lost, users>>
vars == <<phase, configuration, up, asking, watched, served, failures>>

Given(id) == lifs[id] \cup lost[id]
IsPassive(id) == phase[id] \in {"absent", "standby"}

Init ==
    /\ phase = [id \in Svms |-> "absent"]
    /\ lifs = [id \in Svms |-> {}]
    /\ lost = [id \in Svms |-> {}]
    /\ users = [id \in Svms |-> {}]
    /\ up = Clients
    /\ asking = {}
    /\ watched = [s \in Shoots |-> {}]
    /\ served = [s \in Shoots |-> None]
    /\ failures = MaxFaults

-----------------------------------------------------------------------------

Request(s) ==
    /\ s \notin asking
    /\ asking' = asking \cup {s}
    /\ watched' = [watched EXCEPT ![s] = {id \in Svms : phase[id] = "on"}]
    /\ UNCHANGED <<phase, configuration, up, served>>

Leave(s) ==
    /\ asking' = asking \ {s}
    /\ watched' = [watched EXCEPT ![s] = {}]

\* Whoever fails asks again.
GiveUp(s) ==
    /\ s \in asking
    /\ Leave(s)
    /\ UNCHANGED <<phase, configuration, up, served>>

\* A failure hides SVMs on a cluster that answers.  One that does not answer
\* hides nothing: no SVM is created then.
Overlook(s) ==
    /\ s \in asking /\ failures' < failures
    /\ \E c \in Clients : \E ids \in SUBSET {id \in Svms : id[1] = c /\ c \in up} :
          watched' = [watched EXCEPT ![s] = @ \ ids]
    /\ UNCHANGED <<phase, configuration, up, asking, served>>

\* What was asked for is done, but its reply may get lost.
Replied(s) == UNCHANGED <<asking, watched>> \/ Leave(s)

\* Nothing that has been running for this long is doubled, unless it has been
\* overlooked.
Create(s) ==
    /\ s \in asking /\ watched[s] = {}
    /\ \E id \in Svms :
          /\ phase[id] = "absent" /\ id[1] \in up
          /\ phase' = [phase EXCEPT ![id] = "off"]
    /\ Replied(s)
    /\ UNCHANGED <<configuration, up, served>>

\* One LIF that is not there is added, to an SVM that can be changed.
AddLif(s) ==
    /\ s \in asking
    /\ \E id \in Svms : \E l \in Lifs \ lifs[id] :
          /\ ~IsPassive(id) /\ id[1] \in up
          /\ lifs' = [lifs EXCEPT ![id] = @ \cup {l}]
          /\ lost' = [lost EXCEPT ![id] = @ \ {l}]
    /\ Replied(s)
    /\ UNCHANGED <<phase, users, up, served>>

\* Success, with an SVM that was given all its LIFs.  On the passive half of
\* a MetroCluster SVM only a user that is there already will do.
Serve(s) ==
    /\ s \in asking
    /\ \E id \in Svms :
          /\ Given(id) = Lifs /\ id[1] \in up
          /\ ~IsPassive(id) \/ s \in users[id]
          /\ users' = [users EXCEPT ![id] = @ \cup {s}]
          /\ served' = [served EXCEPT ![s] = id]
    /\ Leave(s)
    /\ UNCHANGED <<phase, lifs, lost, up>>

-----------------------------------------------------------------------------

Unsteady(ids) == watched' = [s \in Shoots |-> watched[s] \ ids]

Start(id) ==
    /\ phase[id] = "off"
    /\ phase' = [phase EXCEPT ![id] = "on"]
    /\ UNCHANGED <<configuration, up, asking, watched, served>>

Stop(id) ==
    /\ phase[id] = "on"
    /\ phase' = [phase EXCEPT ![id] = "off"]
    /\ Unsteady({id})
    /\ UNCHANGED <<configuration, up, asking, served>>

Lose(id) ==
    /\ \E l \in lifs[id] :
          /\ lifs' = [lifs EXCEPT ![id] = @ \ {l}]
          /\ lost' = [lost EXCEPT ![id] = @ \cup {l}]
    /\ UNCHANGED <<phase, users, up, asking, watched, served>>

ComeOrGo(c) ==
    /\ up' = (up \ {c}) \cup ({c} \ up)
    /\ Unsteady({id \in Svms : id[1] = c})
    /\ UNCHANGED <<phase, configuration, asking, served>>

\* A switchover, or back, leaves behind nothing that the other half was
\* given.
Move(from) ==
    /\ phase[from] = "on"
    /\ \E to \in Svms :
          /\ IsPassive(to)
          /\ Given(to) \subseteq Given(from) /\ users[to] \subseteq users[from]
          /\ phase' = [phase EXCEPT ![from] = "standby", ![to] = "on"]
          /\ lifs' = [lifs EXCEPT ![to] = lifs[from]]
          /\ lost' = [lost EXCEPT ![to] = lost[from]]
          /\ users' = [users EXCEPT ![to] = users[from]]
          /\ Unsteady({from, to})
    /\ UNCHANGED <<up, asking, served>>

Step ==
    \/ \E s \in Shoots : \/ Request(s) \/ GiveUp(s) \/ Overlook(s)
                         \/ Create(s) \/ AddLif(s) \/ Serve(s)
    \/ \E id \in Svms : Start(id) \/ Stop(id) \/ Lose(id) \/ Move(id)
    \/ \E c \in Clients : ComeOrGo(c)

\* Any of them may come with a failure.
Next == Step /\ failures' \in 0..failures

Spec == Init /\ [][Next]_vars

=============================================================================

------------------------------ MODULE MCInterfaces ------------------------------
(* Instances of Interfaces for TLC.                                        *)
EXTENDS Interfaces, TLC

TwoNodes == <<"node1", "node2">>

\* Two data LIFs; three, some of whose addresses are others of the first.
Plain == [data |-> <<"a", "b">>, mgmt |-> "m"]
Swapped == [data |-> <<"b", "a", "c">>, mgmt |-> "m"]

\* Addresses that are in use by the configuration itself or elsewhere, and
\* configurations that are not valid.
Twice == [data |-> <<"c", "c">>, mgmt |-> "m"]
Elsewhere == [data |-> <<"x">>, mgmt |-> "m"]
NoAddress == [data |-> <<"a", "nonsense">>, mgmt |-> "m"]
NoData == [data |-> <<>>, mgmt |-> "m"]

Quarrel == {Plain, Swapped, Twice, Elsewhere, NoAddress, NoData}

AllAddresses == {"a", "b", "c", "m", "x"}
=============================================================================

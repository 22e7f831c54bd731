--------------------------- MODULE MCClusterNodes --------------------------
(* ClusterNodes for TLC: the hosts of the nodes. *)
EXTENDS ClusterNodes

\* Six nodes on at most three hosts, those of a host next to each other.
Blocks == {ips \in [1..6 -> 1..3] :
            ips[1] = 1 /\ \A i \in 2..6 : ips[i] - ips[i - 1] \in {0, 1}}

\* A create with one fault.
Created(ips, replicas) ==
    [ips |-> ips, replicas |-> replicas, spare |-> 0, members |-> 0, faults |-> 1]

\* Three masters, and nodes that join them.
Joining(ips, commands, failures) ==
    [ips |-> ips, replicas |-> 0, spare |-> Len(ips) - 3, members |-> commands, faults |-> failures]

MCLayouts ==
    {Created(ips, 1) : ips \in Blocks \cup {<<1, 2, 1, 2, 1, 2>>, <<1, 2, 3, 3, 2, 1>>}}
    \cup {Created(<<1, 1, 1, 2, 2, 3, 3>>, 1), Created(<<1, 2, 1, 2>>, 1),
          Created(<<1, 2, 3, 1>>, 0), Created(<<1, 1, 2, 2, 3>>, 0)}
    \cup {Joining(<<1, 2, 3, 1, 2>>, 3, 0), Joining(<<1, 2, 3, 1>>, 2, 1)}
=============================================================================

--------------------------- MODULE MCClusterSlots --------------------------
(* ClusterSlots for TLC: the commands an operator runs. *)
EXTENDS ClusterSlots

ReshardTo(dst, from) == [Idle EXCEPT !.name = "reshard", !.dst = dst, !.from = from,
                                     !.count = 1]
Fix(owners, replace) == [Idle EXCEPT !.name = "fix", !.fix = TRUE, !.owners = owners,
                                     !.replace = replace]

Rebalance_(weight, useEmpty) == [Idle EXCEPT !.name = "rebalance", !.weight = weight,
                                             !.useEmpty = useEmpty]

MCKey == {<<0, 1>>, <<0, 2>>}
MCOwners == {[s \in {0, 1} |-> IF s = 0 THEN a[1] ELSE a[2]] : a \in {<<1, 1>>, <<2, 1>>}}
MCCommands == {ReshardTo(2, {1}), ReshardTo(3, {1, 2})}
              \cup {Fix(TRUE, FALSE), Fix(FALSE, TRUE)}
              \cup {Rebalance_(<<1, 1, 1>>, FALSE), Rebalance_(<<1, 2, 1>>, TRUE)}
=============================================================================

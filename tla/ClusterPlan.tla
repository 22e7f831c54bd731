---------------------------- MODULE ClusterPlan ----------------------------
(***************************************************************************)
(* The plans of redis-cli --cluster (redis-cli.c) for slots that move: which *)
(* slots a reshard takes from which source, and how many slots a rebalance   *)
(* moves.                                                                  *)
(***************************************************************************)
EXTENDS Integers, Sequences, SequencesExt, FiniteSetsExt

CeilDiv(a, b) == (a + b - 1) \div b

\* clusterManagerComputeReshardTable: the slots to take from the sources, in
\* proportion to what they own, the largest source first; its share is rounded
\* up and the others down.
ComputeReshardTable(sources, numslots, slotsOf) ==
    LET count(n) == Cardinality(slotsOf[n])
        sorted == SortSeq(sources, LAMBDA m, n : count(m) > count(n))
        tot == FoldLeft(LAMBDA sum, n : sum + count(n), 0, sources)
        share(i) == IF tot = 0 THEN 0
                    ELSE IF i = 1 THEN CeilDiv(numslots * count(sorted[i]), tot)
                    ELSE (numslots * count(sorted[i])) \div tot
        take(moved, i) ==
            LET slots == SetToSortSeq(slotsOf[sorted[i]], <)
                room == numslots - Len(moved)
                max == Min({share(i), room, Len(slots)})
            IN moved \o [j \in 1..max |-> <<sorted[i], slots[j]>>]
    IN FoldLeft(take, <<>>, [i \in 1..Len(sorted) |-> i])

-----------------------------------------------------------------------------
(* clusterManagerCommandRebalance                                          *)

Abs(x) == IF x < 0 THEN -x ELSE x

\* (int)(CLUSTER_MANAGER_SLOTS / total_weight * n->weight)
ExpectedSlots(involved, weight, numslots) ==
    LET total == FoldLeft(LAMBDA sum, n : sum + weight[n], 0, involved)
    IN [n \in ToSet(involved) |-> (numslots * weight[n]) \div total]

\* The difference to the expected number exceeds "threshold" per cent.
OverThreshold(count, expected, threshold) ==
    /\ threshold > 0
    /\ IF count > 0 THEN Abs(100 * (count - expected)) > threshold * count
       ELSE expected > 1

\* Mutant: what rounding leaves over stays where it is.
BalancesRounded(involved, count, expected) ==
    [n \in ToSet(involved) |-> count[n] - expected[n]]

\* The surplus of every node; what rounding leaves is taken, one slot at a time
\* and in the order of the list, by the nodes that have none.
Balances(involved, count, expected) ==
    LET raw == [n \in ToSet(involved) |-> count[n] - expected[n]]
        total == FoldLeft(LAMBDA sum, n : sum + raw[n], 0, involved)
        takers == SelectSeq(involved, LAMBDA n : raw[n] <= 0)
        taken(n) == IF total > 0 /\ raw[n] <= 0
                    THEN (total + Len(takers) - SelectInSeq(takers, LAMBDA m : m = n))
                            \div Len(takers)
                    ELSE 0
    IN [n \in ToSet(involved) |-> raw[n] - taken(n)]

\* qsort: the orders of S by increasing balance.
SortedBy(S, balance) ==
    {sn \in SetToSeqs(S) : \A i, j \in 1..Len(sn) : i < j => balance[sn[i]] <= balance[sn[j]]}
=============================================================================

--------------------------- MODULE ClusterLayout ---------------------------
(***************************************************************************)
(* The plan of redis-cli --cluster create (redis-cli.c): which nodes become  *)
(* masters, which slots they serve, whom the other nodes replicate, and how  *)
(* far replicas share a host with their master.                             *)
(***************************************************************************)
EXTENDS Integers, Sequences, FiniteSetsExt

CONSTANTS
    One,        \* the units in 1 (2^23 for the floats of C)
    Spacings    \* the distances of floats that are 1 or larger, in units (1, 2, 4, ...)

ASSUME FloatAssumption ==
    /\ One \in Nat \ {0}
    /\ Spacings \subseteq Nat \ {0}
    /\ \A q \in Spacings : One % q = 0

\* The first place of x in the list s; 0 when x is not in it.
PlaceIn(s, x) ==
    LET places == {i \in 1..Len(s) : s[i] = x}
    IN IF places # {} THEN Min(places) ELSE 0

\* The list s without x.
Without(s, x) == SubSeq(s, 1, PlaceIn(s, x) - 1) \o SubSeq(s, PlaceIn(s, x) + 1, Len(s))

-----------------------------------------------------------------------------
(* clusterManagerCommandCreate: nodes are 1..Len(ips), in the order of the  *)
(* command line; ips[n] is the address of n's host.                         *)

\* The first node of n's host, and the number of nodes of that host before n.
HostOf(ips, n) == Min({m \in 1..n : ips[m] = ips[n]})
RoundOf(ips, n) == Cardinality({m \in 1..(n - 1) : ips[m] = ips[n]})

\* Node m is taken before node n.
TakenBefore(ips, m, n) ==
    \/ RoundOf(ips, m) < RoundOf(ips, n)
    \/ RoundOf(ips, m) = RoundOf(ips, n) /\ HostOf(ips, m) < HostOf(ips, n)

\* The nodes taken from their hosts in turn, the hosts in the order in which they
\* are first named.
InterleaveHosts(ips) ==
    LET place(n) == Cardinality({m \in 1..Len(ips) : TakenBefore(ips, m, n)}) + 1
    IN [i \in 1..Len(ips) |-> CHOOSE n \in 1..Len(ips) : place(n) = i]

\* The slots of a node: the first and the last, or none.
Ranges == {<<>>} \cup (Nat \X Nat)

-----------------------------------------------------------------------------
(* The slots of the masters, divided with floats.  A float is modelled by the *)
(* number of units in it, One of them to 1: for the floats of C a unit is      *)
(* 2^-23, and those up to 2 * q are the multiples of q units, for every q in   *)
(* 1, 2, 4, ...  (Below 1 they lie closer, but no such value is rounded here.) *)

\* The distance of the floats around n / d.
Spacing(n, d) == Min({q \in Spacings : n <= 2 * One * q * d})

\* n / d as a float: the nearest one, and the even one of two that are as near.
Nearest(n, d) ==
    LET q == Spacing(n, d)
        k == n \div (d * q)
        twice == 2 * (n - k * (d * q))
    IN IF twice > d * q \/ (twice = d * q /\ k % 2 = 1) THEN (k + 1) * q ELSE k * q

\* lround of a float that is not negative.
LRound(x) == (2 * x + One) \div (2 * One)

\* Mutant: the last master is treated as the others are.
LastSlotRounded(i, cursor, first, masters, numslots) ==
    LET rounded == LRound(cursor - One)
        last == IF rounded > numslots THEN numslots - 1 ELSE rounded
    IN IF last < first THEN first ELSE last

\* The last slot of the i-th master; "cursor" is the sum after it.  Taking 1 from it
\* is exact, since 1 is a multiple of every spacing.
LastSlot(i, cursor, first, masters, numslots) ==
    LET rounded == LRound(cursor - One)
        last == IF rounded > numslots \/ i = masters THEN numslots - 1 ELSE rounded
    IN IF last < first THEN first ELSE last

\* The loop's variables after the i-th master.
Advanced(v, i, masters, numslots) ==
    LET cursor == Nearest(v.cursor + Nearest(numslots * One, masters), 1)
    IN [cursor |-> cursor, first |-> LastSlot(i, cursor, v.first, masters, numslots) + 1]

\* The first and the last slot of every master.
SlotRanges(masters, numslots) ==
    LET after[i \in 0..masters] ==
            IF i = 0 THEN [cursor |-> 0, first |-> 0]
            ELSE Advanced(after[i - 1], i, masters, numslots)
    IN [i \in 1..masters |-> <<after[i - 1].first, after[i].first - 1>>]

\* The floats lie close enough for this number of masters: h is their distance at
\* numslots, and what is lost in the sums stays below half a slot.
CloseEnough(masters, numslots) ==
    \E h \in Spacings :
        /\ numslots <= 2 * h
        /\ masters * (One + h) <= numslots * One
        /\ 2 * (masters - 1) * masters * h < (2 * numslots - masters) * One

-----------------------------------------------------------------------------
(* The replicas of the masters.                                            *)

\* The place in "rest" of a replica for "master" that is not taken yet: the first on
\* another host, or the first.
PickReplica(rest, taken, master, ips) ==
    LET free == {j \in 1..Len(rest) : rest[j] \notin taken}
        away == {j \in free : ips[rest[j]] # ips[master]}
    IN Min(IF away # {} THEN away ELSE free)

\* The masters in the order in which they get a replica: each as many as asked for,
\* then one each.
Turns(masters, replicas) ==
    [t \in 1..(Len(masters) * replicas) |-> masters[(t - 1) \div replicas + 1]]
    \o (IF replicas = 0 THEN <<>> ELSE masters)

\* Every turn takes a replica, as long as there is one.
TakeReplicas(turns, rest, ips) ==
    LET given[i \in 0..Len(turns)] ==
            IF i = 0 THEN <<>>
            ELSE IF Range(rest) \subseteq Range(given[i - 1]) THEN given[i - 1]
            ELSE Append(given[i - 1],
                        rest[PickReplica(rest, Range(given[i - 1]), turns[i], ips)])
    IN given[Len(turns)]

\* Give every master its replicas, and the nodes that are left to the masters in
\* turn, one each.  replicate[n] is 0 for a node without a master.
AssignReplicas(masters, rest, replicas, ips) ==
    LET rotated == IF rest = <<>> THEN <<>> ELSE Append(Tail(rest), Head(rest))
        turns == Turns(masters, replicas)
        given == TakeReplicas(turns, rotated, ips)
    IN [n \in 1..Len(ips) |->
            IF n \in Range(given) THEN turns[PlaceIn(given, n)] ELSE 0]

\* The plan for the nodes of the command line: the first ones of the interleaved
\* list become masters, the others their replicas.
InitialPlan(ips, masters_count, replicas, numslots) ==
    LET interleaved == InterleaveHosts(ips)
        masters == SubSeq(interleaved, 1, masters_count)
        rest == SubSeq(interleaved, masters_count + 1, Len(ips))
        ranges == SlotRanges(masters_count, numslots)
        replicate == AssignReplicas(masters, rest, replicas, ips)
        index(n) == PlaceIn(masters, n)
    IN [n \in 1..Len(ips) |->
            [slots |-> IF index(n) > 0 THEN ranges[index(n)] ELSE <<>>,
             replicate |-> replicate[n],
             dirty |-> index(n) > 0 \/ replicate[n] # 0]]

-----------------------------------------------------------------------------
(* clusterManagerGetAntiAffinityScore and clusterManagerOptimizeAntiAffinity *)

\* The nodes of the host of n that belong to the master m: m and its replicas.
Related(h, m, ips, replicate) ==
    {n \in 1..Len(ips) : ips[n] = h /\ (n = m \/ replicate[n] = m)}

\* "types" is doubled when the master is met after k replicas; the first type
\* then is not 'm'.
GroupScore(h, m, ips, replicate) ==
    LET group == Related(h, m, ips, replicate)
        k == Cardinality({n \in group : n < m})
        typeslen == Cardinality(group) + (IF m \in group THEN k ELSE 0)
    IN IF typeslen < 2 THEN 0
       ELSE IF m \in group /\ k = 0 THEN 10000 * (typeslen - 1)
       ELSE typeslen

\* The groups: a host and a master.
Groups(ips, replicate) ==
    Range(ips) \X {n \in 1..Len(ips) : replicate[n] = 0}

AntiAffinityScore(ips, replicate) ==
    MapThenSumSet(LAMBDA g : GroupScore(g[1], g[2], ips, replicate),
                  Groups(ips, replicate))

\* One replica of every group with a score: the first in the list.
Offending(ips, replicate) ==
    LET groups == {g \in Groups(ips, replicate) :
                        GroupScore(g[1], g[2], ips, replicate) > 0}
        others(g) == Related(g[1], g[2], ips, replicate) \ {g[2]}
    IN {Min(others(g)) : g \in {x \in groups : others(x) # {}}}
=============================================================================

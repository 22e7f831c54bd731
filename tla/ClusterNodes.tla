--------------------------- MODULE ClusterNodes ----------------------------
(***************************************************************************)
(* redis-cli --cluster create, add-node and del-node (redis-cli.c): the      *)
(* cluster manager makes a cluster out of empty nodes and changes its        *)
(* members.  It plans the roles on its own (ClusterLayout), then tells every   *)
(* node its part over a connection of its own, waits until the nodes have    *)
(* heard of each other, and tells the replicas their masters.               *)
(*                                                                         *)
(* The nodes are not part of the repository: what CLUSTER ADDSLOTS, MEET,    *)
(* REPLICATE, FORGET and RESET do is modelled from the way redis-cli.c uses  *)
(* them.  They gossip all the time; the model lets them do so while the      *)
(* manager waits for it and between two commands, since nothing else it does *)
(* depends on it.                                                          *)
(***************************************************************************)
EXTENDS ClusterLayout

CONSTANTS
    NumSlots,       \* CLUSTER_MANAGER_SLOTS
    Layouts         \* [ips, replicas, spare, members, faults]: hosts and options of a
                    \* create, how many of the last nodes are only added later, and
                    \* bounds on the add-node and del-node commands that follow, and on
                    \* the links that fail and the managers that are interrupted

ASSUME NodesAssumption ==
    /\ NumSlots \in Nat \ {0}
    /\ \A l \in Layouts : /\ l.ips \in Seq(Nat)
                          /\ {l.replicas, l.members, l.faults} \subseteq Nat
                          /\ l.spare \in 0..Len(l.ips)
                          /\ \A m \in 1..Len(l.ips) : CloseEnough(m, NumSlots)

VARIABLES
    layout,     \* the member of Layouts
    slots,      \* slots[n]: the range n serves, or <<>>
    role,       \* role[n]: the master n replicates, or 0
    epoch,      \* the configuration epoch of n
    knows,      \* the nodes n knows, itself included
    banned,     \* the nodes n was told to forget
    nodes,      \* cluster_manager.nodes
    plan,       \* plan[n]: slots, replicate and dirty of the loaded node n
    pc,         \* the step of the command
    todo,       \* the nodes its loop has still to visit
    cmd,        \* the command: name and arguments
    success,    \* its return value
    lost,       \* nodes whose connection has failed
    members,    \* add-node and del-node commands started
    faults      \* links that failed, and managers that were interrupted

cluster == <<slots, role, epoch, knows, banned>>
vars == <<layout, cluster, nodes, plan, pc, todo, cmd, success, lost, members, faults>>

Node == DOMAIN layout.ips
Fresh == [slots |-> <<>>, replicate |-> 0, dirty |-> FALSE]

\* The nodes that know of each other and serve the cluster.
Joined == {n \in Node : knows[n] # {n}}

-----------------------------------------------------------------------------
(* The nodes, as the manager's commands see them (external).               *)

CanReplicate(n, m) == m \in knows[n] \ {n} /\ role[m] = 0 /\ slots[n] = <<>>

\* n is told to forget d: refused for a node it does not know, and for its master.
CanForget(n, d) == d \in knows[n] /\ role[n] # d

\* The cluster bus: n learns what m knows.
Learn(n, m) ==
    /\ pc = "join" \/ (pc = "done" /\ members < layout.members)
    /\ m \in knows[n] /\ ~(knows[m] \subseteq knows[n] \cup banned[n])
    /\ knows' = [knows EXCEPT ![n] = @ \cup (knows[m] \ banned[n])]
    /\ UNCHANGED <<layout, slots, role, epoch, banned, nodes, plan, pc, todo, cmd,
                   success, lost, members, faults>>

-----------------------------------------------------------------------------
(* The manager.                                                            *)

\* What can become of a command sent to n: see ClusterSlots.
Outcomes(n, accepted) ==
    IF n \in lost THEN {"dead"}
    ELSE (IF accepted THEN {"ok"} ELSE {"error"})
         \cup (IF faults = layout.faults THEN {}
               ELSE {"cut"} \cup (IF accepted THEN {"late"} ELSE {}))

Executed(out) == out \in {"ok", "late"}

Link(n, out) ==
    IF out \in {"cut", "late"} THEN lost' = lost \cup {n} /\ faults' = faults + 1
    ELSE UNCHANGED <<lost, faults>>

\* The loop at "here" goes on with the next node, or the command with "next".
Advance(here, next, queue) ==
    IF Len(todo) > 1 THEN pc' = here /\ todo' = Tail(todo)
    ELSE pc' = next /\ todo' = queue

Fail == pc' = "done" /\ todo' = <<>> /\ success' = FALSE

At(step) == pc = step

\* The nodes of the create, and the plan that is made for them.
Listed == SubSeq(layout.ips, 1, Len(layout.ips) - layout.spare)
MastersCount == Len(Listed) \div (layout.replicas + 1)
NewPlan ==
    LET planned == InitialPlan(Listed, MastersCount, layout.replicas, NumSlots)
    IN [n \in Node |-> IF n > Len(Listed) THEN Fresh ELSE planned[n]]

\* The checks of the command line: every node answers, is a cluster node and is
\* empty, which means that it knows no other, and there are three masters at least.
CheckAndPlan ==
    /\ At("create")
    /\ IF MastersCount < 3 \/ \E n \in 1..Len(Listed) : knows[n] # {n}
       THEN /\ Fail
            /\ UNCHANGED <<nodes, plan>>
       ELSE /\ nodes' = [n \in 1..Len(Listed) |-> n]
            /\ plan' = NewPlan
            /\ pc' = "optimize" /\ todo' = <<>>
            /\ UNCHANGED success
    /\ UNCHANGED <<layout, cluster, cmd, lost, members, faults>>

Refused ==
    /\ At("create")
    /\ faults < layout.faults
    /\ faults' = faults + 1
    /\ Fail
    /\ UNCHANGED <<layout, cluster, nodes, plan, cmd, lost, members>>

Replicate == [n \in 1..Len(nodes) |-> plan[n].replicate]
Ips == SubSeq(layout.ips, 1, Len(nodes))
Score == AntiAffinityScore(Ips, Replicate)

\* An offending replica and another one exchange their masters, unless the score
\* becomes worse.
Swap(first, second) ==
    LET swapped == [Replicate EXCEPT ![first] = Replicate[second],
                                     ![second] = Replicate[first]]
        after == IF AntiAffinityScore(Ips, swapped) > Score THEN Replicate ELSE swapped
    IN plan' = [n \in Node |->
                  IF n \in {first, second}
                  THEN [plan[n] EXCEPT !.replicate = after[n], !.dirty = TRUE]
                  ELSE plan[n]]

OptimizeAntiAffinity ==
    /\ At("optimize") /\ Score > 0
    /\ \E first \in Offending(Ips, Replicate) :
       \E second \in {n \in 1..Len(nodes) : Replicate[n] # 0} \ {first} :
            Swap(first, second)
    /\ UNCHANGED <<layout, cluster, nodes, pc, todo, cmd, success, lost, members, faults>>

\* The score is zero, there is no other replica, or maxiter swaps were tried: how
\* many that are is left open.  The user confirms the configuration, or not.
Confirm ==
    /\ At("optimize")
    /\ \/ pc' = "flush" /\ todo' = nodes
       \/ pc' = "declined" /\ todo' = <<>>
    /\ UNCHANGED <<layout, cluster, nodes, plan, cmd, success, lost, members, faults>>

\* The manager is interrupted between two of the commands it sends.
Interrupt ==
    /\ pc \notin {"create", "optimize", "declined", "done"}
    /\ faults < layout.faults
    /\ faults' = faults + 1
    /\ Fail
    /\ UNCHANGED <<layout, cluster, nodes, plan, cmd, lost, members>>

\* The same create again, after one that was declined, failed or was interrupted: the
\* nodes have kept what they were told.
CreateAgain ==
    /\ cmd.name = "create"
    /\ At("declined") \/ (At("done") /\ ~success)
    /\ pc' = "create" /\ success' = TRUE
    /\ nodes' = <<>> /\ plan' = [n \in Node |-> Fresh] /\ lost' = {}
    /\ UNCHANGED <<layout, cluster, todo, cmd, members, faults>>

\* clusterManagerFlushNodeConfig sends n its part; r is what it returns.  A master
\* is no longer dirty afterwards, even when the slots were not added, as they are not
\* when it serves them already.
FlushNodeConfig(n, r) ==
    LET m == plan[n].replicate
        accepted == IF m # 0 THEN CanReplicate(n, m) ELSE slots[n] = <<>>
    IN \E out \in Outcomes(n, accepted) :
        /\ r = (out = "ok")
        /\ role' = IF m # 0 /\ Executed(out) THEN [role EXCEPT ![n] = m] ELSE role
        /\ slots' = IF m = 0 /\ Executed(out) THEN [slots EXCEPT ![n] = plan[n].slots]
                    ELSE slots
        /\ plan' = IF m = 0 \/ out = "ok" THEN [plan EXCEPT ![n].dirty = FALSE] ELSE plan
        /\ Link(n, out)

\* The first flush: replicas do not know their masters yet, and stay dirty.  The
\* test that stops for a master that failed looks at the flag just cleared.
Flush ==
    /\ At("flush")
    /\ LET n == Head(todo) IN
       IF ~plan[n].dirty
       THEN UNCHANGED <<slots, role, plan, lost, faults>>
       ELSE \E r \in BOOLEAN : FlushNodeConfig(n, r)
    /\ Advance("flush", "epoch", nodes)
    /\ UNCHANGED <<layout, epoch, knows, banned, nodes, cmd, success, members>>

\* Mutant: the loop that introduces the nodes passes over two.
SetConfigEpochMeetTooFew ==
    /\ At("epoch")
    /\ LET n == Head(todo) IN
       \E out \in Outcomes(n, epoch[n] = 0) :
        /\ epoch' = IF Executed(out)
                    THEN [epoch EXCEPT ![n] = Len(nodes) - Len(todo) + 1] ELSE epoch
        /\ Link(n, out)
    /\ Advance("epoch", "meet", Tail(Tail(nodes)))
    /\ UNCHANGED <<layout, slots, role, knows, banned, nodes, plan, cmd, success, members>>

\* CLUSTER SET-CONFIG-EPOCH, which a node that has an epoch refuses: the answers are
\* not looked at.
SetConfigEpoch ==
    /\ At("epoch")
    /\ LET n == Head(todo) IN
       \E out \in Outcomes(n, epoch[n] = 0) :
        /\ epoch' = IF Executed(out)
                    THEN [epoch EXCEPT ![n] = Len(nodes) - Len(todo) + 1] ELSE epoch
        /\ Link(n, out)
    /\ Advance("epoch", "meet", Tail(nodes))
    /\ UNCHANGED <<layout, slots, role, knows, banned, nodes, plan, cmd, success, members>>

\* CLUSTER MEET: both ends of the handshake know each other.
Introduce(n, m) ==
    knows' = [knows EXCEPT ![n] = @ \cup {m}, ![m] = @ \cup {n}]

Meet ==
    /\ At("meet")
    /\ LET n == Head(todo) IN
       \E out \in Outcomes(n, TRUE) :
        /\ IF Executed(out) THEN Introduce(n, nodes[1]) ELSE UNCHANGED knows
        /\ Link(n, out)
        /\ IF out = "ok" THEN Advance("meet", "join", <<>>) /\ UNCHANGED success
           ELSE Fail
    /\ UNCHANGED <<layout, slots, role, epoch, banned, nodes, plan, cmd, members>>

\* clusterManagerIsConfigConsistent: every node answers, and knows the same slots.
ConfigConsistent ==
    LET signature(n) == {<<m, slots[m]>> : m \in {x \in knows[n] : slots[x] # <<>>}}
    IN /\ Range(nodes) \cap lost = {}
       /\ \A n \in Range(nodes) : /\ signature(n) # {}
                                  /\ signature(n) = signature(nodes[1])

\* Mutant: the join is not waited for.
WaitNotForJoin ==
    /\ At("join")
    /\ IF cmd.name = "create" THEN pc' = "replicas" /\ todo' = nodes
       ELSE pc' = "replicate" /\ todo' = <<>>
    /\ UNCHANGED <<layout, cluster, nodes, plan, cmd, success, lost, members, faults>>

\* clusterManagerWaitForClusterJoin: polled until it holds.
WaitForClusterJoin ==
    /\ At("join")
    /\ ConfigConsistent
    /\ IF cmd.name = "create" THEN pc' = "replicas" /\ todo' = nodes
       ELSE pc' = "replicate" /\ todo' = <<>>
    /\ UNCHANGED <<layout, cluster, nodes, plan, cmd, success, lost, members, faults>>

\* The link of a node that the manager polls fails.
LoseLink ==
    /\ At("join")
    /\ faults < layout.faults
    /\ faults' = faults + 1
    /\ \E n \in Range(nodes) \ lost : lost' = lost \cup {n}
    /\ UNCHANGED <<layout, cluster, nodes, plan, pc, todo, cmd, success, members>>

\* The second flush: only nodes that are still dirty, and a replica that fails
\* is passed over.
FlushReplicas ==
    /\ At("replicas")
    /\ LET n == Head(todo) IN
       IF ~plan[n].dirty
       THEN /\ UNCHANGED <<slots, role, plan, success, lost, faults>>
            /\ Advance("replicas", "load", <<>>)
       ELSE \E r \in BOOLEAN :
            /\ FlushNodeConfig(n, r)
            /\ IF r \/ plan[n].replicate # 0
               THEN Advance("replicas", "load", <<>>) /\ UNCHANGED success
               ELSE Fail
    /\ UNCHANGED <<layout, epoch, knows, banned, nodes, cmd, members>>

\* The nodes are loaded again from the first one, and checked; what the check
\* says is not looked at.
LoadAgain ==
    /\ At("load")
    /\ success' = (success /\ nodes[1] \notin lost)
    /\ pc' = "done"
    /\ UNCHANGED <<layout, cluster, nodes, plan, todo, cmd, lost, members, faults>>
-----------------------------------------------------------------------------
(* add-node and del-node                                                   *)

\* clusterManagerNodeWithLeastReplicas: the first master of the list with the
\* fewest replicas, as they were loaded.
NodeWithLeastReplicas ==
    LET count(m) == Cardinality({n \in Range(nodes) : plan[n].replicate = m})
        masters == {n \in Range(nodes) : plan[n].replicate = 0}
        least == Min({count(m) : m \in masters})
    IN nodes[Min({i \in DOMAIN nodes : nodes[i] \in masters /\ count(nodes[i]) = least})]

\* The members of S in any order.
Orders(S) == Injection(1..Cardinality(S), S)

\* clusterManagerLoadInfoFromNode: the reference node first, then those it knows, in
\* the order of its table: one of two here.  Those that do not answer, or that it takes
\* for failed, are left out.
LoadInfoFrom(ref) ==
    /\ \E down \in SUBSET (knows[ref] \ {ref}) :
        /\ faults + Cardinality(down) <= layout.faults
        /\ faults' = faults + Cardinality(down)
        /\ \E friends \in Orders(knows[ref] \ ({ref} \cup down)) :
            LET at == DOMAIN friends IN
            /\ \/ \A i, j \in at : i < j => friends[i] < friends[j]
               \/ \A i, j \in at : i < j => friends[i] > friends[j]
            /\ nodes' = <<ref>> \o friends
    /\ plan' = [n \in Node |-> [slots |-> slots[n], replicate |-> role[n], dirty |-> FALSE]]
    /\ lost' = {}

Start(c, ref) ==
    /\ At("done") /\ members < layout.members
    /\ ref \in Joined /\ ref # c.node
    /\ LoadInfoFrom(ref)
    /\ cmd' = c
    /\ members' = members + 1
    /\ UNCHANGED <<layout, cluster, todo>>

\* The nodes that were never part of the cluster: which one is added makes no
\* difference, so the first is.
Spare == {n \in Node : knows[n] = {n} /\ \A m \in Node : n \notin banned[m]}

StartAdd ==
    \E ref \in Node, slave \in BOOLEAN :
        /\ Spare # {}
        /\ Start([name |-> "add", node |-> Min(Spare), slave |-> slave, master |-> 0], ref)
        /\ pc' = "check" /\ success' = TRUE

\* There is no such node when it was left out.
StartDel ==
    \E d \in Joined, ref \in Node :
        /\ slots[d] = <<>> /\ d \in knows[ref]
        /\ Start([name |-> "del", node |-> d, slave |-> FALSE, master |-> 0], ref)
        /\ success' = (d \in Range(nodes'))
        /\ pc' = IF success' THEN "forget" ELSE "done"

\* clusterManagerCheckCluster, the master of a replica, which --cluster-master-id may
\* name, and the checks of the new node, which joins the list before it is told to meet
\* the first one.  The command stops as well when there is no node of that name, or when
\* the new node does not answer, is no cluster node or is not empty.
CheckAndChoose ==
    /\ At("check")
    /\ LET covered == MapThenSumSet(LAMBDA n : plan[n].slots[2] - plan[n].slots[1] + 1,
                                    {n \in Range(nodes) : plan[n].slots # <<>>})
       IN \/ Fail /\ UNCHANGED <<nodes, cmd>>
          \/ /\ ConfigConsistent /\ covered = NumSlots
             /\ IF cmd.slave
                THEN \E m \in {NodeWithLeastReplicas} \cup Range(nodes) :
                        cmd' = [cmd EXCEPT !.master = m]
                ELSE UNCHANGED cmd
             /\ nodes' = Append(nodes, cmd.node)
             /\ pc' = "add"
             /\ UNCHANGED <<todo, success>>
    /\ UNCHANGED <<layout, cluster, plan, lost, members, faults>>

AddNode ==
    /\ At("add")
    /\ \E out \in Outcomes(cmd.node, TRUE) :
        /\ IF Executed(out) THEN Introduce(cmd.node, nodes[1]) ELSE UNCHANGED knows
        /\ Link(cmd.node, out)
        /\ IF out # "ok" THEN Fail
           ELSE /\ pc' = IF cmd.slave THEN "join" ELSE "done"
                /\ UNCHANGED <<todo, success>>
    /\ UNCHANGED <<layout, slots, role, epoch, banned, nodes, plan, cmd, members>>

ReplicateMaster ==
    /\ At("replicate")
    /\ \E out \in Outcomes(cmd.node, CanReplicate(cmd.node, cmd.master)) :
        /\ role' = IF Executed(out) THEN [role EXCEPT ![cmd.node] = cmd.master] ELSE role
        /\ Link(cmd.node, out)
        /\ success' = (out = "ok")
    /\ pc' = "done"
    /\ UNCHANGED <<layout, slots, epoch, knows, banned, nodes, plan, todo, cmd, members>>

\* The loop of del-node begins; it passes over the node to remove.
VisitNodes ==
    /\ At("forget") /\ todo = <<>>
    /\ todo' = Without(nodes, cmd.node)
    /\ pc' = IF plan[Head(todo')].replicate = cmd.node THEN "reassign" ELSE "forget"
    /\ UNCHANGED <<layout, cluster, nodes, plan, cmd, success, lost, members, faults>>

\* A replica of the node is told to replicate the master with the fewest replicas.
Reassign ==
    /\ At("reassign")
    /\ LET n == Head(todo)
           m == NodeWithLeastReplicas
       IN \E out \in Outcomes(n, CanReplicate(n, m)) :
            /\ role' = IF Executed(out) THEN [role EXCEPT ![n] = m] ELSE role
            /\ Link(n, out)
            /\ IF out = "ok" THEN pc' = "forget" /\ UNCHANGED <<todo, success>>
               ELSE Fail
    /\ UNCHANGED <<layout, slots, epoch, knows, banned, nodes, plan, cmd, members>>

\* Mutant: replicas are not told to forget the node.
ForgetByMasters ==
    /\ At("forget") /\ todo # <<>>
    /\ LET n == Head(todo)
           d == cmd.node
       IN \E out \in Outcomes(n, CanForget(n, d)) :
            /\ knows' = IF Executed(out) /\ role[n] = 0 THEN [knows EXCEPT ![n] = @ \ {d}] ELSE knows
            /\ banned' = IF Executed(out) THEN [banned EXCEPT ![n] = @ \cup {d}] ELSE banned
            /\ Link(n, out)
            /\ IF out # "ok" THEN Fail
               ELSE /\ UNCHANGED success
                    /\ Advance(IF Len(todo) > 1 /\ plan[todo[2]].replicate = d
                               THEN "reassign" ELSE "forget", "reset", <<>>)
    /\ UNCHANGED <<layout, slots, role, epoch, nodes, plan, cmd, members>>

Forget ==
    /\ At("forget") /\ todo # <<>>
    /\ LET n == Head(todo)
           d == cmd.node
       IN \E out \in Outcomes(n, CanForget(n, d)) :
            /\ knows' = IF Executed(out) THEN [knows EXCEPT ![n] = @ \ {d}] ELSE knows
            /\ banned' = IF Executed(out) THEN [banned EXCEPT ![n] = @ \cup {d}] ELSE banned
            /\ Link(n, out)
            /\ IF out # "ok" THEN Fail
               ELSE /\ UNCHANGED success
                    /\ Advance(IF Len(todo) > 1 /\ plan[todo[2]].replicate = d
                               THEN "reassign" ELSE "forget", "reset", <<>>)
    /\ UNCHANGED <<layout, slots, role, epoch, nodes, plan, cmd, members>>

\* CLUSTER RESET SOFT
Reset ==
    /\ At("reset")
    /\ \E out \in Outcomes(cmd.node, TRUE) :
        /\ knows' = IF Executed(out) THEN [knows EXCEPT ![cmd.node] = {cmd.node}] ELSE knows
        /\ role' = IF Executed(out) THEN [role EXCEPT ![cmd.node] = 0] ELSE role
        /\ Link(cmd.node, out)
        /\ success' = (out = "ok")
    /\ pc' = "done"
    /\ UNCHANGED <<layout, slots, epoch, banned, nodes, plan, todo, cmd, members>>

\* The nodes are new.  Those that an earlier create left with slots and an epoch come
\* about by CreateAgain.
Init ==
    /\ layout \in Layouts
    /\ slots = [n \in Node |-> <<>>]
    /\ role = [n \in Node |-> 0]
    /\ epoch = [n \in Node |-> 0]
    /\ knows = [n \in Node |-> {n}]
    /\ banned = [n \in Node |-> {}]
    /\ nodes = <<>> /\ plan = [n \in Node |-> Fresh]
    /\ pc = "create" /\ todo = <<>> /\ success = TRUE
    /\ cmd = [name |-> "create", node |-> 0, slave |-> FALSE, master |-> 0]
    /\ lost = {} /\ members = 0 /\ faults = 0

\* The steps the manager takes on its own.
Manager ==
    \/ Flush \/ SetConfigEpoch \/ Meet
    \/ WaitForClusterJoin \/ FlushReplicas \/ LoadAgain
    \/ CheckAndChoose \/ AddNode \/ ReplicateMaster
    \/ VisitNodes \/ Reassign \/ Forget \/ Reset

Gossip == \E m, n \in Node : Learn(n, m)

Next ==
    \/ CheckAndPlan \/ Refused \/ OptimizeAntiAffinity \/ Confirm
    \/ Manager \/ LoseLink \/ Interrupt \/ CreateAgain
    \/ StartAdd \/ StartDel
    \/ Gossip

\* The manager takes its steps, once a create is confirmed, and the nodes gossip.
Spec == Init /\ [][Next]_vars /\ WF_vars(Manager) /\ WF_vars(Gossip)
-----------------------------------------------------------------------------
(* Properties.                                                             *)

Planned == cmd.name = "create" /\ nodes # <<>>
Masters == {n \in Range(nodes) : plan[n].slots # <<>>}

\* The ranges of the masters: none is empty, no two overlap, the first begins with slot
\* 0, and after each the next one begins unless it ends with the last slot.
SlotsDivided ==
    LET first(n) == plan[n].slots[1]
        last(n) == plan[n].slots[2]
    IN /\ \A m \in Masters : 0 <= first(m) /\ first(m) <= last(m) /\ last(m) < NumSlots
       /\ \A m, n \in Masters : m # n => last(m) < first(n) \/ last(n) < first(m)
       /\ \E m \in Masters : first(m) = 0
       /\ \A m \in Masters : last(m) = NumSlots - 1 \/ \E n \in Masters : first(n) = last(m) + 1

\* Who replicates a node serves no slots, and replicates a master.
ReplicasFit ==
    \A n \in Range(nodes) :
        plan[n].replicate # 0 => n \notin Masters /\ plan[n].replicate \in Masters

\* The plan of a create, whatever the hosts and however long it is optimized: the
\* masters serve every slot once and none is without slots, every other node
\* replicates a master, no master has fewer replicas than asked for and is named
\* before those that share its host, on which the score relies (only then is "m" the
\* first of its types), and as long as there is something to improve there is a
\* replica to swap, so that rand() is not divided by zero
\* (clusterManagerCommandCreate, clusterManagerOptimizeAntiAffinity).
PlanSound ==
    Planned =>
        /\ SlotsDivided
        /\ ReplicasFit
        /\ \A n \in Range(nodes) \ Masters : plan[n].replicate # 0
        /\ \A m \in Masters :
             Cardinality({n \in Range(nodes) : plan[n].replicate = m}) >= layout.replicas
        /\ \A n \in Range(nodes) \ Masters : LET m == plan[n].replicate IN
             layout.ips[m] = layout.ips[n] => m < n
        /\ pc = "optimize" /\ Score > 0 => Offending(Ips, Replicate) # {}

\* When a create that was confirmed has returned success, even after others that were
\* interrupted at any point, the masters serve their slots, every node knows every
\* master, the epochs of the nodes differ, and every replica follows its master
\* unless its link failed at the very last command: a link that fails earlier makes
\* the create fail or wait
\* (clusterManagerCommandCreate).
CreateComplete ==
    Planned /\ pc = "done" /\ success =>
        \A n \in Range(nodes) :
            /\ slots[n] = plan[n].slots
            /\ \A m \in Range(nodes) : plan[m].slots # <<>> => m \in knows[n]
            /\ \A m \in Range(nodes) \ {n} : epoch[m] # epoch[n]
            /\ role[n] = plan[n].replicate \/ n \in lost

\* A command ends once the user has confirmed it, unless a link fails: the join that
\* it waits for comes about, since every node has met the first one
\* (clusterManagerWaitForClusterJoin).
CommandsEnd == []<>(pc \in {"create", "optimize", "declined", "done"} \/ lost # {})

\* When add-node has returned success, the new node knows the cluster and, as a
\* replica, follows the master that was chosen; after del-node no node that
\* the manager was told of knows the node that was removed or follows it, and that
\* node knows no other (clusterManagerCommandAddNode, clusterManagerCommandDeleteNode).
MembersComplete ==
    pc = "done" /\ success =>
        /\ cmd.name = "add" => /\ knows[cmd.node] # {cmd.node}
                               /\ cmd.slave => role[cmd.node] = cmd.master
        /\ cmd.name = "del" => /\ knows[cmd.node] = {cmd.node}
                               /\ \A n \in Range(nodes) \ {cmd.node} :
                                    cmd.node \notin knows[n] /\ role[n] # cmd.node
=============================================================================

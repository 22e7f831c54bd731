----------------------- MODULE ClusterNodesInvariant -----------------------
(***************************************************************************)
(* Proofs about redis-cli --cluster create, add-node and del-node, for any    *)
(* number of nodes, hosts, replicas, slots, commands and failing links.      *)
(***************************************************************************)
EXTENDS ClusterNodes, TLAPS

-----------------------------------------------------------------------------
(* The invariant.                                                          *)

CreateSteps == {"create", "optimize", "flush", "epoch", "meet", "join", "replicas", "load",
                "declined", "done"}
AddSteps == {"check", "add", "join", "replicate", "done"}
DelSteps == {"forget", "reassign", "reset", "done"}

\* The steps that are loops over the nodes.
Loops == {"flush", "epoch", "meet", "replicas", "forget", "reassign"}

TypeInv ==
    /\ layout \in Layouts
    /\ slots \in [Node -> Ranges]
    /\ role \in [Node -> Nat]
    /\ epoch \in [Node -> Nat]
    /\ knows \in [Node -> SUBSET Node]
    /\ banned \in [Node -> SUBSET Node]
    /\ nodes \in Seq(Node)
    /\ plan \in [Node -> [slots : Ranges, replicate : Nat, dirty : BOOLEAN]]
    /\ todo \in Seq(Node)
    /\ cmd \in [name : {"create", "add", "del"}, node : Node \cup {0}, slave : BOOLEAN,
                master : {cmd.master}]

\* Which command is at which step; a command on the members was started at another node
\* than the one it is about.
StepInv ==
    /\ cmd.name = "create" => pc \in CreateSteps
    /\ cmd.name = "add" => pc \in AddSteps
    /\ cmd.name = "del" => pc \in DelSteps
    /\ pc \notin Loops => todo = <<>>
    /\ pc \in Loops \ {"forget"} => todo # <<>>
    /\ cmd.name # "create" => cmd.node \in Node /\ nodes # <<>> /\ nodes[1] # cmd.node

\* add-node: from the moment it has met the first node, the new node knows it.
AddInv ==
    cmd.name = "add" =>
        /\ pc \in {"join", "replicate"} \/ (pc = "done" /\ success)
           => nodes[1] \in knows[cmd.node]
        /\ pc = "done" /\ success /\ cmd.slave => role[cmd.node] = cmd.master

\* Node n was told to forget the node that is removed, and will not hear of it again.
Forgot(n) == cmd.node \notin knows[n] /\ cmd.node \in banned[n] /\ role[n] # cmd.node

\* del-node: the nodes the loop has left behind have forgotten the node.
DelInv ==
    cmd.name = "del" =>
        /\ pc \in {"forget", "reassign"} /\ todo # <<>>
           => \A n \in Range(nodes) \ ({cmd.node} \cup Range(todo)) : Forgot(n)
        /\ pc = "reset" \/ (pc = "done" /\ success)
           => \A n \in Range(nodes) \ {cmd.node} : Forgot(n)
        /\ pc = "done" /\ success => knows[cmd.node] = {cmd.node}

-----------------------------------------------------------------------------
(* create                                                                  *)

\* How many nodes the loop has left behind: nodes are numbered as they are visited.
Visited == Len(nodes) - Len(todo)

NodesInv ==
    /\ pc = "create" => nodes = <<>>
    /\ Planned => /\ 1 < Len(nodes) /\ Len(nodes) <= Len(layout.ips)
                  /\ nodes = [n \in 1..Len(nodes) |-> n]
                  /\ SlotsDivided
                  /\ ReplicasFit
    /\ pc \in {"optimize", "flush", "epoch", "meet", "join", "replicas", "load"} => nodes # <<>>
    /\ pc \in {"flush", "epoch", "meet", "replicas"} =>
        /\ Len(todo) <= Len(nodes)
        /\ \A i \in 1..Len(todo) : todo[i] = Visited + i
    /\ \A n \in Node : n \in knows[n]

\* Nothing was sent to n; a node without a part is not dirty.
Untold(n) == plan[n].dirty \/ (plan[n].slots = <<>> /\ plan[n].replicate = 0)

\* n was sent its slots, or its link has failed; the replicas are still dirty.
Told(n) ==
    /\ slots[n] = plan[n].slots \/ n \in lost
    /\ plan[n].dirty = (plan[n].replicate # 0)

Numbered(n) == epoch[n] = n \/ n \in lost

\* n has its slots and its epoch, and knows the masters.
Settled(n) == slots[n] = plan[n].slots /\ epoch[n] = n /\ Masters \subseteq knows[n]

Follows(n) == role[n] = plan[n].replicate \/ n \in lost

CreateInv ==
    cmd.name = "create" =>
        /\ NodesInv
        /\ pc \in {"optimize", "flush"} => \A n \in Range(nodes) : knows[n] = {n}
        /\ pc \in {"optimize", "flush", "epoch", "meet", "join"}
           => \A n \in Range(nodes) : role[n] = 0
        /\ pc = "optimize" => \A n \in Range(nodes) : Untold(n)
        /\ pc = "flush" => \A n \in Range(nodes) : IF n <= Visited THEN Told(n) ELSE Untold(n)
        /\ pc \in {"epoch", "meet", "join"} => \A n \in Range(nodes) : Told(n)
        /\ pc = "epoch" => \A n \in Range(nodes) : n <= Visited => Numbered(n)
        /\ pc \in {"meet", "join"} => \A n \in Range(nodes) : Numbered(n)
        /\ pc = "replicas" =>
            \A n \in Range(nodes) :
                /\ Settled(n)
                /\ IF n <= Visited THEN Follows(n)
                   ELSE role[n] = 0 /\ plan[n].dirty = (plan[n].replicate # 0)
                /\ plan[n].replicate = 0 => role[n] = 0
        /\ pc = "load" \/ (pc = "done" /\ success /\ nodes # <<>>) =>
            \A n \in Range(nodes) : Settled(n) /\ Follows(n)

\* What the nodes keep when a create ends: it is what any later create would tell them,
\* since the plan has the same slots every time; and who follows a master knows it, and
\* is not taken for empty.
KeptInv ==
    cmd.name = "create" =>
        /\ nodes # <<>> => \A n \in Node : plan[n].slots = NewPlan[n].slots
        /\ \A n \in Node : slots[n] \in {<<>>, NewPlan[n].slots}
        /\ \A n \in Node : epoch[n] \in {0, n}
        /\ \A n \in Node : role[n] = 0 \/ \E m \in knows[n] : m # n

IInv == TypeInv /\ StepInv /\ AddInv /\ DelInv /\ CreateInv /\ KeptInv

-----------------------------------------------------------------------------
(* Nodes, lists and plans.                                                 *)

LEMMA NodeFacts ==
    ASSUME TypeInv
    PROVE  /\ layout.ips \in Seq(Nat) /\ Len(layout.ips) \in Nat
           /\ Node = 1..Len(layout.ips)
           /\ \A n \in Node : n \in Nat /\ n # 0
<1>1. layout.ips \in Seq(Nat)
  BY NodesAssumption DEF TypeInv
<1>2. Len(layout.ips) \in Nat /\ Node = 1..Len(layout.ips)
  BY <1>1 DEF Node
<1> QED
  BY <1>1, <1>2

LEMMA Elements ==
    ASSUME NEW S, NEW s \in Seq(S)
    PROVE  /\ \A x : x \in Range(s) <=> \E i \in 1..Len(s) : s[i] = x
           /\ Range(s) \subseteq S
           /\ s # <<>> => /\ Head(s) = s[1] /\ Head(s) \in S /\ Head(s) \in Range(s)
                          /\ Len(s) \in Nat \ {0}
                          /\ Tail(s) \in Seq(S) /\ Len(Tail(s)) = Len(s) - 1
                          /\ \A i \in 1..(Len(s) - 1) : Tail(s)[i] = s[i + 1]
                          /\ \A x \in Range(s) : x = Head(s) \/ x \in Range(Tail(s))
<1>1. DOMAIN s = 1..Len(s) /\ Len(s) \in Nat /\ \A i \in 1..Len(s) : s[i] \in S
  OBVIOUS
<1>2. \A x : x \in Range(s) <=> \E i \in 1..Len(s) : s[i] = x
  BY <1>1 DEF Range
<1>3. Range(s) \subseteq S
  BY <1>1, <1>2
<1>4. ASSUME s # <<>>
      PROVE  /\ Head(s) = s[1] /\ Head(s) \in S
             /\ Len(s) \in Nat \ {0}
             /\ Tail(s) \in Seq(S) /\ Len(Tail(s)) = Len(s) - 1
             /\ \A i \in 1..(Len(s) - 1) : Tail(s)[i] = s[i + 1]
  BY <1>4
<1>5. ASSUME s # <<>>, NEW x \in Range(s), x # Head(s) PROVE x \in Range(Tail(s))
  <2>1. PICK i \in 1..Len(s) : s[i] = x
    BY <1>2, <1>5
  <2>2. i # 1
    BY <1>4, <1>5, <2>1
  <2>3. i - 1 \in 1..(Len(s) - 1) /\ (i - 1) + 1 = i
    BY <1>1, <2>2
  <2>4. Tail(s)[i - 1] = x /\ DOMAIN Tail(s) = 1..(Len(s) - 1)
    BY <1>4, <1>5, <2>1, <2>3
  <2> QED
    BY <2>3, <2>4, Zenon DEF Range
<1>6. s # <<>> => Head(s) \in Range(s)
  <2>1. s # <<>> => 1 \in 1..Len(s)
    BY <1>4
  <2> QED
    BY <1>2, <1>4, <2>1
<1> QED
  BY <1>2, <1>3, <1>4, <1>5, <1>6

\* The nodes of a create are numbered from 1.
LEMMA NodesAreNumbers ==
    ASSUME TypeInv, CreateInv, cmd.name = "create", nodes # <<>>
    PROVE  /\ Range(nodes) = 1..Len(nodes)
           /\ Len(nodes) \in Nat \ {0}
           /\ nodes[1] = 1
           /\ Range(nodes) \subseteq Node
           /\ SlotsDivided /\ ReplicasFit
<1>1. nodes = [n \in 1..Len(nodes) |-> n] /\ SlotsDivided /\ ReplicasFit
  BY DEF CreateInv, NodesInv, Planned
<1>2. nodes \in Seq(Node) /\ Len(nodes) \in Nat \ {0} /\ Range(nodes) \subseteq Node
  <2>1. nodes \in Seq(Node)
    BY DEF TypeInv
  <2> QED
    BY <2>1, Elements
<1>3. Range(nodes) = 1..Len(nodes)
  BY <1>1, <1>2 DEF Range
<1>4. nodes[1] = 1
  <2>1. 1 \in 1..Len(nodes)
    BY <1>2
  <2> QED
    BY <1>1, <2>1
<1> QED
  BY <1>1, <1>2, <1>3, <1>4

\* A plan whose ranges and masters stay as they are is as sound as it was.
LEMMA PlanKept ==
    ASSUME nodes' = nodes,
           \A k \in Range(nodes) : /\ plan'[k].slots = plan[k].slots
                                   /\ plan'[k].replicate = plan[k].replicate
    PROVE  /\ Masters' = Masters
           /\ SlotsDivided => SlotsDivided'
           /\ ReplicasFit => ReplicasFit'
<1>1. Masters' = Masters
  BY DEF Masters
<1>2. Masters \subseteq Range(nodes)
  BY DEF Masters
<1>3. SlotsDivided => SlotsDivided'
  BY <1>1, <1>2 DEF SlotsDivided
<1>4. ReplicasFit => ReplicasFit'
  BY <1>1 DEF ReplicasFit
<1> QED
  BY <1>1, <1>3, <1>4

-----------------------------------------------------------------------------
(* Loops.                                                                  *)

\* The loop goes on with the next node, or it has visited all of them.
LEMMA LoopAdvances ==
    ASSUME NEW here, NEW next, NEW queue,
           nodes \in Seq(Node), todo \in Seq(Node), todo # <<>>, Len(todo) <= Len(nodes),
           \A i \in 1..Len(todo) : todo[i] = Visited + i,
           nodes' = nodes, Advance(here, next, queue)
    PROVE  /\ Head(todo) = Visited + 1 /\ Visited \in Nat /\ Visited + 1 <= Len(nodes)
           /\ \/ /\ Len(todo) > 1 /\ pc' = here /\ todo' = Tail(todo)
                 /\ todo' \in Seq(Node) /\ todo' # <<>> /\ Len(todo') <= Len(nodes)
                 /\ Visited' = Visited + 1
                 /\ \A i \in 1..Len(todo') : todo'[i] = Visited' + i
              \/ /\ pc' = next /\ todo' = queue
                 /\ Visited + 1 = Len(nodes)
<1>1. /\ Head(todo) = todo[1] /\ Len(todo) \in Nat \ {0} /\ Len(nodes) \in Nat
      /\ Tail(todo) \in Seq(Node) /\ Len(Tail(todo)) = Len(todo) - 1
      /\ \A i \in 1..(Len(todo) - 1) : Tail(todo)[i] = todo[i + 1]
  BY Elements
<1>2. Visited \in Nat /\ Visited = Len(nodes) - Len(todo)
  BY <1>1 DEF Visited
<1>3. Head(todo) = Visited + 1 /\ Visited + 1 <= Len(nodes)
  <2>1. 1 \in 1..Len(todo)
    BY <1>1
  <2> QED
    BY <1>1, <1>2, <2>1
<1>4. CASE Len(todo) > 1
  <2>1. pc' = here /\ todo' = Tail(todo)
    BY <1>4 DEF Advance
  <2>2. Len(todo') = Len(todo) - 1
    BY <1>1, <2>1
  <2>3. Visited' = Visited + 1
    <3>1. Visited' = Len(nodes) - Len(todo')
      BY DEF Visited
    <3> QED
      BY <1>1, <1>2, <2>2, <3>1
  <2>4. todo' \in Seq(Node) /\ todo' # <<>> /\ Len(todo') <= Len(nodes)
    <3>1. Len(todo') # 0 /\ Len(<<>>) = 0
      BY <1>1, <1>4, <2>2
    <3>2. Len(todo') <= Len(nodes)
      BY <1>1, <2>2
    <3> QED
      BY <1>1, <2>1, <3>1, <3>2, Zenon
  <2>5. ASSUME NEW i \in 1..Len(todo') PROVE todo'[i] = Visited' + i
    <3>1. i \in 1..(Len(todo) - 1) /\ i + 1 \in 1..Len(todo) /\ i \in Nat
      BY <1>1, <2>2
    <3>2. todo'[i] = todo[i + 1] /\ todo[i + 1] = Visited + (i + 1)
      BY <1>1, <2>1, <3>1
    <3> QED
      BY <1>2, <2>3, <3>1, <3>2
  <2> QED
    BY <1>2, <1>3, <1>4, <2>1, <2>3, <2>4, <2>5
<1>5. CASE ~(Len(todo) > 1)
  <2>1. pc' = next /\ todo' = queue
    BY <1>5 DEF Advance
  <2>2. Visited + 1 = Len(nodes)
    BY <1>1, <1>2, <1>5
  <2> QED
    BY <1>2, <1>3, <2>1, <2>2
<1> QED
  BY <1>4, <1>5

\* A loop over all the nodes begins with the first.
LEMMA LoopBegins ==
    ASSUME nodes \in Seq(Node), nodes # <<>>, nodes = [n \in 1..Len(nodes) |-> n],
           nodes' = nodes, todo' = nodes
    PROVE  /\ todo' # <<>> /\ Len(todo') <= Len(nodes')
           /\ Visited' = 0
           /\ \A i \in 1..Len(todo') : todo'[i] = Visited' + i
<1>1. Len(nodes) \in Nat
  OBVIOUS
<1>2. Visited' = Len(nodes') - Len(todo')
  BY DEF Visited
<1>3. Visited' = 0
  BY <1>1, <1>2
<1>4. ASSUME NEW i \in 1..Len(todo') PROVE todo'[i] = Visited' + i
  <2>1. i \in 1..Len(nodes) /\ i \in Nat
    BY <1>1
  <2> QED
    BY <1>3, <2>1
<1> QED
  BY <1>1, <1>3, <1>4

\* What the outcome of a command tells.
LEMMA OutcomeTells ==
    ASSUME NEW n, NEW accepted \in BOOLEAN, NEW out \in Outcomes(n, accepted), Link(n, out)
    PROVE  /\ Executed(out) => accepted
           /\ out = "ok" => Executed(out)
           /\ lost \subseteq lost'
           /\ accepted /\ out # "ok" => n \in lost'
           /\ accepted /\ ~Executed(out) => n \in lost'
           /\ out \in {"ok", "error"} => lost' = lost
BY DEF Outcomes, Executed, Link

-----------------------------------------------------------------------------
(* Steps that leave an invariant alone.                                    *)

LEMMA CreateLeavesMembers ==
    ASSUME cmd' = cmd, cmd.name = "create"
    PROVE  AddInv' /\ DelInv'
BY DEF AddInv, DelInv

LEMMA MembersLeaveCreate ==
    ASSUME cmd'.name # "create"
    PROVE  CreateInv' /\ KeptInv'
BY DEF CreateInv, KeptInv

\* The plan depends on the layout alone.
LEMMA SamePlan ==
    ASSUME layout' = layout
    PROVE  NewPlan' = NewPlan
BY DEF NewPlan, MastersCount, Listed, Node

\* Nodes are told nothing, but may learn of others.
LEMMA KeptStays ==
    ASSUME KeptInv, layout' = layout, cmd' = cmd, slots' = slots, epoch' = epoch, role' = role,
           \A n \in Node : knows[n] \subseteq knows'[n],
           nodes' = <<>> \/ (nodes' = nodes /\ \A n \in Node : plan'[n].slots = plan[n].slots)
    PROVE  KeptInv'
<1>1. NewPlan' = NewPlan /\ Node' = Node
  BY SamePlan DEF Node
<1> QED
  BY <1>1, Zenon DEF KeptInv

-----------------------------------------------------------------------------
(* The plan.                                                               *)

\* Nodes are told their part of the plan.
LEMMA KeptTold ==
    ASSUME KeptInv, layout' = layout, cmd' = cmd, nodes # <<>>,
           \A n \in Node : plan'[n].slots = plan[n].slots,
           \A n \in Node : slots'[n] \in {slots[n], plan[n].slots},
           \A n \in Node : epoch'[n] \in {epoch[n], n},
           \A n \in Node : role'[n] = role[n] \/ \E m \in knows[n] : m # n,
           \A n \in Node : knows[n] \subseteq knows'[n]
    PROVE  KeptInv'
<1>1. NewPlan' = NewPlan /\ Node' = Node
  BY SamePlan DEF Node
<1> SUFFICES ASSUME cmd.name = "create", NEW n \in Node
             PROVE  /\ plan'[n].slots = NewPlan[n].slots
                    /\ slots'[n] \in {<<>>, NewPlan[n].slots}
                    /\ epoch'[n] \in {0, n}
                    /\ role'[n] = 0 \/ \E m \in knows'[n] : m # n
  BY <1>1, Zenon DEF KeptInv
<1>2. /\ plan[n].slots = NewPlan[n].slots /\ slots[n] \in {<<>>, NewPlan[n].slots}
      /\ epoch[n] \in {0, n} /\ (role[n] = 0 \/ \E m \in knows[n] : m # n)
  BY Zenon DEF KeptInv
<1>3. role'[n] = 0 \/ \E m \in knows'[n] : m # n
  BY <1>2, Zenon
<1>4. plan'[n].slots = NewPlan[n].slots /\ slots'[n] \in {<<>>, NewPlan[n].slots}
  BY <1>2, Zenon
<1>5. epoch'[n] \in {0, n}
  BY <1>2, Zenon
<1> QED
  BY <1>3, <1>4, <1>5

LEMMA InitHolds == Init => IInv
<1> SUFFICES ASSUME Init PROVE IInv
  OBVIOUS
<1> USE DEF Init
<1>1. layout \in Layouts /\ layout.ips \in Seq(Nat)
  BY NodesAssumption
<1>2. Node = 1..Len(layout.ips)
  BY <1>1 DEF Node
<1>3. TypeInv
  <2>1. \A n \in Node : {n} \in SUBSET Node
    OBVIOUS
  <2>2. Fresh \in [slots : Ranges, replicate : Nat, dirty : BOOLEAN]
    BY DEF Fresh, Ranges
  <2>3. slots \in [Node -> Ranges]
    BY DEF Ranges
  <2>4. plan \in [Node -> [slots : Ranges, replicate : Nat, dirty : BOOLEAN]]
    BY <2>2
  <2>5. /\ role \in [Node -> Nat] /\ epoch \in [Node -> Nat]
        /\ knows \in [Node -> SUBSET Node] /\ banned \in [Node -> SUBSET Node]
    BY <2>1
  <2>6. nodes \in Seq(Node) /\ todo \in Seq(Node)
    OBVIOUS
  <2>7. cmd \in [name : {"create", "add", "del"}, node : Node \cup {0}, slave : BOOLEAN,
                 master : {cmd.master}]
    OBVIOUS
  <2> QED
    BY <1>1, <2>3, <2>4, <2>5, <2>6, <2>7 DEF TypeInv
<1>4. StepInv
  BY DEF StepInv, CreateSteps, Loops
<1>5. AddInv /\ DelInv
  BY DEF AddInv, DelInv
<1>6. CreateInv
  <2>1. NodesInv
    BY DEF NodesInv, Planned
  <2> QED
    BY <2>1 DEF CreateInv
<1>7. KeptInv
  BY DEF KeptInv
<1> QED
  BY <1>3, <1>4, <1>5, <1>6, <1>7 DEF IInv

LEMMA RefusedKeeps ==
    ASSUME IInv, Refused
    PROVE  IInv'
<1> USE DEF Refused, Fail, At, cluster, IInv
<1>1. pc = "create" /\ cmd.name = "create" /\ nodes = <<>>
  BY DEF StepInv, AddSteps, DelSteps, TypeInv, CreateInv, NodesInv
<1>2. Node' = Node
  BY DEF Node
<1>3. TypeInv'
  BY <1>2 DEF TypeInv
<1>4. StepInv'
  BY <1>1 DEF StepInv, CreateSteps, Loops
<1>5. AddInv' /\ DelInv'
  BY <1>1, CreateLeavesMembers
<1>6. CreateInv'
  <2>1. NodesInv'
    BY <1>1, <1>2 DEF CreateInv, NodesInv, Planned
  <2> QED
    BY <1>1, <2>1 DEF CreateInv
<1>7. KeptInv'
  BY <1>1, KeptStays
<1> QED
  BY <1>3, <1>4, <1>5, <1>6, <1>7

LEMMA InterruptKeeps ==
    ASSUME IInv, Interrupt
    PROVE  IInv'
<1> USE DEF IInv
<1>1. /\ UNCHANGED <<layout, slots, role, epoch, knows, banned, nodes, plan, cmd, lost>>
      /\ pc' = "done" /\ todo' = <<>> /\ success' = FALSE
  BY DEF Interrupt, Fail, cluster
<1>2. /\ Node' = Node /\ Masters' = Masters
      /\ SlotsDivided' = SlotsDivided /\ ReplicasFit' = ReplicasFit
  BY <1>1 DEF Node, SlotsDivided, ReplicasFit, Masters
<1>3. TypeInv'
  <2>1. todo' \in Seq(Node) /\ TypeInv
    BY <1>1
  <2> QED
    BY ONLY <1>1, <1>2, <2>1 DEF TypeInv
<1>4. StepInv'
  BY <1>1, <1>2 DEF StepInv, CreateSteps, AddSteps, DelSteps, Loops
<1>5. AddInv' /\ DelInv'
  BY ONLY <1>1 DEF AddInv, DelInv
<1>6. CreateInv'
  <2>1. CASE cmd.name # "create"
    BY <1>1, <2>1, MembersLeaveCreate
  <2>2. CASE cmd.name = "create"
    <3>1. NodesInv
      BY <2>2 DEF CreateInv
    <3>2. NodesInv'
      BY ONLY <1>1, <1>2, <3>1 DEF NodesInv, Planned
    <3> QED
      BY ONLY <1>1, <3>2 DEF CreateInv
  <2> QED
    BY <2>1, <2>2
<1>7. KeptInv'
  BY <1>1, KeptStays
<1> QED
  BY <1>3, <1>4, <1>5, <1>6, <1>7

LEMMA CreateAgainKeeps ==
    ASSUME IInv, CreateAgain
    PROVE  IInv'
<1> USE DEF IInv
<1>1. /\ UNCHANGED <<layout, slots, role, epoch, knows, banned, todo, cmd>>
      /\ pc' = "create" /\ nodes' = <<>> /\ plan' = [n \in Node |-> Fresh]
      /\ cmd.name = "create" /\ pc \in {"declined", "done"}
  BY DEF CreateAgain, cluster, At
<1>2. Node' = Node
  BY <1>1 DEF Node
<1>3. TypeInv'
  <2>1. nodes' \in Seq(Node) /\ TypeInv
    BY <1>1
  <2>2. Fresh \in [slots : Ranges, replicate : Nat, dirty : BOOLEAN]
    BY DEF Fresh, Ranges
  <2>3. plan' \in [Node -> [slots : Ranges, replicate : Nat, dirty : BOOLEAN]]
    BY ONLY <1>1, <2>2
  <2> QED
    BY ONLY <1>1, <1>2, <2>1, <2>3, Zenon DEF TypeInv
<1>4. StepInv'
  BY <1>1, <1>2 DEF StepInv, CreateSteps, Loops
<1>5. AddInv' /\ DelInv'
  BY <1>1, CreateLeavesMembers
<1>6. CreateInv'
  <2>1. \A n \in Node : n \in knows[n]
    BY <1>1 DEF CreateInv, NodesInv
  <2>2. NodesInv'
    BY ONLY <1>1, <1>2, <2>1 DEF NodesInv, Planned
  <2> QED
    BY ONLY <1>1, <2>2 DEF CreateInv
<1>7. KeptInv'
  BY <1>1, KeptStays
<1> QED
  BY <1>3, <1>4, <1>5, <1>6, <1>7

LEMMA ConfirmKeeps ==
    ASSUME IInv, Confirm
    PROVE  IInv'
<1> USE DEF IInv
<1>1. pc = "optimize" /\ cmd.name = "create"
  BY DEF Confirm, At, StepInv, AddSteps, DelSteps, TypeInv
<1>2. UNCHANGED <<layout, slots, role, epoch, knows, banned, nodes, plan, cmd, success, lost>>
  BY DEF Confirm, cluster
<1>3. /\ Node' = Node /\ Masters' = Masters
      /\ SlotsDivided' = SlotsDivided /\ ReplicasFit' = ReplicasFit
  BY <1>2 DEF Node, SlotsDivided, ReplicasFit, Masters
<1>4. AddInv' /\ DelInv'
  BY <1>1, <1>2, CreateLeavesMembers
<1>5. /\ nodes # <<>> /\ 1 < Len(nodes) /\ Len(nodes) <= Len(layout.ips)
      /\ nodes = [n \in 1..Len(nodes) |-> n]
  BY <1>1 DEF CreateInv, NodesInv, Planned
<1>6. /\ Range(nodes) = 1..Len(nodes) /\ Len(nodes) \in Nat \ {0}
      /\ Range(nodes) \subseteq Node /\ SlotsDivided /\ ReplicasFit
  BY <1>1, <1>5, NodesAreNumbers
<1>7. nodes \in Seq(Node)
  BY DEF TypeInv
<1>8. (pc' = "flush" /\ todo' = nodes) \/ (pc' = "declined" /\ todo' = <<>>)
  BY DEF Confirm
<1>9. TypeInv'
  <2>1. <<>> \in Seq(Node)
    OBVIOUS
  <2>2. todo' \in Seq(Node)
    BY <1>7, <1>8, <2>1, Zenon
  <2>3. TypeInv
    OBVIOUS
  <2> QED
    BY ONLY <1>2, <1>3, <2>2, <2>3 DEF TypeInv
<1>10. StepInv'
  BY <1>1, <1>2, <1>5, <1>8 DEF StepInv, CreateSteps, Loops
<1>11. /\ \A n \in Range(nodes) : knows[n] = {n} /\ role[n] = 0 /\ Untold(n)
       /\ \A n \in Node : n \in knows[n]
       /\ KeptInv'
  <2>1. KeptInv'
    BY <1>2, KeptStays
  <2> QED
    BY <1>1, <2>1 DEF CreateInv, NodesInv
<1>12. \A n \in Range(nodes) : Untold(n)'
  BY <1>2, <1>11 DEF Untold
<1>13. CASE pc' = "flush" /\ todo' = nodes
  <2>1. /\ Len(todo') <= Len(nodes') /\ Visited' = 0
        /\ \A i \in 1..Len(todo') : todo'[i] = Visited' + i
    BY <1>2, <1>5, <1>7, <1>13, LoopBegins
  <2>2. NodesInv'
    BY ONLY <1>1, <1>2, <1>3, <1>5, <1>6, <1>11, <1>13, <2>1 DEF NodesInv, Planned
  <2>3. \A n \in Range(nodes) : ~(n <= Visited')
    BY <1>6, <2>1
  <2> QED
    <3>1. CreateInv'
      BY ONLY <1>1, <1>2, <1>3, <1>11, <1>12, <1>13, <2>2, <2>3 DEF CreateInv
    <3> QED
      BY <1>4, <1>9, <1>10, <1>11, <3>1
<1>14. CASE pc' = "declined" /\ todo' = <<>>
  <2>1. NodesInv'
    BY ONLY <1>1, <1>2, <1>3, <1>5, <1>6, <1>11, <1>14 DEF NodesInv, Planned
  <2>2. CreateInv'
    BY ONLY <1>1, <1>2, <1>3, <1>11, <1>14, <2>1 DEF CreateInv
  <2> QED
    BY <1>4, <1>9, <1>10, <1>11, <2>2
<1> QED
  BY <1>8, <1>13, <1>14

-----------------------------------------------------------------------------
(* The nodes are told.                                                     *)

\* What FlushNodeConfig changes: n's slots if it is a master, n's role if it is not.
LEMMA FlushNodeConfigDoes ==
    ASSUME TypeInv, NEW n \in Node, NEW r \in BOOLEAN, FlushNodeConfig(n, r), Node' = Node
    PROVE  /\ slots' \in [Node -> Ranges] /\ role' \in [Node -> Nat]
           /\ plan' \in [Node -> [slots : Ranges, replicate : Nat, dirty : BOOLEAN]]
           /\ \A k \in Node : /\ plan'[k].slots = plan[k].slots
                              /\ plan'[k].replicate = plan[k].replicate
           /\ \A k \in Node \ {n} : slots'[k] = slots[k] /\ role'[k] = role[k] /\ plan'[k] = plan[k]
           /\ lost \subseteq lost'
           /\ plan[n].replicate = 0 =>
                /\ role' = role /\ plan'[n].dirty = FALSE
                /\ slots[n] = <<>> => slots'[n] = plan[n].slots \/ n \in lost'
           /\ plan[n].replicate # 0 =>
                /\ slots' = slots
                /\ ~CanReplicate(n, plan[n].replicate) => role' = role /\ plan' = plan
                /\ CanReplicate(n, plan[n].replicate)
                   => role'[n] = plan[n].replicate \/ n \in lost'
           /\ slots'[n] \in {slots[n], plan[n].slots}
           /\ role'[n] = role[n] \/ \E k \in knows[n] : k # n
<1> DEFINE m == plan[n].replicate
           accepted == IF m # 0 THEN CanReplicate(n, m) ELSE slots[n] = <<>>
<1>1. PICK out \in Outcomes(n, accepted) :
        /\ r = (out = "ok")
        /\ role' = IF m # 0 /\ Executed(out) THEN [role EXCEPT ![n] = m] ELSE role
        /\ slots' = IF m = 0 /\ Executed(out) THEN [slots EXCEPT ![n] = plan[n].slots]
                    ELSE slots
        /\ plan' = IF m = 0 \/ out = "ok" THEN [plan EXCEPT ![n].dirty = FALSE] ELSE plan
        /\ Link(n, out)
  BY DEF FlushNodeConfig
<1>2. accepted \in BOOLEAN
  BY Zenon DEF CanReplicate
<1>3. /\ Executed(out) => accepted
      /\ out = "ok" => Executed(out)
      /\ lost \subseteq lost'
      /\ accepted /\ out # "ok" => n \in lost'
      /\ accepted /\ ~Executed(out) => n \in lost'
  <2> HIDE DEF accepted
  <2> QED
    BY <1>1, <1>2, OutcomeTells
<1>4. /\ slots \in [Node -> Ranges] /\ role \in [Node -> Nat]
      /\ plan \in [Node -> [slots : Ranges, replicate : Nat, dirty : BOOLEAN]]
  BY DEF TypeInv
<1>5. plan[n] \in [slots : Ranges, replicate : Nat, dirty : BOOLEAN]
  BY <1>4
<1>6. m \in Nat /\ plan[n].slots \in Ranges
  BY <1>5
<1>7. /\ [plan EXCEPT ![n].dirty = FALSE]
            \in [Node -> [slots : Ranges, replicate : Nat, dirty : BOOLEAN]]
      /\ [plan EXCEPT ![n].dirty = FALSE][n].dirty = FALSE
      /\ \A k \in Node : /\ [plan EXCEPT ![n].dirty = FALSE][k].slots = plan[k].slots
                         /\ [plan EXCEPT ![n].dirty = FALSE][k].replicate = plan[k].replicate
      /\ \A k \in Node \ {n} : [plan EXCEPT ![n].dirty = FALSE][k] = plan[k]
  BY <1>4, <1>5, Zenon
<1> HIDE DEF m, accepted
<1>8. /\ plan' \in [Node -> [slots : Ranges, replicate : Nat, dirty : BOOLEAN]]
      /\ \A k \in Node : /\ plan'[k].slots = plan[k].slots
                         /\ plan'[k].replicate = plan[k].replicate
      /\ \A k \in Node \ {n} : plan'[k] = plan[k]
      /\ m = 0 => plan'[n].dirty = FALSE
  BY <1>1, <1>4, <1>7
<1>9. /\ slots' \in [Node -> Ranges] /\ role' \in [Node -> Nat]
      /\ \A k \in Node \ {n} : slots'[k] = slots[k] /\ role'[k] = role[k]
  BY <1>1, <1>4, <1>6
<1>10. ASSUME m = 0
       PROVE  /\ role' = role
              /\ slots[n] = <<>> => slots'[n] = plan[n].slots \/ n \in lost'
  <2>1. accepted = (slots[n] = <<>>)
    BY <1>10 DEF accepted
  <2>2. Executed(out) => slots'[n] = plan[n].slots
    BY <1>1, <1>4, <1>10
  <2> QED
    BY <1>1, <1>3, <1>10, <2>1, <2>2, Zenon
<1>11. ASSUME m # 0
       PROVE  /\ slots' = slots
              /\ ~CanReplicate(n, m) => role' = role /\ plan' = plan
              /\ CanReplicate(n, m) => role'[n] = m \/ n \in lost'
  <2>1. accepted = CanReplicate(n, m)
    BY <1>11 DEF accepted
  <2>2. Executed(out) => role'[n] = m
    BY <1>1, <1>4, <1>11
  <2>3. slots' = slots
    BY <1>1, <1>11
  <2>4. ~accepted => role' = role /\ plan' = plan
    BY <1>1, <1>3, <1>11
  <2> QED
    BY <1>3, <2>1, <2>2, <2>3, <2>4
<1>12. slots'[n] \in {slots[n], plan[n].slots}
  BY <1>1, <1>4
<1>13. role'[n] = role[n] \/ \E k \in knows[n] : k # n
  <2>1. role' # role => m # 0 /\ accepted
    BY <1>1, <1>3, Zenon
  <2>2. m # 0 /\ accepted => \E k \in knows[n] : k # n
    BY Zenon DEF accepted, CanReplicate
  <2> QED
    BY <2>1, <2>2, Zenon
<1> QED
  BY <1>3, <1>8, <1>9, <1>10, <1>11, <1>12, <1>13 DEF m

LEMMA FlushKeeps ==
    ASSUME IInv, Flush
    PROVE  IInv'
<1> USE DEF IInv
<1>1. pc = "flush" /\ cmd.name = "create" /\ todo # <<>>
  BY DEF Flush, At, StepInv, AddSteps, DelSteps, TypeInv, Loops
<1>2. UNCHANGED <<layout, epoch, knows, banned, nodes, cmd, success>>
  BY DEF Flush
<1>3. Node' = Node
  BY <1>2 DEF Node
<1>4. AddInv' /\ DelInv'
  BY <1>1, <1>2, CreateLeavesMembers
<1>5. /\ nodes # <<>> /\ 1 < Len(nodes) /\ Len(nodes) <= Len(layout.ips)
      /\ nodes = [n \in 1..Len(nodes) |-> n]
      /\ Len(todo) <= Len(nodes) /\ \A i \in 1..Len(todo) : todo[i] = Visited + i
      /\ \A n \in Node : n \in knows[n]
  BY <1>1 DEF CreateInv, NodesInv, Planned
<1>6. /\ Range(nodes) = 1..Len(nodes) /\ Len(nodes) \in Nat \ {0}
      /\ Range(nodes) \subseteq Node /\ SlotsDivided /\ ReplicasFit
  BY <1>1, <1>5, NodesAreNumbers
<1>7. nodes \in Seq(Node) /\ todo \in Seq(Node)
  BY DEF TypeInv
<1>8. /\ \A k \in Range(nodes) : knows[k] = {k} /\ role[k] = 0
      /\ \A k \in Range(nodes) : IF k <= Visited THEN Told(k) ELSE Untold(k)
  BY <1>1 DEF CreateInv
<1> PICK n : n = Head(todo)
  OBVIOUS
<1>9. Advance("flush", "epoch", nodes)
  BY DEF Flush
<1>10. /\ n = Visited + 1 /\ Visited \in Nat /\ Visited + 1 <= Len(nodes)
       /\ \/ /\ pc' = "flush" /\ todo' \in Seq(Node) /\ todo' # <<>> /\ Len(todo') <= Len(nodes)
             /\ Visited' = Visited + 1
             /\ \A i \in 1..Len(todo') : todo'[i] = Visited' + i
          \/ /\ pc' = "epoch" /\ todo' = nodes /\ Visited + 1 = Len(nodes)
  BY <1>1, <1>2, <1>5, <1>7, <1>9, LoopAdvances
<1>11. n \in Range(nodes) /\ n \in Node /\ Untold(n)
  <2>1. n \in 1..Len(nodes) /\ ~(n <= Visited)
    BY <1>6, <1>10
  <2> QED
    BY <1>6, <1>8, <2>1
<1>20. /\ slots[n] \in {<<>>, plan[n].slots}
       /\ plan[n].replicate # 0 => plan[n].slots = <<>>
  <2>1. slots[n] \in {<<>>, plan[n].slots}
    BY <1>1, <1>5, <1>11, Zenon DEF KeptInv
  <2>2. plan[n].replicate # 0 => plan[n].slots = <<>>
    BY <1>6, <1>11 DEF ReplicasFit, Masters
  <2> QED
    BY <2>1, <2>2
<1>12. IF ~plan[n].dirty THEN UNCHANGED <<slots, role, plan, lost, faults>>
       ELSE \E r \in BOOLEAN : FlushNodeConfig(n, r)
  BY DEF Flush
<1>13. /\ slots' \in [Node -> Ranges] /\ role' = role
       /\ plan' \in [Node -> [slots : Ranges, replicate : Nat, dirty : BOOLEAN]]
       /\ \A k \in Node : /\ plan'[k].slots = plan[k].slots
                          /\ plan'[k].replicate = plan[k].replicate
       /\ \A k \in Node \ {n} : slots'[k] = slots[k] /\ plan'[k] = plan[k]
       /\ lost \subseteq lost'
       /\ slots'[n] \in {slots[n], plan[n].slots}
       /\ Told(n)'
  <2>1. /\ slots \in [Node -> Ranges]
        /\ plan \in [Node -> [slots : Ranges, replicate : Nat, dirty : BOOLEAN]]
        /\ plan[n].dirty \in BOOLEAN
    BY <1>11 DEF TypeInv
  <2>2. CASE ~plan[n].dirty
    <3>1. UNCHANGED <<slots, role, plan, lost>>
      BY <1>12, <2>2
    <3>2. plan[n].slots = <<>> /\ plan[n].replicate = 0 /\ slots[n] = <<>>
      BY <1>11, <1>20, <2>2 DEF Untold
    <3>3. Told(n)'
      BY <2>1, <2>2, <3>1, <3>2 DEF Told
    <3> QED
      BY <2>1, <3>1, <3>3
  <2>3. CASE plan[n].dirty
    <3>1. PICK r \in BOOLEAN : FlushNodeConfig(n, r)
      BY <1>12, <2>3
    <3>2. /\ slots' \in [Node -> Ranges]
          /\ plan' \in [Node -> [slots : Ranges, replicate : Nat, dirty : BOOLEAN]]
          /\ \A k \in Node : /\ plan'[k].slots = plan[k].slots
                             /\ plan'[k].replicate = plan[k].replicate
          /\ \A k \in Node \ {n} : slots'[k] = slots[k] /\ plan'[k] = plan[k]
          /\ lost \subseteq lost'
          /\ slots'[n] \in {slots[n], plan[n].slots}
          /\ plan[n].replicate = 0 =>
                /\ role' = role /\ plan'[n].dirty = FALSE
                /\ slots[n] = <<>> => slots'[n] = plan[n].slots \/ n \in lost'
          /\ plan[n].replicate # 0 =>
                /\ slots' = slots
                /\ ~CanReplicate(n, plan[n].replicate) => role' = role /\ plan' = plan
      BY <1>3, <1>11, <3>1, FlushNodeConfigDoes, Zenon
    <3>3. ~CanReplicate(n, plan[n].replicate)
      BY <1>8, <1>11 DEF CanReplicate
    <3>6. role' = role
      BY <3>2, <3>3
    <3>7. CASE plan[n].replicate = 0
      <4>2. slots'[n] = plan[n].slots \/ n \in lost'
        BY <1>20, <3>2, <3>7, Zenon
      <4>1. Told(n)'
        BY <1>11, <3>2, <3>7, <4>2 DEF Told
      <4> QED
        BY <3>2, <3>6, <4>1
    <3>8. CASE plan[n].replicate # 0
      <4>1. plan' = plan /\ slots' = slots
        BY <3>2, <3>3, <3>8
      <4>2. plan[n].dirty = TRUE
        BY <2>1, <2>3
      <4>3. Told(n)'
        BY <1>20, <3>8, <4>1, <4>2, Zenon DEF Told
      <4> QED
        BY <3>2, <3>6, <4>3
    <3> QED
      BY <3>7, <3>8
  <2> QED
    BY <2>1, <2>2, <2>3
<1>14. ASSUME NEW k \in Range(nodes) PROVE IF k <= Visited + 1 THEN Told(k)' ELSE Untold(k)'
  <2>1. k \in Nat /\ k \in Node
    BY <1>6
  <2>2. CASE k = n
    BY <1>10, <1>13, <2>2
  <2>3. CASE k # n
    <3>1. slots'[k] = slots[k] /\ plan'[k] = plan[k] /\ lost \subseteq lost'
      BY <1>13, <2>1, <2>3
    <3>2. k <= Visited + 1 <=> k <= Visited
      BY <1>10, <2>1, <2>3
    <3>3. Told(k) => Told(k)'
      BY <3>1 DEF Told
    <3>4. Untold(k) => Untold(k)'
      BY <3>1 DEF Untold
    <3> QED
      BY <1>8, <3>2, <3>3, <3>4
  <2> QED
    BY <2>2, <2>3
<1>15. Masters' = Masters /\ SlotsDivided' /\ ReplicasFit'
  BY <1>2, <1>6, <1>13, PlanKept
<1>21. KeptInv'
  <2>1. \A k \in Node : slots'[k] \in {slots[k], plan[k].slots}
    BY <1>13, Zenon
  <2> QED
    BY <1>2, <1>5, <1>13, <2>1, KeptTold
<1>16. TypeInv'
  <2>1. todo' \in Seq(Node)
    BY <1>7, <1>10
  <2>2. TypeInv
    OBVIOUS
  <2> QED
    BY ONLY <1>2, <1>3, <1>13, <2>1, <2>2 DEF TypeInv
<1>17. StepInv'
  BY ONLY <1>1, <1>2, <1>5, <1>10, Zenon DEF StepInv, CreateSteps, Loops
<1>18. CASE /\ pc' = "flush" /\ Len(todo') <= Len(nodes) /\ Visited' = Visited + 1
            /\ \A i \in 1..Len(todo') : todo'[i] = Visited' + i
  <2>1. NodesInv'
    BY ONLY <1>1, <1>2, <1>3, <1>5, <1>15, <1>18 DEF NodesInv, Planned
  <2>2. CreateInv'
    BY ONLY <1>1, <1>2, <1>3, <1>8, <1>13, <1>14, <1>18, <2>1 DEF CreateInv
  <2> QED
    BY <1>4, <1>16, <1>17, <1>21, <2>2
<1>19. CASE pc' = "epoch" /\ todo' = nodes /\ Visited + 1 = Len(nodes)
  <2>1. /\ Len(todo') <= Len(nodes') /\ Visited' = 0
        /\ \A i \in 1..Len(todo') : todo'[i] = Visited' + i
    BY <1>2, <1>5, <1>7, <1>19, LoopBegins
  <2>2. NodesInv'
    BY ONLY <1>1, <1>2, <1>3, <1>5, <1>15, <1>19, <2>1 DEF NodesInv, Planned
  <2>3. \A k \in Range(nodes) : k <= Visited + 1 /\ ~(k <= Visited')
    BY <1>6, <1>19, <2>1
  <2>4. CreateInv'
    BY ONLY <1>1, <1>2, <1>3, <1>8, <1>13, <1>14, <1>19, <2>2, <2>3 DEF CreateInv
  <2> QED
    BY <1>4, <1>16, <1>17, <1>21, <2>4
<1> QED
  BY <1>10, <1>18, <1>19

LEMMA SetConfigEpochKeeps ==
    ASSUME IInv, SetConfigEpoch
    PROVE  IInv'
<1> USE DEF IInv
<1>1. pc = "epoch" /\ cmd.name = "create" /\ todo # <<>>
  BY DEF SetConfigEpoch, At, StepInv, AddSteps, DelSteps, TypeInv, Loops
<1>2. UNCHANGED <<layout, slots, role, knows, banned, nodes, plan, cmd, success>>
  BY DEF SetConfigEpoch
<1>3. /\ Node' = Node /\ Masters' = Masters
      /\ SlotsDivided' = SlotsDivided /\ ReplicasFit' = ReplicasFit
  BY <1>2 DEF Node, SlotsDivided, ReplicasFit, Masters
<1>4. AddInv' /\ DelInv'
  BY <1>1, <1>2, CreateLeavesMembers
<1>5. /\ nodes # <<>> /\ 1 < Len(nodes) /\ Len(nodes) <= Len(layout.ips)
      /\ nodes = [n \in 1..Len(nodes) |-> n]
      /\ Len(todo) <= Len(nodes) /\ \A i \in 1..Len(todo) : todo[i] = Visited + i
      /\ \A n \in Node : n \in knows[n]
  BY <1>1 DEF CreateInv, NodesInv, Planned
<1>6. /\ Range(nodes) = 1..Len(nodes) /\ Len(nodes) \in Nat \ {0}
      /\ Range(nodes) \subseteq Node /\ SlotsDivided /\ ReplicasFit
  BY <1>1, <1>5, NodesAreNumbers
<1>7. nodes \in Seq(Node) /\ todo \in Seq(Node) /\ epoch \in [Node -> Nat]
  BY DEF TypeInv
<1>8. /\ \A k \in Range(nodes) : role[k] = 0
      /\ \A k \in Range(nodes) : Told(k) /\ (k <= Visited => Numbered(k))
  BY <1>1 DEF CreateInv
<1> PICK n : n = Head(todo)
  OBVIOUS
<1>9. Advance("epoch", "meet", Tail(nodes))
  BY DEF SetConfigEpoch
<1>10. /\ n = Visited + 1 /\ Visited \in Nat /\ Visited + 1 <= Len(nodes)
       /\ \/ /\ pc' = "epoch" /\ todo' \in Seq(Node) /\ todo' # <<>> /\ Len(todo') <= Len(nodes)
             /\ Visited' = Visited + 1
             /\ \A i \in 1..Len(todo') : todo'[i] = Visited' + i
          \/ /\ pc' = "meet" /\ todo' = Tail(nodes) /\ Visited + 1 = Len(nodes)
  BY <1>1, <1>2, <1>5, <1>7, <1>9, LoopAdvances, Zenon
<1>11. n \in Range(nodes) /\ n \in Node /\ n \in Nat
  <2>1. n \in 1..Len(nodes)
    BY <1>6, <1>10
  <2> QED
    BY <1>6, <2>1
<1>12. PICK out \in Outcomes(n, epoch[n] = 0) :
        /\ epoch' = IF Executed(out)
                    THEN [epoch EXCEPT ![n] = Len(nodes) - Len(todo) + 1] ELSE epoch
        /\ Link(n, out)
  BY Zenon DEF SetConfigEpoch
<1>13. lost \subseteq lost' /\ (~Executed(out) /\ epoch[n] = 0 => n \in lost')
  <2>1. (epoch[n] = 0) \in BOOLEAN
    OBVIOUS
  <2> QED
    BY <1>12, <2>1, OutcomeTells, Zenon
<1>14. /\ epoch' \in [Node -> Nat] /\ \A k \in Node \ {n} : epoch'[k] = epoch[k]
       /\ Numbered(n)' /\ epoch'[n] \in {epoch[n], n}
  <2>1. Len(nodes) - Len(todo) + 1 = n
    BY <1>10 DEF Visited
  <2>2. epoch' = IF Executed(out) THEN [epoch EXCEPT ![n] = n] ELSE epoch
    BY <1>12, <2>1, Zenon
  <2>3. epoch' \in [Node -> Nat] /\ \A k \in Node \ {n} : epoch'[k] = epoch[k]
    BY <1>7, <1>11, <2>2
  <2>4. Executed(out) => epoch'[n] = n
    BY <1>7, <1>11, <2>2
  <2>5. ~Executed(out) => epoch'[n] = epoch[n]
    BY <2>2
  <2>6. epoch[n] \in {0, n}
    BY <1>1, <1>11, Zenon DEF KeptInv
  <2>7. epoch'[n] = n \/ n \in lost'
    BY <1>13, <2>4, <2>5, <2>6, Zenon
  <2> QED
    BY <2>3, <2>4, <2>5, <2>7, Zenon DEF Numbered
<1>15. ASSUME NEW k \in Range(nodes) PROVE Told(k)' /\ (k <= Visited + 1 => Numbered(k)')
  <2>1. k \in Nat /\ k \in Node
    BY <1>6
  <2>2. Told(k)'
    BY <1>2, <1>8, <1>13 DEF Told
  <2>3. k # n /\ k <= Visited + 1 => k <= Visited
    BY <1>10, <2>1
  <2>4. k # n /\ Numbered(k) => Numbered(k)'
    BY <1>13, <1>14, <2>1 DEF Numbered
  <2> QED
    BY <1>8, <1>14, <2>2, <2>3, <2>4
<1>16. Tail(nodes) \in Seq(Node) /\ Len(Tail(nodes)) = Len(nodes) - 1 /\ Tail(nodes) # <<>>
  <2>1. Tail(nodes) \in Seq(Node) /\ Len(Tail(nodes)) = Len(nodes) - 1
    BY <1>5, <1>7, Elements
  <2>2. Len(Tail(nodes)) # 0 /\ Len(<<>>) = 0
    BY <1>5, <1>6, <2>1
  <2> QED
    BY <2>1, <2>2, Zenon
<1>21. KeptInv'
  <2>1. \A k \in Node : epoch'[k] \in {epoch[k], k}
    BY <1>14, Zenon
  <2> QED
    BY <1>2, <1>5, <2>1, KeptTold, Zenon
<1>17. TypeInv'
  <2>1. todo' \in Seq(Node)
    BY <1>10, <1>16, Zenon
  <2>2. TypeInv
    OBVIOUS
  <2> QED
    BY ONLY <1>2, <1>3, <1>14, <2>1, <2>2 DEF TypeInv
<1>18. StepInv'
  BY ONLY <1>1, <1>2, <1>5, <1>10, <1>16, Zenon DEF StepInv, CreateSteps, Loops
<1>19. CASE /\ pc' = "epoch" /\ Len(todo') <= Len(nodes) /\ Visited' = Visited + 1
            /\ \A i \in 1..Len(todo') : todo'[i] = Visited' + i
  <2>1. NodesInv'
    BY ONLY <1>1, <1>2, <1>3, <1>5, <1>6, <1>19 DEF NodesInv, Planned
  <2>2. CreateInv'
    BY ONLY <1>1, <1>2, <1>3, <1>8, <1>15, <1>19, <2>1 DEF CreateInv
  <2> QED
    BY <1>4, <1>17, <1>18, <1>21, <2>2
<1>20. CASE pc' = "meet" /\ todo' = Tail(nodes) /\ Visited + 1 = Len(nodes)
  <2>1. Visited' = 1 /\ Len(todo') = Len(nodes) - 1
    <3>1. Visited' = Len(nodes') - Len(todo')
      BY DEF Visited
    <3> QED
      BY <1>2, <1>6, <1>16, <1>20, <3>1
  <2>2. ASSUME NEW i \in 1..Len(todo') PROVE todo'[i] = Visited' + i
    <3>1. i \in 1..(Len(nodes) - 1) /\ i + 1 \in 1..Len(nodes) /\ i \in Nat
      BY <1>6, <2>1
    <3>2. todo'[i] = nodes[i + 1]
      BY <1>5, <1>7, <1>20, <3>1, Elements
    <3>3. nodes[i + 1] = i + 1
      BY <1>5, <3>1
    <3> QED
      BY <2>1, <3>1, <3>2, <3>3
  <2>3. Len(todo') <= Len(nodes)
    BY <1>6, <2>1
  <2>4. NodesInv'
    BY ONLY <1>1, <1>2, <1>3, <1>5, <1>6, <1>20, <2>2, <2>3 DEF NodesInv, Planned
  <2>5. \A k \in Range(nodes) : k <= Visited + 1
    BY <1>6, <1>20
  <2>6. CreateInv'
    BY ONLY <1>1, <1>2, <1>3, <1>8, <1>15, <1>20, <2>4, <2>5 DEF CreateInv
  <2> QED
    BY <1>4, <1>17, <1>18, <1>21, <2>6
<1> QED
  BY <1>10, <1>19, <1>20

\* CLUSTER MEET only adds to what nodes know.
LEMMA IntroduceGrows ==
    ASSUME knows \in [Node -> SUBSET Node], NEW n \in Node, NEW m \in Node, Introduce(n, m)
    PROVE  /\ knows' \in [Node -> SUBSET Node] /\ m \in knows'[n]
           /\ \A k \in Node : knows[k] \subseteq knows'[k]
<1> DEFINE K == [knows EXCEPT ![n] = @ \cup {m}]
<1>1. knows' = [K EXCEPT ![m] = @ \cup {n}]
  BY Zenon DEF Introduce
<1>2. /\ K \in [Node -> SUBSET Node] /\ m \in K[n]
      /\ \A k \in Node : knows[k] \subseteq K[k]
  <2>1. \A k \in Node : K[k] = IF k = n THEN knows[n] \cup {m} ELSE knows[k]
    OBVIOUS
  <2>2. K \in [Node -> SUBSET Node]
    OBVIOUS
  <2> QED
    BY <2>1, <2>2
<1> HIDE DEF K
<1>3. \A k \in Node : knows'[k] = IF k = m THEN K[m] \cup {n} ELSE K[k]
  BY <1>1, <1>2
<1>4. knows' \in [Node -> SUBSET Node]
  BY <1>1, <1>2
<1> QED
  BY <1>2, <1>3, <1>4

LEMMA MeetKeeps ==
    ASSUME IInv, Meet
    PROVE  IInv'
<1> USE DEF IInv
<1>1. pc = "meet" /\ cmd.name = "create" /\ todo # <<>>
  BY DEF Meet, At, StepInv, AddSteps, DelSteps, TypeInv, Loops
<1>2. UNCHANGED <<layout, slots, role, epoch, banned, nodes, plan, cmd>>
  BY DEF Meet
<1>3. /\ Node' = Node /\ Masters' = Masters
      /\ SlotsDivided' = SlotsDivided /\ ReplicasFit' = ReplicasFit
  BY <1>2 DEF Node, SlotsDivided, ReplicasFit, Masters
<1>4. AddInv' /\ DelInv'
  BY <1>1, <1>2, CreateLeavesMembers
<1>5. /\ nodes # <<>> /\ 1 < Len(nodes) /\ Len(nodes) <= Len(layout.ips)
      /\ nodes = [n \in 1..Len(nodes) |-> n]
      /\ Len(todo) <= Len(nodes) /\ \A i \in 1..Len(todo) : todo[i] = Visited + i
      /\ \A n \in Node : n \in knows[n]
  BY <1>1, Zenon DEF CreateInv, NodesInv, Planned
<1>6. /\ Range(nodes) = 1..Len(nodes) /\ Len(nodes) \in Nat \ {0}
      /\ Range(nodes) \subseteq Node /\ SlotsDivided /\ ReplicasFit /\ nodes[1] = 1
  BY <1>1, <1>5, NodesAreNumbers
<1>7. nodes \in Seq(Node) /\ todo \in Seq(Node) /\ knows \in [Node -> SUBSET Node]
  BY DEF TypeInv
<1>8. /\ \A k \in Range(nodes) : role[k] = 0
      /\ \A k \in Range(nodes) : Told(k) /\ Numbered(k)
  BY <1>1 DEF CreateInv
<1> PICK n : n = Head(todo)
  OBVIOUS
<1>9. n \in Node /\ nodes[1] \in Node
  BY <1>1, <1>5, <1>7, Elements
<1>10. PICK out \in Outcomes(n, TRUE) :
        /\ IF Executed(out) THEN Introduce(n, nodes[1]) ELSE UNCHANGED knows
        /\ Link(n, out)
        /\ IF out = "ok" THEN Advance("meet", "join", <<>>) /\ UNCHANGED success
           ELSE Fail
  BY Zenon DEF Meet
<1>11. lost \subseteq lost'
  <2>1. TRUE \in BOOLEAN
    OBVIOUS
  <2> QED
    BY <1>10, <2>1, OutcomeTells, Zenon
<1>12. knows' \in [Node -> SUBSET Node] /\ \A k \in Node : knows[k] \subseteq knows'[k]
  BY <1>7, <1>9, <1>10, IntroduceGrows
<1>13. \A k \in Node : k \in knows'[k]
  BY <1>5, <1>12
<1>14. \A k \in Range(nodes) : Told(k)' /\ Numbered(k)'
  BY <1>2, <1>8, <1>11 DEF Told, Numbered
<1>17. KeptInv'
  BY <1>2, <1>12, KeptStays
<1>15. CASE out = "ok"
  <2>1. Advance("meet", "join", <<>>)
    BY <1>10, <1>15
  <2>2. \/ /\ pc' = "meet" /\ todo' \in Seq(Node) /\ todo' # <<>> /\ Len(todo') <= Len(nodes)
           /\ \A i \in 1..Len(todo') : todo'[i] = Visited' + i
        \/ /\ pc' = "join" /\ todo' = <<>>
    BY <1>1, <1>2, <1>5, <1>7, <2>1, LoopAdvances
  <2>3. TypeInv'
    <3>1. <<>> \in Seq(Node)
      OBVIOUS
    <3>2. todo' \in Seq(Node)
      BY <2>2, <3>1, Zenon
    <3>3. TypeInv
      OBVIOUS
    <3> QED
      BY ONLY <1>2, <1>3, <1>12, <3>2, <3>3 DEF TypeInv
  <2>4. StepInv'
    BY ONLY <1>1, <1>2, <1>5, <2>2 DEF StepInv, CreateSteps, Loops
  <2>5. NodesInv'
    BY ONLY <1>1, <1>2, <1>3, <1>5, <1>6, <1>13, <2>2 DEF NodesInv, Planned
  <2>6. CreateInv'
    BY ONLY <1>1, <1>2, <1>3, <1>8, <1>14, <2>2, <2>5 DEF CreateInv
  <2> QED
    BY <1>4, <1>17, <2>3, <2>4, <2>6
<1>16. CASE out # "ok"
  <2>1. pc' = "done" /\ todo' = <<>> /\ success' = FALSE
    BY <1>10, <1>16 DEF Fail
  <2>2. TypeInv'
    <3>1. todo' \in Seq(Node)
      BY <2>1
    <3>2. TypeInv
      OBVIOUS
    <3> QED
      BY ONLY <1>2, <1>3, <1>12, <3>1, <3>2 DEF TypeInv
  <2>3. StepInv'
    BY ONLY <1>1, <1>2, <1>5, <2>1 DEF StepInv, CreateSteps, Loops
  <2>4. NodesInv'
    BY ONLY <1>1, <1>2, <1>3, <1>5, <1>6, <1>13, <2>1 DEF NodesInv, Planned
  <2>5. CreateInv'
    BY ONLY <1>1, <1>2, <1>3, <2>1, <2>4 DEF CreateInv
  <2> QED
    BY <1>4, <1>17, <2>2, <2>3, <2>5
<1> QED
  BY <1>15, <1>16

LEMMA LoseLinkKeeps ==
    ASSUME IInv, LoseLink
    PROVE  IInv'
<1> USE DEF IInv
<1>1. pc = "join" /\ lost \subseteq lost'
  BY DEF LoseLink, At
<1>2. UNCHANGED <<layout, slots, role, epoch, knows, banned, nodes, plan, pc, todo, cmd, success>>
  BY DEF LoseLink, cluster
<1>3. /\ Node' = Node /\ Masters' = Masters
      /\ SlotsDivided' = SlotsDivided /\ ReplicasFit' = ReplicasFit /\ Visited' = Visited
  BY <1>2 DEF Node, SlotsDivided, ReplicasFit, Masters, Visited
<1>4. TypeInv' /\ StepInv' /\ AddInv'
  BY <1>2, <1>3, Zenon DEF TypeInv, StepInv, AddInv
<1>5. DelInv'
  BY <1>2, Zenon DEF DelInv, Forgot
<1>6. CreateInv'
  <2>1. CASE cmd.name # "create"
    BY <1>2, <2>1, MembersLeaveCreate
  <2>2. CASE cmd.name = "create"
    <3>1. NodesInv /\ \A k \in Range(nodes) : role[k] = 0 /\ Told(k) /\ Numbered(k)
      BY <1>1, <2>2, Zenon DEF CreateInv
    <3>2. NodesInv'
      BY ONLY <1>2, <1>3, <3>1 DEF NodesInv, Planned
    <3>3. \A k \in Range(nodes) : Told(k)' /\ Numbered(k)'
      BY <1>1, <1>2, <3>1 DEF Told, Numbered
    <3> QED
      BY ONLY <1>1, <1>2, <1>3, <3>1, <3>2, <3>3 DEF CreateInv
  <2> QED
    BY <2>1, <2>2
<1>7. KeptInv'
  BY <1>2, KeptStays
<1> QED
  BY <1>4, <1>5, <1>6, <1>7

\* When all nodes answer and say the same of the slots, each knows every master: a master
\* itself tells of its own slots.
LEMMA ConsistentKnowMasters ==
    ASSUME ConfigConsistent, Range(nodes) \subseteq Node, \A n \in Node : n \in knows[n],
           \A n \in Range(nodes) : slots[n] = plan[n].slots \/ n \in lost
    PROVE  \A n \in Range(nodes) :
              n \notin lost /\ slots[n] = plan[n].slots /\ Masters \subseteq knows[n]
<1> DEFINE signature(n) == {<<m, slots[m]>> : m \in {x \in knows[n] : slots[x] # <<>>}}
<1>1. /\ Range(nodes) \cap lost = {}
      /\ \A n \in Range(nodes) : signature(n) = signature(nodes[1])
  BY DEF ConfigConsistent
<1>2. \A n \in Range(nodes) : n \notin lost /\ slots[n] = plan[n].slots
  BY <1>1
<1>3. ASSUME NEW n \in Range(nodes), NEW m \in Masters PROVE m \in knows[n]
  <2>1. m \in Range(nodes) /\ plan[m].slots # <<>>
    BY DEF Masters
  <2>2. m \in knows[m] /\ slots[m] # <<>>
    BY <1>2, <2>1
  <2>3. <<m, slots[m]>> \in signature(m)
    BY <2>2
  <2>4. signature(m) = signature(n)
    <3> HIDE DEF signature
    <3> QED
      BY <1>1, <2>1
  <2>5. <<m, slots[m]>> \in signature(n)
    <3> HIDE DEF signature
    <3> QED
      BY <2>3, <2>4
  <2>6. PICK x \in knows[n] : <<m, slots[m]>> = <<x, slots[x]>>
    BY <2>5
  <2> QED
    BY <2>6
<1> QED
  BY <1>2, <1>3

LEMMA WaitForClusterJoinKeeps ==
    ASSUME IInv, WaitForClusterJoin
    PROVE  IInv'
<1> USE DEF IInv
<1>1. pc = "join" /\ ConfigConsistent
  BY DEF WaitForClusterJoin, At
<1>2. UNCHANGED <<layout, slots, role, epoch, knows, banned, nodes, plan, cmd, success, lost>>
  BY DEF WaitForClusterJoin, cluster
<1>3. /\ Node' = Node /\ Masters' = Masters
      /\ SlotsDivided' = SlotsDivided /\ ReplicasFit' = ReplicasFit
  BY <1>2 DEF Node, SlotsDivided, ReplicasFit, Masters
<1>4. nodes \in Seq(Node) /\ cmd.name \in {"create", "add", "del"}
  BY DEF TypeInv
<1>5. TypeInv
  OBVIOUS
<1>8. KeptInv'
  BY <1>2, KeptStays
<1>6. CASE cmd.name = "create"
  <2>1. pc' = "replicas" /\ todo' = nodes
    BY <1>6 DEF WaitForClusterJoin
  <2>2. /\ nodes # <<>> /\ 1 < Len(nodes) /\ Len(nodes) <= Len(layout.ips)
        /\ nodes = [n \in 1..Len(nodes) |-> n]
        /\ \A n \in Node : n \in knows[n]
    BY <1>1, <1>6 DEF CreateInv, NodesInv, Planned
  <2>3. /\ Range(nodes) = 1..Len(nodes) /\ Len(nodes) \in Nat \ {0}
        /\ Range(nodes) \subseteq Node /\ SlotsDivided /\ ReplicasFit
    BY <1>6, <2>2, NodesAreNumbers
  <2>4. /\ \A k \in Range(nodes) : role[k] = 0
        /\ \A k \in Range(nodes) : Told(k) /\ Numbered(k)
    BY <1>1, <1>6 DEF CreateInv
  <2>5. /\ todo' # <<>> /\ Len(todo') <= Len(nodes') /\ Visited' = 0
        /\ \A i \in 1..Len(todo') : todo'[i] = Visited' + i
    BY <1>2, <1>4, <2>1, <2>2, LoopBegins
  <2>6. \A k \in Range(nodes) : k \notin lost /\ slots[k] = plan[k].slots /\ Masters \subseteq knows[k]
    <3>1. \A k \in Range(nodes) : slots[k] = plan[k].slots \/ k \in lost
      BY <2>4 DEF Told
    <3> QED
      BY <1>1, <2>2, <2>3, <3>1, ConsistentKnowMasters
  <2>7. ASSUME NEW k \in Range(nodes)
        PROVE  /\ Settled(k)' /\ role'[k] = 0 /\ ~(k <= Visited')
               /\ plan'[k].dirty = (plan'[k].replicate # 0)
    <3>1. Told(k) /\ Numbered(k) /\ k \in Node
      BY <2>3, <2>4
    <3>2. Settled(k)'
      BY <1>2, <1>3, <2>6, <3>1 DEF Settled, Numbered
    <3>3. ~(k <= Visited')
      BY <2>3, <2>5
    <3>4. plan'[k].dirty = (plan'[k].replicate # 0)
      BY <1>2, <3>1 DEF Told
    <3>5. role'[k] = 0
      BY <1>2, <2>4, <3>1
    <3> QED
      BY <3>2, <3>3, <3>4, <3>5
  <2>8. TypeInv'
    BY ONLY <1>2, <1>3, <1>4, <1>5, <2>1 DEF TypeInv
  <2>9. StepInv'
    BY ONLY <1>2, <1>6, <2>1, <2>5 DEF StepInv, CreateSteps, Loops
  <2>10. AddInv' /\ DelInv'
    BY <1>2, <1>6, CreateLeavesMembers
  <2>11. NodesInv'
    BY ONLY <1>2, <1>3, <1>6, <2>1, <2>2, <2>3, <2>5 DEF NodesInv, Planned
  <2>12. CreateInv'
    BY ONLY <1>2, <1>3, <1>6, <2>1, <2>7, <2>11 DEF CreateInv
  <2> QED
    BY <1>8, <2>8, <2>9, <2>10, <2>12
<1>7. CASE cmd.name # "create"
  <2>1. pc' = "replicate" /\ todo' = <<>>
    BY <1>7 DEF WaitForClusterJoin
  <2>2. cmd.name = "add"
    BY <1>1, <1>4, <1>7 DEF StepInv, DelSteps
  <2>3. TypeInv'
    <3>1. todo' \in Seq(Node)
      BY <2>1
    <3> QED
      BY ONLY <1>2, <1>3, <1>5, <3>1 DEF TypeInv
  <2>4. StepInv'
    BY <1>2, <1>3, <2>1, <2>2 DEF StepInv, AddSteps, Loops
  <2>5. AddInv' /\ DelInv'
    BY <1>1, <1>2, <2>1, <2>2 DEF AddInv, DelInv
  <2>6. CreateInv'
    BY <1>2, <1>7, MembersLeaveCreate
  <2> QED
    BY <1>8, <2>3, <2>4, <2>5, <2>6
<1> QED
  BY <1>6, <1>7

LEMMA GossipKeeps ==
    ASSUME IInv, Gossip
    PROVE  IInv'
<1> USE DEF IInv
<1>1. PICK m, n \in Node : Learn(n, m)
  BY DEF Gossip
<1>2. /\ UNCHANGED <<layout, slots, role, epoch, banned, nodes, plan, pc, todo, cmd, success, lost>>
      /\ pc \in {"join", "done"}
  BY <1>1 DEF Learn
<1>3. /\ Node' = Node /\ Masters' = Masters
      /\ SlotsDivided' = SlotsDivided /\ ReplicasFit' = ReplicasFit /\ Visited' = Visited
  BY <1>2, Zenon DEF Node, SlotsDivided, ReplicasFit, Masters, Visited
<1>4. /\ m \in knows[n] /\ ~(knows[m] \subseteq knows[n] \cup banned[n])
      /\ knows' = [knows EXCEPT ![n] = @ \cup (knows[m] \ banned[n])]
  BY <1>1, Zenon DEF Learn
<1>5. knows \in [Node -> SUBSET Node]
  BY DEF TypeInv
<1>6. \A k \in Node : knows'[k] = IF k = n THEN knows[n] \cup (knows[m] \ banned[n]) ELSE knows[k]
  BY <1>1, <1>4, <1>5
<1>7. knows' \in [Node -> SUBSET Node]
  BY <1>1, <1>4, <1>5
<1>8. \A k \in Node : knows[k] \subseteq knows'[k]
  BY <1>6
<1>9. nodes \in Seq(Node) /\ Range(nodes) \subseteq Node
  BY Elements DEF TypeInv
<1>10. TypeInv' /\ StepInv'
  BY <1>2, <1>3, <1>7, Zenon DEF TypeInv, StepInv
<1>11. AddInv'
  <2>1. cmd.name = "add" => cmd.node \in Node
    BY DEF StepInv
  <2> QED
    BY <1>2, <1>8, <2>1, Zenon DEF AddInv
<1>12. DelInv'
  <2>1. SUFFICES ASSUME cmd.name = "del", pc = "done", success
                 PROVE  /\ \A k \in Range(nodes) \ {cmd.node} : Forgot(k)'
                        /\ knows'[cmd.node] = {cmd.node}
    BY <1>2 DEF DelInv
  <2>2. /\ \A k \in Range(nodes) \ {cmd.node} : Forgot(k)
        /\ knows[cmd.node] = {cmd.node} /\ cmd.node \in Node
    BY <2>1 DEF DelInv, StepInv
  <2>3. knows'[cmd.node] = {cmd.node}
    <3>1. cmd.node # n
      BY <1>4, <2>2
    <3> QED
      BY <1>6, <2>2, <3>1
  <2>4. ASSUME NEW k \in Range(nodes) \ {cmd.node} PROVE Forgot(k)'
    BY <1>2, <1>6, <1>9, <2>2 DEF Forgot
  <2> QED
    BY <2>3, <2>4
<1>13. CreateInv'
  <2>1. CASE cmd.name # "create"
    BY <1>2, <2>1, MembersLeaveCreate
  <2>2. CASE cmd.name = "create"
    <3>1. NodesInv
      BY <2>2 DEF CreateInv
    <3>2. NodesInv'
      <4>1. \A k \in Node : k \in knows'[k]
        BY <1>8, <3>1 DEF NodesInv
      <4> QED
        BY ONLY <1>2, <1>3, <3>1, <4>1 DEF NodesInv, Planned
    <3>3. pc = "join" => \A k \in Range(nodes) : role[k] = 0 /\ Told(k)' /\ Numbered(k)'
      BY <1>2, <2>2 DEF CreateInv, Told, Numbered
    <3>4. pc = "done" /\ success /\ nodes # <<>>
          => \A k \in Range(nodes) : Settled(k)' /\ Follows(k)'
      <4>1. SUFFICES ASSUME pc = "done", success, nodes # <<>>,
                            NEW k \in Range(nodes)
                     PROVE  Settled(k)' /\ Follows(k)'
        OBVIOUS
      <4>2. Settled(k) /\ Follows(k)
        BY <2>2, <4>1 DEF CreateInv
      <4> QED
        BY <1>2, <1>3, <1>8, <1>9, <4>2 DEF Settled, Follows
    <3> QED
      BY ONLY <1>2, <1>3, <3>2, <3>3, <3>4, Zenon DEF CreateInv
  <2> QED
    BY <2>1, <2>2
<1>14. KeptInv'
  BY <1>2, <1>8, KeptStays
<1> QED
  BY <1>10, <1>11, <1>12, <1>13, <1>14

LEMMA FlushReplicasKeeps ==
    ASSUME IInv, FlushReplicas
    PROVE  IInv'
<1> USE DEF IInv
<1>1. pc = "replicas" /\ cmd.name = "create" /\ todo # <<>>
  BY DEF FlushReplicas, At, StepInv, AddSteps, DelSteps, TypeInv, Loops
<1>2. UNCHANGED <<layout, epoch, knows, banned, nodes, cmd>>
  BY DEF FlushReplicas
<1>3. Node' = Node
  BY <1>2 DEF Node
<1>4. AddInv' /\ DelInv'
  BY <1>1, <1>2, CreateLeavesMembers
<1>5. /\ nodes # <<>> /\ 1 < Len(nodes) /\ Len(nodes) <= Len(layout.ips)
      /\ nodes = [n \in 1..Len(nodes) |-> n]
      /\ Len(todo) <= Len(nodes) /\ \A i \in 1..Len(todo) : todo[i] = Visited + i
      /\ \A n \in Node : n \in knows[n]
  BY <1>1 DEF CreateInv, NodesInv, Planned
<1>6. /\ Range(nodes) = 1..Len(nodes) /\ Len(nodes) \in Nat \ {0}
      /\ Range(nodes) \subseteq Node /\ SlotsDivided /\ ReplicasFit
  BY <1>1, <1>5, NodesAreNumbers
<1>7. /\ nodes \in Seq(Node) /\ todo \in Seq(Node)
      /\ slots \in [Node -> Ranges] /\ role \in [Node -> Nat]
      /\ plan \in [Node -> [slots : Ranges, replicate : Nat, dirty : BOOLEAN]]
  BY DEF TypeInv
<1>8. \A k \in Range(nodes) :
        /\ Settled(k)
        /\ IF k <= Visited THEN Follows(k)
           ELSE role[k] = 0 /\ plan[k].dirty = (plan[k].replicate # 0)
        /\ plan[k].replicate = 0 => role[k] = 0
  BY <1>1, Zenon DEF CreateInv
<1> PICK n : n = Head(todo)
  OBVIOUS
<1>9. IF ~plan[n].dirty
      THEN /\ UNCHANGED <<slots, role, plan, success, lost, faults>>
           /\ Advance("replicas", "load", <<>>)
      ELSE \E r \in BOOLEAN :
           /\ FlushNodeConfig(n, r)
           /\ IF r \/ plan[n].replicate # 0
              THEN Advance("replicas", "load", <<>>) /\ UNCHANGED success
              ELSE Fail
  BY DEF FlushReplicas
<1>10. n = Visited + 1 /\ Visited \in Nat /\ n \in Range(nodes) /\ n \in Node
  <2>1. n = todo[1] /\ Len(todo) \in Nat \ {0}
    BY <1>1, <1>7, Elements
  <2>2. todo[1] = Visited + 1 /\ Visited \in Nat /\ Visited + 1 <= Len(nodes)
    <3>1. 1 \in 1..Len(todo)
      BY <2>1
    <3>2. Visited = Len(nodes) - Len(todo)
      BY DEF Visited
    <3> QED
      BY <1>5, <1>6, <2>1, <3>1, <3>2
  <2>3. n \in 1..Len(nodes)
    BY <1>6, <2>1, <2>2
  <2> QED
    BY <1>6, <2>1, <2>2, <2>3
<1>11. /\ Settled(n) /\ role[n] = 0 /\ plan[n].dirty = (plan[n].replicate # 0)
  <2>1. ~(n <= Visited)
    BY <1>10
  <2> QED
    BY <1>8, <1>10, <2>1
<1>12. /\ Advance("replicas", "load", <<>>)
       /\ slots' = slots /\ role' \in [Node -> Nat]
       /\ plan' \in [Node -> [slots : Ranges, replicate : Nat, dirty : BOOLEAN]]
       /\ \A k \in Node : /\ plan'[k].slots = plan[k].slots
                          /\ plan'[k].replicate = plan[k].replicate
       /\ \A k \in Node \ {n} : role'[k] = role[k] /\ plan'[k] = plan[k]
       /\ lost \subseteq lost'
       /\ role'[n] = plan[n].replicate \/ n \in lost'
       /\ plan[n].replicate = 0 => role'[n] = 0
       /\ role'[n] = role[n] \/ \E k \in knows[n] : k # n
  <2>1. CASE ~plan[n].dirty
    <3>1. UNCHANGED <<slots, role, plan, lost>> /\ Advance("replicas", "load", <<>>)
      BY <1>9, <2>1
    <3>2. plan[n].replicate = 0
      BY <1>11, <2>1, Zenon
    <3> QED
      BY <1>7, <1>11, <3>1, <3>2
  <2>2. CASE plan[n].dirty
    <3>1. PICK r \in BOOLEAN :
            /\ FlushNodeConfig(n, r)
            /\ IF r \/ plan[n].replicate # 0
               THEN Advance("replicas", "load", <<>>) /\ UNCHANGED success
               ELSE Fail
      BY <1>9, <2>2, Zenon
    <3>2. plan[n].replicate # 0
      BY <1>11, <2>2, Zenon
    <3>3. /\ role' \in [Node -> Nat]
          /\ plan' \in [Node -> [slots : Ranges, replicate : Nat, dirty : BOOLEAN]]
          /\ \A k \in Node : /\ plan'[k].slots = plan[k].slots
                             /\ plan'[k].replicate = plan[k].replicate
          /\ \A k \in Node \ {n} : role'[k] = role[k] /\ plan'[k] = plan[k]
          /\ lost \subseteq lost'
          /\ slots' = slots
          /\ role'[n] = role[n] \/ \E k \in knows[n] : k # n
          /\ CanReplicate(n, plan[n].replicate)
             => role'[n] = plan[n].replicate \/ n \in lost'
      BY <1>3, <1>10, <3>1, <3>2, FlushNodeConfigDoes, Zenon
    <3>4. CanReplicate(n, plan[n].replicate)
      <4> PICK m : m = plan[n].replicate
        OBVIOUS
      <4>1. n \notin Masters /\ m \in Masters
        BY <1>6, <1>10, <3>2 DEF ReplicasFit
      <4>2. m \in knows[n] \ {n}
        BY <1>11, <4>1 DEF Settled
      <4>3. slots[n] = <<>>
        BY <1>10, <1>11, <4>1 DEF Settled, Masters
      <4>4. m \in Range(nodes) /\ plan[m].replicate = 0
        BY <1>6, <4>1 DEF ReplicasFit, Masters
      <4>5. role[m] = 0
        BY <1>8, <4>4
      <4> QED
        BY <4>2, <4>3, <4>5 DEF CanReplicate
    <3> QED
      BY <3>1, <3>2, <3>3, <3>4, Zenon
  <2>3. plan[n].dirty \in BOOLEAN
    BY <1>11
  <2> QED
    BY <2>1, <2>2
<1>13. \/ /\ pc' = "replicas" /\ todo' \in Seq(Node) /\ todo' # <<>> /\ Len(todo') <= Len(nodes)
          /\ Visited' = Visited + 1
          /\ \A i \in 1..Len(todo') : todo'[i] = Visited' + i
       \/ /\ pc' = "load" /\ todo' = <<>> /\ Visited + 1 = Len(nodes)
  BY <1>1, <1>2, <1>5, <1>7, <1>12, LoopAdvances, Zenon
<1>14. Masters' = Masters /\ SlotsDivided' /\ ReplicasFit'
  BY <1>2, <1>6, <1>12, PlanKept, Zenon
<1>15. ASSUME NEW k \in Range(nodes)
       PROVE  /\ Settled(k)'
              /\ IF k <= Visited + 1 THEN Follows(k)'
                 ELSE role'[k] = 0 /\ plan'[k].dirty = (plan'[k].replicate # 0)
              /\ plan'[k].replicate = 0 => role'[k] = 0
  <2>1. k \in Node /\ k \in Nat
    BY <1>6
  <2>2. Settled(k)'
    BY <1>2, <1>8, <1>12, <1>14, <2>1 DEF Settled
  <2>3. plan'[k].replicate = plan[k].replicate
    BY <1>12, <2>1
  <2>4. CASE k = n
    <3>1. k <= Visited + 1
      BY <1>10, <2>4
    <3>2. Follows(k)'
      BY <1>12, <2>3, <2>4 DEF Follows
    <3> QED
      BY <1>12, <2>2, <2>3, <2>4, <3>1, <3>2
  <2>5. CASE k # n
    <3>1. role'[k] = role[k] /\ plan'[k] = plan[k] /\ lost \subseteq lost'
      BY <1>12, <2>1, <2>5
    <3>2. k <= Visited + 1 <=> k <= Visited
      BY <1>10, <2>1, <2>5
    <3>3. Follows(k) => Follows(k)'
      BY <3>1 DEF Follows
    <3> QED
      BY <1>8, <2>2, <3>1, <3>2, <3>3
  <2> QED
    BY <2>4, <2>5
<1>16. TypeInv'
  <2>1. <<>> \in Seq(Node)
    OBVIOUS
  <2>2. todo' \in Seq(Node)
    BY <1>13, <2>1, Zenon
  <2>3. TypeInv
    OBVIOUS
  <2> QED
    BY ONLY <1>2, <1>3, <1>12, <2>2, <2>3, Zenon DEF TypeInv
<1>17. StepInv'
  BY ONLY <1>1, <1>2, <1>13 DEF StepInv, CreateSteps, Loops
<1>18. NodesInv'
  BY ONLY <1>1, <1>2, <1>3, <1>5, <1>13, <1>14 DEF NodesInv, Planned
<1>19. CreateInv'
  <2>1. CASE pc' = "replicas" /\ Visited' = Visited + 1
    BY ONLY <1>1, <1>2, <1>3, <1>15, <1>18, <2>1 DEF CreateInv
  <2>2. CASE pc' = "load" /\ Visited + 1 = Len(nodes)
    <3>1. \A k \in Range(nodes) : k <= Visited + 1
      BY <1>6, <2>2
    <3> QED
      BY ONLY <1>1, <1>2, <1>3, <1>15, <1>18, <2>2, <3>1 DEF CreateInv
  <2> QED
    BY <1>13, <2>1, <2>2
<1>20. KeptInv'
  <2>1. \A k \in Node : role'[k] = role[k] \/ \E m \in knows[k] : m # k
    BY <1>12, Zenon
  <2> QED
    BY <1>2, <1>5, <1>12, <2>1, KeptTold
<1> QED
  BY <1>4, <1>16, <1>17, <1>19, <1>20

LEMMA LoadAgainKeeps ==
    ASSUME IInv, LoadAgain
    PROVE  IInv'
<1> USE DEF IInv
<1>1. pc = "load" /\ pc' = "done" /\ cmd.name = "create" /\ todo = <<>>
  BY DEF LoadAgain, At, StepInv, AddSteps, DelSteps, TypeInv, Loops
<1>2. UNCHANGED <<layout, slots, role, epoch, knows, banned, nodes, plan, todo, cmd, lost>>
  BY DEF LoadAgain, cluster
<1>3. /\ Node' = Node /\ Masters' = Masters
      /\ SlotsDivided' = SlotsDivided /\ ReplicasFit' = ReplicasFit
  BY <1>2 DEF Node, SlotsDivided, ReplicasFit, Masters
<1>4. AddInv' /\ DelInv'
  BY <1>1, <1>2, CreateLeavesMembers
<1>5. TypeInv'
  BY <1>2, <1>3 DEF TypeInv
<1>6. StepInv'
  BY <1>1, <1>2 DEF StepInv, CreateSteps, Loops
<1>7. NodesInv /\ \A k \in Range(nodes) : Settled(k) /\ Follows(k)
  BY <1>1, Zenon DEF CreateInv
<1>8. \A k \in Range(nodes) : Settled(k)' /\ Follows(k)'
  BY <1>2, <1>3, <1>7, Zenon DEF Settled, Follows
<1>9. NodesInv'
  BY ONLY <1>1, <1>2, <1>3, <1>7 DEF NodesInv, Planned
<1>10. CreateInv'
  BY ONLY <1>1, <1>2, <1>8, <1>9 DEF CreateInv
<1>11. KeptInv'
  BY <1>2, KeptStays
<1> QED
  BY <1>4, <1>5, <1>6, <1>10, <1>11

-----------------------------------------------------------------------------
(* add-node and del-node                                                   *)

LEMMA CheckAndChooseKeeps ==
    ASSUME IInv, CheckAndChoose
    PROVE  IInv'
<1> USE DEF IInv
<1>1. pc = "check" /\ cmd.name = "add" /\ todo = <<>>
  BY Zenon DEF CheckAndChoose, At, StepInv, CreateSteps, DelSteps, TypeInv, Loops
<1>2. UNCHANGED <<layout, slots, role, epoch, knows, banned, plan>>
  BY Zenon DEF CheckAndChoose, cluster
<1>3. Node' = Node
  BY <1>2 DEF Node
<1>4. cmd.node \in Node /\ nodes \in Seq(Node) /\ nodes # <<>> /\ nodes[1] # cmd.node
  BY <1>1 DEF StepInv, TypeInv
<1>5. TypeInv
  OBVIOUS
<1>6. \/ pc' = "done" /\ todo' = <<>> /\ success' = FALSE /\ UNCHANGED <<nodes, cmd>>
      \/ /\ IF cmd.slave THEN \E m : cmd' = [cmd EXCEPT !.master = m] ELSE cmd' = cmd
         /\ nodes' = Append(nodes, cmd.node) /\ pc' = "add" /\ todo' = todo
  BY Zenon DEF CheckAndChoose, Fail
<1>7. CASE pc' = "done" /\ todo' = <<>> /\ success' = FALSE /\ UNCHANGED <<nodes, cmd>>
  <2>1. TypeInv'
    BY ONLY <1>1, <1>2, <1>3, <1>5, <1>7 DEF TypeInv
  <2>2. StepInv'
    BY ONLY <1>1, <1>3, <1>4, <1>7 DEF StepInv, AddSteps, Loops
  <2>3. AddInv' /\ DelInv' /\ CreateInv' /\ KeptInv'
    BY ONLY <1>1, <1>7, Zenon DEF AddInv, DelInv, CreateInv, KeptInv
  <2> QED
    BY <2>1, <2>2, <2>3
<1>8. CASE /\ IF cmd.slave THEN \E m : cmd' = [cmd EXCEPT !.master = m] ELSE cmd' = cmd
           /\ nodes' = Append(nodes, cmd.node) /\ pc' = "add" /\ todo' = todo
  <2>1. /\ cmd' \in [name : {"create", "add", "del"}, node : Node \cup {0}, slave : BOOLEAN,
                     master : {cmd'.master}]
        /\ cmd'.name = "add" /\ cmd'.node = cmd.node
    <3>1. PICK m : cmd' = IF cmd.slave THEN [cmd EXCEPT !.master = m] ELSE cmd
      BY <1>8, Zenon
    <3>2. cmd \in [name : {"create", "add", "del"}, node : Node \cup {0}, slave : BOOLEAN,
                   master : {cmd.master}]
      BY DEF TypeInv
    <3> QED
      BY ONLY <1>1, <3>1, <3>2
  <2>2. nodes' \in Seq(Node) /\ nodes' # <<>> /\ nodes'[1] = nodes[1]
    <3>1. nodes' \in Seq(Node) /\ Len(nodes') = Len(nodes) + 1 /\ Len(nodes) \in Nat \ {0}
      BY <1>4, <1>8
    <3>2. Len(nodes') # 0 /\ Len(<<>>) = 0 /\ 1 \in 1..Len(nodes)
      BY <3>1
    <3> QED
      BY <1>4, <1>8, <3>1, <3>2
  <2>3. TypeInv'
    BY ONLY <1>2, <1>3, <1>5, <1>8, <2>1, <2>2 DEF TypeInv
  <2>4. StepInv'
    BY ONLY <1>1, <1>3, <1>4, <1>8, <2>1, <2>2 DEF StepInv, AddSteps, Loops
  <2>5. AddInv' /\ DelInv' /\ CreateInv' /\ KeptInv'
    BY ONLY <1>8, <2>1 DEF AddInv, DelInv, CreateInv, KeptInv
  <2> QED
    BY <2>3, <2>4, <2>5
<1> QED
  BY <1>6, <1>7, <1>8, Zenon

LEMMA AddNodeKeeps ==
    ASSUME IInv, AddNode
    PROVE  IInv'
<1> USE DEF IInv
<1>1. pc = "add" /\ cmd.name = "add" /\ todo = <<>>
  BY DEF AddNode, At, StepInv, CreateSteps, DelSteps, TypeInv, Loops
<1>2. UNCHANGED <<layout, slots, role, epoch, banned, nodes, plan, cmd>>
  BY DEF AddNode
<1>3. Node' = Node
  BY <1>2 DEF Node
<1>4. cmd.node \in Node /\ nodes \in Seq(Node) /\ nodes # <<>> /\ nodes[1] # cmd.node
  BY <1>1 DEF StepInv, TypeInv
<1>5. TypeInv /\ nodes[1] \in Node /\ knows \in [Node -> SUBSET Node]
  <2>1. TypeInv /\ knows \in [Node -> SUBSET Node]
    BY DEF TypeInv
  <2>2. nodes[1] \in Node
    BY ONLY <1>4, Elements
  <2> QED
    BY ONLY <2>1, <2>2
<1>6. PICK out \in Outcomes(cmd.node, TRUE) :
        /\ IF Executed(out) THEN Introduce(cmd.node, nodes[1]) ELSE UNCHANGED knows
        /\ IF out # "ok" THEN Fail
           ELSE /\ pc' = IF cmd.slave THEN "join" ELSE "done"
                /\ UNCHANGED <<todo, success>>
  BY Zenon DEF AddNode
<1>7. knows' \in [Node -> SUBSET Node] /\ (Executed(out) => nodes[1] \in knows'[cmd.node])
  BY <1>4, <1>5, <1>6, IntroduceGrows
<1>8. todo' = <<>> /\ todo' \in Seq(Node)
  <2>1. todo' = <<>>
    BY <1>1, <1>6 DEF Fail
  <2> QED
    BY <2>1
<1>9. \/ pc' = "done" /\ success' = FALSE
      \/ /\ nodes[1] \in knows'[cmd.node]
         /\ pc' = "join" \/ (pc' = "done" /\ ~cmd.slave)
  BY <1>6, <1>7 DEF Fail, Executed
<1>10. TypeInv'
  BY ONLY <1>2, <1>3, <1>5, <1>7, <1>8 DEF TypeInv
<1>11. StepInv'
  BY ONLY <1>1, <1>2, <1>3, <1>4, <1>8, <1>9 DEF StepInv, AddSteps, Loops
<1>12. AddInv' /\ DelInv' /\ CreateInv' /\ KeptInv'
  BY ONLY <1>1, <1>2, <1>9, Zenon DEF AddInv, DelInv, CreateInv, KeptInv
<1> QED
  BY <1>10, <1>11, <1>12

LEMMA ReplicateMasterKeeps ==
    ASSUME IInv, ReplicateMaster
    PROVE  IInv'
<1> USE DEF IInv
<1>1. pc = "replicate" /\ cmd.name = "add" /\ todo = <<>> /\ pc' = "done"
  BY DEF ReplicateMaster, At, StepInv, CreateSteps, DelSteps, TypeInv, Loops
<1>2. UNCHANGED <<layout, slots, epoch, knows, banned, nodes, plan, todo, cmd>>
  BY DEF ReplicateMaster
<1>3. Node' = Node
  BY <1>2 DEF Node
<1>4. cmd.node \in Node /\ nodes \in Seq(Node) /\ nodes # <<>> /\ nodes[1] # cmd.node
  BY <1>1 DEF StepInv, TypeInv
<1>5. /\ TypeInv /\ role \in [Node -> Nat] /\ knows \in [Node -> SUBSET Node]
      /\ \A n \in Node : n \in Nat
  BY NodeFacts DEF TypeInv
<1>6. PICK out \in Outcomes(cmd.node, CanReplicate(cmd.node, cmd.master)) :
        /\ role' = IF Executed(out) THEN [role EXCEPT ![cmd.node] = cmd.master] ELSE role
        /\ success' = (out = "ok")
  BY DEF ReplicateMaster
<1>7. Executed(out) => cmd.master \in Nat
  <2>1. Executed(out) => CanReplicate(cmd.node, cmd.master)
    BY <1>6 DEF Outcomes, Executed
  <2> QED
    BY <1>4, <1>5, <2>1, Zenon DEF CanReplicate
<1>8. role' \in [Node -> Nat] /\ (Executed(out) => role'[cmd.node] = cmd.master)
  BY <1>4, <1>5, <1>6, <1>7
<1>9. success' => role'[cmd.node] = cmd.master
  BY <1>6, <1>8, Zenon DEF Executed
<1>10. TypeInv'
  BY ONLY <1>2, <1>3, <1>5, <1>8 DEF TypeInv
<1>11. StepInv'
  BY ONLY <1>1, <1>2, <1>3, <1>4 DEF StepInv, AddSteps, Loops
<1>12. nodes[1] \in knows[cmd.node]
  BY <1>1 DEF AddInv
<1>13. AddInv' /\ DelInv' /\ CreateInv' /\ KeptInv'
  BY ONLY <1>1, <1>2, <1>9, <1>12, Zenon DEF AddInv, DelInv, CreateInv, KeptInv
<1> QED
  BY <1>10, <1>11, <1>13

LEMMA ReassignKeeps ==
    ASSUME IInv, Reassign
    PROVE  IInv'
<1> USE DEF IInv
<1>1. pc = "reassign" /\ cmd.name = "del" /\ todo # <<>>
  BY DEF Reassign, At, StepInv, CreateSteps, AddSteps, TypeInv, Loops
<1>2. UNCHANGED <<layout, slots, epoch, knows, banned, nodes, plan, cmd>>
  BY DEF Reassign
<1>3. Node' = Node
  BY <1>2 DEF Node
<1>4. cmd.node \in Node /\ nodes \in Seq(Node) /\ nodes # <<>> /\ nodes[1] # cmd.node
  BY <1>1 DEF StepInv, TypeInv
<1>5. /\ TypeInv /\ role \in [Node -> Nat] /\ knows \in [Node -> SUBSET Node]
      /\ todo \in Seq(Node) /\ \A n \in Node : n \in Nat
  BY NodeFacts DEF TypeInv
<1> PICK n : n = Head(todo)
  OBVIOUS
<1> PICK m : m = NodeWithLeastReplicas
  OBVIOUS
<1>6. n \in Node /\ n \in Range(todo) /\ Range(nodes) \subseteq Node
  BY <1>1, <1>4, <1>5, Elements
<1>7. PICK out \in Outcomes(n, CanReplicate(n, m)) :
        /\ role' = IF Executed(out) THEN [role EXCEPT ![n] = m] ELSE role
        /\ IF out = "ok" THEN pc' = "forget" /\ UNCHANGED <<todo, success>> ELSE Fail
  BY DEF Reassign
<1>8. Executed(out) => m \in Nat
  <2>1. Executed(out) => CanReplicate(n, m)
    BY <1>7 DEF Outcomes, Executed
  <2> QED
    BY <1>5, <1>6, <2>1 DEF CanReplicate
<1>9. role' \in [Node -> Nat] /\ \A k \in Node \ {n} : role'[k] = role[k]
  BY <1>5, <1>6, <1>7, <1>8
<1>10. \/ pc' = "forget" /\ todo' = todo
       \/ pc' = "done" /\ todo' = <<>> /\ success' = FALSE
  BY <1>7 DEF Fail
<1>11. TypeInv'
  <2>1. <<>> \in Seq(Node)
    OBVIOUS
  <2>2. todo' \in Seq(Node)
    BY <1>5, <1>10, <2>1, Zenon
  <2> QED
    BY ONLY <1>2, <1>3, <1>5, <1>9, <2>2 DEF TypeInv
<1>12. StepInv'
  BY ONLY <1>1, <1>2, <1>3, <1>4, <1>10 DEF StepInv, DelSteps, Loops
<1>13. ASSUME NEW k \in Range(nodes) \ ({cmd.node} \cup Range(todo)) PROVE Forgot(k)'
  <2>1. Forgot(k) /\ k \in Node \ {n}
    BY <1>1, <1>6 DEF DelInv
  <2> QED
    BY <1>2, <1>9, <2>1 DEF Forgot
<1>14. DelInv'
  BY ONLY <1>2, <1>10, <1>13 DEF DelInv
<1>15. AddInv' /\ CreateInv' /\ KeptInv'
  BY <1>1, <1>2, Zenon DEF AddInv, CreateInv, KeptInv
<1> QED
  BY <1>11, <1>12, <1>14, <1>15

LEMMA ForgetKeeps ==
    ASSUME IInv, Forget
    PROVE  IInv'
<1> USE DEF IInv
<1>1. pc = "forget" /\ cmd.name = "del" /\ todo # <<>>
  BY DEF Forget, At, StepInv, CreateSteps, AddSteps, TypeInv
<1>2. UNCHANGED <<layout, slots, role, epoch, nodes, plan, cmd>>
  BY Zenon DEF Forget
<1>3. Node' = Node
  BY <1>2 DEF Node
<1>4. cmd.node \in Node /\ nodes \in Seq(Node) /\ nodes # <<>> /\ nodes[1] # cmd.node
  BY <1>1 DEF StepInv, TypeInv
<1>5. /\ TypeInv /\ knows \in [Node -> SUBSET Node] /\ banned \in [Node -> SUBSET Node]
      /\ todo \in Seq(Node)
  BY DEF TypeInv
<1> PICK n : n = Head(todo)
  OBVIOUS
<1> PICK d : d = cmd.node
  OBVIOUS
<1>6. /\ n \in Node /\ d \in Node /\ Range(nodes) \subseteq Node /\ Len(todo) \in Nat \ {0}
      /\ Tail(todo) \in Seq(Node) /\ Len(Tail(todo)) = Len(todo) - 1
      /\ \A x \in Range(todo) : x = n \/ x \in Range(Tail(todo))
  BY <1>1, <1>4, <1>5, Elements
<1>7. PICK out \in Outcomes(n, CanForget(n, d)) :
        /\ knows' = IF Executed(out) THEN [knows EXCEPT ![n] = @ \ {d}] ELSE knows
        /\ banned' = IF Executed(out) THEN [banned EXCEPT ![n] = @ \cup {d}] ELSE banned
        /\ IF out # "ok" THEN Fail
           ELSE Advance(IF Len(todo) > 1 /\ plan[todo[2]].replicate = d
                        THEN "reassign" ELSE "forget", "reset", <<>>)
  BY Zenon DEF Forget
<1>8. knows' \in [Node -> SUBSET Node] /\ banned' \in [Node -> SUBSET Node]
  BY <1>5, <1>6, <1>7
<1>9. /\ \A k \in Node \ {n} : knows'[k] = knows[k] /\ banned'[k] = banned[k]
      /\ d \notin knows[n] => d \notin knows'[n]
      /\ d \in banned[n] => d \in banned'[n]
      /\ Executed(out) => d \notin knows'[n] /\ d \in banned'[n]
  BY <1>5, <1>6, <1>7, Zenon
<1>10. out = "ok" => Executed(out) /\ role[n] # d
  BY <1>7, Zenon DEF Outcomes, Executed, CanForget
<1>11. ASSUME NEW k \in Node, Forgot(k) PROVE Forgot(k)'
  <2>1. cmd' = cmd /\ role' = role
    BY <1>2
  <2> QED
    BY <1>9, <1>11, <2>1, Zenon DEF Forgot
<1>12. out = "ok" => Forgot(n)'
  BY <1>2, <1>9, <1>10, Zenon DEF Forgot
<1>13. \A k \in Range(nodes) \ ({d} \cup Range(todo)) : Forgot(k)'
  BY <1>1, <1>6, <1>11, Zenon DEF DelInv
<1>14. out = "ok" => \A k \in Range(nodes) \ ({d} \cup Range(Tail(todo))) : Forgot(k)'
  BY <1>6, <1>12, <1>13
<1>15. CASE out # "ok"
  <2>1. pc' = "done" /\ todo' = <<>> /\ success' = FALSE
    BY <1>7, <1>15 DEF Fail
  <2>2. TypeInv'
    <3>1. todo' \in Seq(Node)
      BY <2>1
    <3> QED
      BY ONLY <1>2, <1>3, <1>5, <1>8, <3>1 DEF TypeInv
  <2>3. StepInv'
    BY ONLY <1>1, <1>2, <1>3, <1>4, <2>1 DEF StepInv, DelSteps, Loops
  <2>4. DelInv' /\ AddInv' /\ CreateInv' /\ KeptInv'
    BY ONLY <1>1, <1>2, <2>1, Zenon DEF DelInv, AddInv, CreateInv, KeptInv
  <2> QED
    BY <2>2, <2>3, <2>4
<1>16. CASE out = "ok" /\ Len(todo) > 1
  <2>1. pc' \in {"reassign", "forget"} /\ todo' = Tail(todo)
    BY <1>7, <1>16 DEF Advance
  <2>2. todo' # <<>>
    <3>1. Len(todo') # 0 /\ Len(<<>>) = 0
      BY <1>6, <1>16, <2>1
    <3> QED
      BY <3>1
  <2>3. TypeInv'
    <3>1. todo' \in Seq(Node)
      BY <1>6, <2>1
    <3> QED
      BY ONLY <1>2, <1>3, <1>5, <1>8, <3>1 DEF TypeInv
  <2>4. StepInv'
    BY ONLY <1>1, <1>2, <1>3, <1>4, <2>1, <2>2 DEF StepInv, DelSteps, Loops
  <2>5. \A k \in Range(nodes) \ ({d} \cup Range(todo')) : Forgot(k)'
    BY <1>14, <1>16, <2>1
  <2>6. DelInv'
    <3>1. d = cmd'.node /\ nodes' = nodes
      BY <1>2
    <3> QED
      BY ONLY <2>1, <2>5, <3>1 DEF DelInv
  <2>7. AddInv' /\ CreateInv' /\ KeptInv'
    BY <1>1, <1>2, Zenon DEF AddInv, CreateInv, KeptInv
  <2> QED
    BY <2>3, <2>4, <2>6, <2>7
<1>17. CASE out = "ok" /\ ~(Len(todo) > 1)
  <2>1. pc' = "reset" /\ todo' = <<>>
    BY <1>7, <1>17, Zenon DEF Advance
  <2>2. Range(Tail(todo)) = {}
    <3>1. Len(Tail(todo)) = 0
      BY <1>6, <1>17
    <3> PICK t : t = Tail(todo)
      BY Zenon
    <3>2. DOMAIN t = {}
      BY <1>6, <3>1
    <3> QED
      BY <3>2, Zenon DEF Range
  <2>3. TypeInv'
    <3>1. todo' \in Seq(Node)
      BY <2>1
    <3> QED
      BY ONLY <1>2, <1>3, <1>5, <1>8, <3>1 DEF TypeInv
  <2>4. StepInv'
    BY ONLY <1>1, <1>2, <1>3, <1>4, <2>1 DEF StepInv, DelSteps, Loops
  <2>5. \A k \in Range(nodes) \ {d} : Forgot(k)'
    BY <1>14, <1>17, <2>2
  <2>6. DelInv'
    <3>1. d = cmd'.node /\ nodes' = nodes
      BY <1>2
    <3> QED
      BY ONLY <2>1, <2>5, <3>1 DEF DelInv
  <2>7. AddInv' /\ CreateInv' /\ KeptInv'
    BY <1>1, <1>2, Zenon DEF AddInv, CreateInv, KeptInv
  <2> QED
    BY <2>3, <2>4, <2>6, <2>7
<1> QED
  BY <1>15, <1>16, <1>17

LEMMA ResetKeeps ==
    ASSUME IInv, Reset
    PROVE  IInv'
<1> USE DEF IInv
<1>1. pc = "reset" /\ cmd.name = "del" /\ todo = <<>> /\ pc' = "done"
  BY DEF Reset, At, StepInv, CreateSteps, AddSteps, TypeInv, Loops
<1>2. UNCHANGED <<layout, slots, epoch, banned, nodes, plan, todo, cmd>>
  BY DEF Reset
<1>3. Node' = Node
  BY <1>2 DEF Node
<1>4. cmd.node \in Node /\ nodes \in Seq(Node) /\ nodes # <<>> /\ nodes[1] # cmd.node
  BY <1>1 DEF StepInv, TypeInv
<1>5. /\ TypeInv /\ knows \in [Node -> SUBSET Node] /\ role \in [Node -> Nat]
      /\ Range(nodes) \subseteq Node
  BY <1>4, Elements DEF TypeInv
<1> PICK d : d = cmd.node
  OBVIOUS
<1>6. PICK out \in Outcomes(d, TRUE) :
        /\ knows' = IF Executed(out) THEN [knows EXCEPT ![d] = {d}] ELSE knows
        /\ role' = IF Executed(out) THEN [role EXCEPT ![d] = 0] ELSE role
        /\ success' = (out = "ok")
  BY Zenon DEF Reset
<1>7. /\ knows' \in [Node -> SUBSET Node] /\ role' \in [Node -> Nat]
      /\ \A k \in Node \ {d} : knows'[k] = knows[k] /\ role'[k] = role[k]
      /\ Executed(out) => knows'[d] = {d}
  BY <1>4, <1>5, <1>6
<1>8. success' => knows'[d] = {d}
  BY <1>6, <1>7, Zenon DEF Executed
<1>9. ASSUME NEW k \in Range(nodes) \ {d} PROVE Forgot(k)'
  <2>1. Forgot(k) /\ k \in Node \ {d}
    BY <1>1, <1>5 DEF DelInv
  <2> QED
    BY <1>2, <1>7, <2>1, Zenon DEF Forgot
<1>10. TypeInv'
  BY ONLY <1>2, <1>3, <1>5, <1>7 DEF TypeInv
<1>11. StepInv'
  BY ONLY <1>1, <1>2, <1>3, <1>4 DEF StepInv, DelSteps, Loops
<1>12. DelInv'
  <2>1. d = cmd'.node /\ nodes' = nodes
    BY <1>2
  <2> QED
    BY ONLY <1>1, <1>8, <1>9, <2>1 DEF DelInv
<1>13. AddInv' /\ CreateInv' /\ KeptInv'
  BY <1>1, <1>2, Zenon DEF AddInv, CreateInv, KeptInv
<1> QED
  BY <1>10, <1>11, <1>12, <1>13

-----------------------------------------------------------------------------
(* Every step keeps the invariant.                                         *)

=============================================================================

--------------------------- MODULE ClusterSlots ----------------------------
(***************************************************************************)
(* redis-cli --cluster check, fix, reshard, rebalance: the cluster         *)
(* manager moves hash slots between the masters of a live cluster and       *)
(* repairs what an interrupted move left behind.  The manager is one        *)
(* sequential program that talks to every node over a connection of its     *)
(* own; clients keep writing and the nodes keep gossiping between any two   *)
(* of its commands.                                                        *)
(*                                                                         *)
(* "prog" is what the manager has still to do: a sequence of instructions,  *)
(* one for each command or decision of the code.  A failure unwinds it to   *)
(* the next "Catch", where the caller looks at the return value.  The nodes *)
(* themselves are not part of the repository: what CLUSTER, MIGRATE and the *)
(* cluster bus do is modelled from the way redis-cli.c uses them.  Replicas *)
(* are skipped by every loop modelled here, and left out.                   *)
(***************************************************************************)
EXTENDS ClusterPlan, FiniteSets, TLC

CONSTANTS
    NumMasters,     \* the masters are 1..NumMasters
    NumSlots,       \* CLUSTER_MANAGER_SLOTS: the slots are 0..NumSlots-1
    Key,            \* the keys: <<slot, number>>
    Owners,         \* the assignments of slots a run may start from
    Pipeline,       \* cluster_manager_command.pipeline
    Commands,       \* the commands that may be started
    MaxCommands,    \* bound: commands run one after the other
    MaxFaults,      \* bound: lost links, unreachable nodes and crashes
    MaxVersion,     \* bound: a key is written at most this many times
    LiveFix         \* clients write while a fix is running

ASSUME SlotsAssumption ==
    /\ {NumMasters, NumSlots, Pipeline} \subseteq Nat \ {0}
    /\ Key \subseteq (0..(NumSlots - 1)) \X Nat
    /\ Owners \subseteq [0..(NumSlots - 1) -> 1..NumMasters]
    /\ LiveFix \in BOOLEAN

Master == 1..NumMasters
Slot   == 0..(NumSlots - 1)
None   == 0         \* no node; the version of a key that is absent

VARIABLES
    cl,         \* cl[n][s]: the owner of s and its open state, as n sees them
    epoch,      \* the configuration epoch of every master
    keys,       \* keys[n][k]: the version of k that n holds, or None
    latest,     \* the version of k its last writer was told is stored
    nodes,      \* cluster_manager.nodes
    view,       \* slots, migrating and importing of the loaded nodes
    prog,       \* the instructions the manager has still to execute
    cmd,        \* the command it executes, or the last one
    errors,     \* cluster_manager.errors is not empty
    result,     \* the value the command returns
    lost,       \* nodes whose connection has failed
    commands,   \* commands started so far
    faults,     \* faults met so far
    fixing      \* a fix has been started

server  == <<cl, epoch, keys>>
manager == <<nodes, view, cmd, errors, commands, fixing>>
vars    == <<server, latest, manager, prog, result, lost, faults>>

KeysOf(s) == {k \in Key : k[1] = s}
Held(n, s) == {k \in KeysOf(s) : keys[n][k] # None}

-----------------------------------------------------------------------------
(* The nodes, as the manager's commands see them (external).               *)

\* CLUSTER SETSLOT is accepted by n in its present state.
SetSlotAccepted(n, s, status, m) ==
    CASE status = "migrating" -> cl[n][s].owner = n
      [] status = "importing" -> cl[n][s].owner # n
      [] status = "node"      -> cl[n][s].owner # n \/ m = n \/ Held(n, s) = {}
      [] status = "stable"    -> TRUE

SlotAfter(n, s, status, m) ==
    LET c == cl[n][s] IN
    CASE status = "migrating" -> [c EXCEPT !.mig = m]
      [] status = "importing" -> [c EXCEPT !.imp = m]
      [] status = "stable"    -> [c EXCEPT !.mig = None, !.imp = None]
      [] status = "node"      ->
            [owner |-> m,
             mig   |-> IF Held(n, s) = {} THEN None ELSE c.mig,
             imp   |-> IF m = n THEN None ELSE c.imp]

\* CLUSTER BUMPEPOCH does nothing when n already has the greatest epoch.
Bumped(n) ==
    IF \A m \in Master \ {n} : epoch[m] < epoch[n] THEN epoch
    ELSE [epoch EXCEPT ![n] = 1 + Max({epoch[m] : m \in Master})]

\* The node accepts commands about a key of s that were not redirected to it.
Accepts(n, s) == cl[n][s].owner = n
                 \/ (cl[n][s].owner # None /\ cl[n][s].imp # None)

\* MIGRATE is redirected by the source, or refused by the target.
MigrateRefused(src, dst, s) == ~Accepts(src, s) \/ ~Accepts(dst, s)

\* The node that n redirects a command about k to with ASK: it migrates the slot
\* and does not hold the key.
Ask(n, k) ==
    {m \in {cl[n][k[1]].mig} \ {None} : keys[n][k] = None /\ Accepts(m, k[1])}

\* The nodes a client comes to that first asks n, which claims the slot.
Asked(n, k) == IF cl[n][k[1]].owner # n THEN {} ELSE {n} \cup Ask(n, k)

\* The node that executes a write of k that its client first sent to n.
WrittenAt(n, k) ==
    {m \in Asked(n, k) : keys[m][k] # None \/ cl[m][k[1]].mig = None}

ClientWrite(k) ==
    /\ latest[k] < MaxVersion
    /\ LiveFix \/ prog = <<>> \/ cmd.name # "fix"
    /\ \E n \in Master : \E m \in WrittenAt(n, k) :
        /\ latest' = [latest EXCEPT ![k] = @ + 1]
        /\ keys' = [keys EXCEPT ![m][k] = latest[k] + 1]
    /\ UNCHANGED <<cl, epoch, manager, prog, result, lost, faults>>

\* The cluster bus: m learns that n claims s with a newer epoch.  A node that
\* imports the slot keeps its view until the manager closes it.
Propagate(m, n, s) ==
    /\ cl[n][s].owner = n
    /\ cl[m][s].owner # n
    /\ cl[m][s].imp = None
    /\ cl[m][s].owner # None => epoch[n] > epoch[cl[m][s].owner]
    /\ cl' = [cl EXCEPT ![m][s].owner = n]
    /\ UNCHANGED <<epoch, keys, latest, manager, prog, result, lost, faults>>

-----------------------------------------------------------------------------
(* The manager's commands: the instructions of prog.                       *)

SetSlotI(n, m, s, status) ==
    [op |-> "SetSlot", node |-> n, arg |-> m, slot |-> s, status |-> status]

ClearSlotStatus(n, s) == SetSlotI(n, None, s, "stable")

SetSlotOwnerI(n, s, clear) ==
    [op |-> "SetSlotOwner", node |-> n, slot |-> s, clear |-> clear]

DelSlotI(n, s) == [op |-> "DelSlot", node |-> n, slot |-> s]

\* node->slots[slot] = on
NoteI(n, s, on) == [op |-> "Note", node |-> n, slot |-> s, on |-> on]

MigrateI(src, dst, s, K, replace, retry) ==
    [op |-> "Migrate", node |-> src, arg |-> dst, slot |-> s, keys |-> K,
     replace |-> replace, retry |-> retry]

\* The fix of the caller returned success, and closed the open slots S.
FixedI(S) == [op |-> "Fixed", closed |-> S]

CatchI == [op |-> "Catch"]      \* where a failed one continues

\* The instructions made by f for every element of a sequence.
ForEach(seq, f(_)) == FlattenSeq([i \in 1..Len(seq) |-> f(seq[i])])

\* Mutant: the new owner is announced before the keys are moved.
MoveSlotOwnerFirst(src, dst, s, cold) ==
    (IF cold THEN <<>>
     ELSE <<SetSlotI(dst, src, s, "importing"), SetSlotI(src, dst, s, "migrating")>>
          \o ForEach(nodes, LAMBDA n : <<SetSlotI(n, dst, s, "node")>>))
    \o <<[op |-> "GetKeys", node |-> src, arg |-> dst, slot |-> s]>>

\* Mutant: the source is not told of the new owner.
MoveSlotSourceNotTold(src, dst, s, cold) ==
    (IF cold THEN <<>>
     ELSE <<SetSlotI(dst, src, s, "importing"), SetSlotI(src, dst, s, "migrating")>>)
    \o <<[op |-> "GetKeys", node |-> src, arg |-> dst, slot |-> s]>>
    \o (IF cold THEN <<>>
        ELSE ForEach(SelectSeq(nodes, LAMBDA n : n # src),
                     LAMBDA n : <<SetSlotI(n, dst, s, "node")>>))

\* clusterManagerMoveSlot: open the slot on both sides, move its keys, and tell
\* every master.  A cold move leaves the configuration alone.
MoveSlot(src, dst, s, cold) ==
    (IF cold THEN <<>>
     ELSE <<SetSlotI(dst, src, s, "importing"), SetSlotI(src, dst, s, "migrating")>>)
    \o <<[op |-> "GetKeys", node |-> src, arg |-> dst, slot |-> s]>>
    \o (IF cold THEN <<>>
        ELSE ForEach(nodes, LAMBDA n : <<SetSlotI(n, dst, s, "node")>>))

Unwind(p) == SubSeq(p, SelectInSeq(p, LAMBDA i : i.op = "Catch") + 1, Len(p))

\* What can become of a command sent to n: it is executed or refused, or the
\* link fails before ("cut") or after ("late") n executes it.  Every later
\* command of this manager to n then fails at once.
Outcomes(n, accepted) ==
    IF n \in lost THEN {"dead"}
    ELSE (IF accepted THEN {"ok"} ELSE {"error"})
         \cup (IF faults = MaxFaults THEN {}
               ELSE {"cut"} \cup (IF accepted THEN {"late"} ELSE {}))

Executed(out) == out \in {"ok", "late"}

\* The manager goes on with "next", or with what "failed" makes of the rest.
Answer(n, out, next) ==
    /\ IF out = "ok"
       THEN prog' = next /\ UNCHANGED result
       ELSE prog' = Unwind(Tail(prog)) /\ result' = FALSE
    /\ IF out \in {"cut", "late"}
       THEN lost' = lost \cup {n} /\ faults' = faults + 1
       ELSE UNCHANGED <<lost, faults>>

Run(op) == prog # <<>> /\ Head(prog).op = op

SetSlot ==
    /\ Run("SetSlot")
    /\ LET i == Head(prog) IN
       \E out \in Outcomes(i.node, SetSlotAccepted(i.node, i.slot, i.status, i.arg)) :
        /\ cl' = IF Executed(out)
                 THEN [cl EXCEPT ![i.node][i.slot] =
                                    SlotAfter(i.node, i.slot, i.status, i.arg)]
                 ELSE cl
        /\ epoch' = IF /\ Executed(out) /\ i.status = "node" /\ i.arg = i.node
                       /\ cl[i.node][i.slot].imp # None
                    THEN Bumped(i.node) ELSE epoch
        /\ Answer(i.node, out, Tail(prog))
    /\ UNCHANGED <<keys, latest, manager>>

\* MULTI, DELSLOTS, ADDSLOTS, [SETSLOT STABLE,] BUMPEPOCH, EXEC: nothing is
\* executed before EXEC, and after DELSLOTS the slot can be added.
SetSlotOwner ==
    /\ Run("SetSlotOwner")
    /\ LET i == Head(prog) IN
       \E out \in Outcomes(i.node, TRUE) :
        /\ cl' = IF Executed(out)
                 THEN [cl EXCEPT ![i.node][i.slot] =
                        [owner |-> i.node, imp |-> None,
                         mig |-> IF i.clear THEN None ELSE @.mig]]
                 ELSE cl
        /\ epoch' = IF Executed(out) THEN Bumped(i.node) ELSE epoch
        /\ Answer(i.node, out, Tail(prog))
    /\ UNCHANGED <<keys, latest, manager>>

BumpEpoch ==
    /\ Run("BumpEpoch")
    /\ LET n == Head(prog).node IN
       \E out \in Outcomes(n, TRUE) :
        /\ epoch' = IF Executed(out) THEN Bumped(n) ELSE epoch
        /\ Answer(n, out, Tail(prog))
    /\ UNCHANGED <<cl, keys, latest, manager>>

\* A slot that is already unassigned is an error that is ignored.
DelSlot ==
    /\ Run("DelSlot")
    /\ LET i == Head(prog) IN
       \E out \in Outcomes(i.node, TRUE) :
        /\ cl' = IF Executed(out) THEN [cl EXCEPT ![i.node][i.slot].owner = None]
                 ELSE cl
        /\ Answer(i.node, out, Tail(prog))
    /\ UNCHANGED <<epoch, keys, latest, manager>>

Note ==
    /\ Run("Note")
    /\ LET i == Head(prog) IN
       view' = [view EXCEPT ![i.node].slots = IF i.on THEN @ \cup {i.slot}
                                              ELSE @ \ {i.slot}]
    /\ prog' = Tail(prog)
    /\ UNCHANGED <<server, latest, nodes, cmd, errors, commands, fixing, result,
                   lost, faults>>

Fixed ==
    /\ Run("Fixed")
    /\ result' = TRUE
    /\ cmd' = [cmd EXCEPT !.closed = @ \cup Head(prog).closed]
    /\ prog' = Tail(prog)
    /\ UNCHANGED <<server, latest, nodes, view, errors, commands, fixing, lost, faults>>

Catch ==
    /\ Run("Catch")
    /\ prog' = Tail(prog)
    /\ UNCHANGED <<server, latest, manager, result, lost, faults>>

-----------------------------------------------------------------------------
(* clusterManagerMigrateKeysInSlot                                         *)

\* The head of the loop: the next keys of the slot, at most Pipeline of them.
GetKeys ==
    /\ Run("GetKeys")
    /\ LET i == Head(prog)
           held == Held(i.node, i.slot)
       IN \E out \in Outcomes(i.node, TRUE) :
          \E K \in kSubset(Min({Pipeline, Cardinality(held)}), held) :
            Answer(i.node, out,
                   IF K = {} THEN Tail(prog)
                   ELSE <<MigrateI(i.node, i.arg, i.slot, K, FALSE, FALSE)>> \o prog)
    /\ UNCHANGED <<server, latest, manager>>

\* keys after MIGRATE has stored K in dst and deleted D in src.
Moved(src, dst, K, D) ==
    [keys EXCEPT ![dst] = [k \in Key |-> IF k \in K THEN keys[src][k] ELSE @[k]],
                 ![src] = [k \in Key |-> IF k \in D THEN None ELSE @[k]]]

\* Mutant: a key that the target has is replaced without a look at its value.
AfterBusyKeyUnchecked(i) == <<[i EXCEPT !.replace = TRUE, !.retry = TRUE]>>

\* The retry after BUSYKEY: what the target has is compared with what the source
\* has, unless it may be replaced.  The other error that is retried, a slot that
\* no loaded master serves as the source knows it, does not occur here: a slot
\* is assigned before its keys are moved.
AfterBusyKey(i) ==
    (IF cmd.replace THEN <<>> ELSE <<[i EXCEPT !.op = "Compare"]>>)
    \o <<[i EXCEPT !.replace = TRUE, !.retry = TRUE]>>

\* One MIGRATE.  Keys that the target has are refused unless it replaces them,
\* and stay; a timeout may leave keys in both nodes.
Migrate ==
    /\ Run("Migrate")
    /\ LET i == Head(prog)
           K == i.keys \cap Held(i.node, i.slot)
           there == K \cap Held(i.arg, i.slot)
           refused == MigrateRefused(i.node, i.arg, i.slot)
           stored == IF i.replace THEN K ELSE K \ there
           chosen(C) ==     \* --cluster-replace: the user prefers the source's
              IF ~cmd.replace THEN latest
              ELSE [k \in Key |-> IF k \in C THEN keys[i.node][k] ELSE latest[k]]
           failed(busy) ==
              IF i.retry \/ ~busy
              THEN prog' = Unwind(Tail(prog)) /\ result' = FALSE
              ELSE prog' = AfterBusyKey(i) \o Tail(prog) /\ UNCHANGED result
       IN \/ /\ refused /\ i.node \notin lost
             /\ failed(FALSE)
             /\ UNCHANGED <<keys, latest, lost, faults>>
          \/ /\ ~refused /\ i.node \notin lost /\ stored # K
             /\ keys' = Moved(i.node, i.arg, stored, stored)
             /\ failed(TRUE)
             /\ UNCHANGED <<latest, lost, faults>>
          \/ /\ refused = FALSE /\ stored = K
             /\ \E out \in Outcomes(i.node, TRUE) :
                /\ keys' = IF Executed(out) THEN Moved(i.node, i.arg, K, K) ELSE keys
                /\ latest' = IF Executed(out) THEN chosen(there) ELSE latest
                /\ Answer(i.node, out, Tail(prog))
          \/ /\ ~refused /\ i.node \notin lost /\ faults < MaxFaults
             /\ \E C \in SUBSET stored : \E D \in SUBSET C :
                /\ keys' = Moved(i.node, i.arg, C, D)
                /\ latest' = chosen(C \cap there)
             /\ failed(FALSE)
             /\ faults' = faults + 1
             /\ UNCHANGED lost
    /\ UNCHANGED <<cl, epoch, manager>>

\* clusterManagerCompareKeysValues: DEBUG DIGEST-VALUE on both nodes.
Compare ==
    /\ Run("Compare")
    /\ LET i == Head(prog)
           diffs == {k \in i.keys \cap Held(i.node, i.slot) \cap Held(i.arg, i.slot) :
                        keys[i.node][k] # keys[i.arg][k]}
       IN IF diffs = {} /\ {i.node, i.arg} \cap lost = {}
          THEN prog' = Tail(prog) /\ UNCHANGED result
          ELSE prog' = Unwind(Tail(prog)) /\ result' = FALSE
    /\ UNCHANGED <<server, latest, manager, lost, faults>>

-----------------------------------------------------------------------------
(* clusterManagerFixOpenSlot                                               *)

\* clusterManagerGetNodeWithMostKeysInSlot: the first of the nodes that hold
\* the most keys of s.
NodeWithMostKeys(list, s) ==
    LET most == Max({Cardinality(Held(n, s)) : n \in ToSet(list)})
    IN list[SelectInSeq(list, LAMBDA n : Cardinality(Held(n, s)) = most)]

\* Masters that say they own s or hold keys of it.
OwnersOf(s) == SelectSeq(nodes, LAMBDA n : s \in view[n].slots \/ Held(n, s) # {})

\* The masters that have s open, and those that hold keys of it without owning it.
MigratingIn(s) == SelectSeq(nodes, LAMBDA n : view[n].mig[s] # None)
ImportingIn(s, owner) ==
    SelectSeq(nodes, LAMBDA n :
        /\ view[n].mig[s] = None
        /\ view[n].imp[s] # None \/ (n # owner /\ Held(n, s) # {}))

\* A node becomes the owner of s.
ClaimSlot(n, s) ==
    <<ClearSlotStatus(n, s), SetSlotOwnerI(n, s, FALSE), NoteI(n, s, TRUE),
      [op |-> "BumpEpoch", node |-> n]>>

\* Another owner gives s to the one chosen, and imports it.
YieldSlot(n, owner, s) ==
    <<DelSlotI(n, s), NoteI(n, s, FALSE), SetSlotI(n, owner, s, "node"),
      SetSlotI(n, owner, s, "importing")>>

\* Find the owner and the open states, choose an owner when there is none or
\* more than one, and take the slot from the other nodes that claim it.
FixOpenSlot ==
    /\ Run("FixOpenSlot")
    /\ LET s == Head(prog).slot
           owners == OwnersOf(s)
           single == IF Len(owners) = 1 THEN owners[1] ELSE None
           migs == MigratingIn(s)
           imps == ImportingIn(s, single)
           owner == IF single # None THEN single ELSE NodeWithMostKeys(nodes, s)
           claim == IF single # None THEN <<>> ELSE ClaimSlot(owner, s)
           others == IF single # None THEN <<>>
                     ELSE SelectSeq(owners, LAMBDA n : n # owner)
           yield(n) == YieldSlot(n, owner, s)
           kept(n) == single # None \/ n \notin {owner} \cup ToSet(others)
           cases == [op |-> "Cases", slot |-> s, owner |-> owner,
                     migrating |-> SelectSeq(migs, kept),
                     importing |-> SelectSeq(imps, kept) \o others]
           counted(n) == \/ single = None \/ s \notin view[n].slots
                         \/ (n # single /\ n \notin ToSet(migs \o imps))
       IN IF \E n \in ToSet(nodes) \cap lost : counted(n)
          THEN prog' = Unwind(Tail(prog)) /\ result' = FALSE
          ELSE /\ prog' = claim \o ForEach(others, yield) \o <<cases>> \o Tail(prog)
               /\ UNCHANGED result
    /\ UNCHANGED <<server, latest, manager, lost, faults>>

\* Case 1: one node migrates, one imports: finish the move.
MigratingAndImporting(i) ==
    LET src == i.migrating[1]
        dst == i.importing[1]
    IN MoveSlot(src, dst, i.slot, FALSE)
       \o <<NoteI(src, i.slot, FALSE), NoteI(dst, i.slot, TRUE)>>

\* Mutant: the importing state of the nodes that gave their keys is kept.
OnlyImportingKeptOpen(i) ==
    ForEach(SelectSeq(i.importing, LAMBDA n : n # i.owner),
            LAMBDA n : MoveSlot(n, i.owner, i.slot, TRUE))
    \o ForEach(SelectSeq(nodes, LAMBDA n : n # i.owner),
               LAMBDA n : <<SetSlotI(n, i.owner, i.slot, "node")>>)

\* Case 2: nodes only import: move all keys to the owner, and tell everyone.
OnlyImporting(i) ==
    ForEach(SelectSeq(i.importing, LAMBDA n : n # i.owner),
            LAMBDA n : MoveSlot(n, i.owner, i.slot, TRUE)
                       \o <<ClearSlotStatus(n, i.slot)>>)
    \o ForEach(SelectSeq(nodes, LAMBDA n : n # i.owner),
               LAMBDA n : <<SetSlotI(n, i.owner, i.slot, "node")>>)

\* Case 3: several nodes import from one, and hold no keys: finish the move to
\* the one the source migrates to, if it is among them, and close the others.
SeveralImporting(i) ==
    LET src == i.migrating[1]
        dst == view[src].mig[i.slot]
        clear(n) == <<ClearSlotStatus(n, i.slot)>>
    IN IF dst \in ToSet(i.importing)
       THEN MoveSlot(src, dst, i.slot, FALSE)
            \o ForEach(SelectSeq(i.importing, LAMBDA n : n # dst), clear)
       ELSE clear(src) \o ForEach(i.importing, clear)

Cases ==
    /\ Run("Cases")
    /\ LET i == Head(prog)
           m == Len(i.migrating)
           n == Len(i.importing)
           empty(x) == Held(x, i.slot) = {}
           closable(x) == x \notin lost /\ empty(x)
           go(p) == prog' = p \o Tail(prog) /\ UNCHANGED result
           unhandled == prog' = Unwind(Tail(prog)) /\ result' = FALSE
       IN CASE m = 1 /\ n = 1 -> go(MigratingAndImporting(i))
            [] m = 0 /\ n > 0 -> go(OnlyImporting(i))
            [] m = 1 /\ n > 1 ->
                 IF \A x \in ToSet(i.importing) \ lost : empty(x)
                 THEN go(SeveralImporting(i)) ELSE unhandled
            [] OTHER ->     \* Case 4: a reshard interrupted in the middle
                 IF m = 1 /\ n = 0 /\ (i.owner = i.migrating[1] \/ closable(i.migrating[1]))
                 THEN go(<<ClearSlotStatus(i.migrating[1], i.slot)>>) ELSE unhandled
    /\ UNCHANGED <<server, latest, manager, lost, faults>>

-----------------------------------------------------------------------------
(* clusterManagerCheckCluster                                              *)

\* clusterManagerIsConfigConsistent: all signatures are equal; a node that
\* knows no slot, or does not answer, has none.
ConfigConsistent ==
    \/ Len(nodes) <= 1
    \/ /\ ToSet(nodes) \cap lost = {}
       /\ LET signature(n) == [s \in Slot |-> cl[n][s].owner]
          IN \A n \in ToSet(nodes) :
                /\ signature(n) = signature(nodes[1])
                /\ \E s \in Slot : signature(n)[s] # None

OpenSlots == {s \in Slot : \E n \in ToSet(nodes) :
                                view[n].mig[s] # None \/ view[n].imp[s] # None}

GetCoveredSlots == UNION {view[n].slots : n \in ToSet(nodes)}

CheckCluster ==
    /\ Run("CheckCluster")
    /\ errors' = (~ConfigConsistent \/ OpenSlots # {})
    /\ result' = ~errors'
    /\ \E order \in SetToSeqs(OpenSlots) :
        prog' = (IF cmd.fix /\ OpenSlots # {}
                 THEN ForEach(order, LAMBDA s : <<[op |-> "FixOpenSlot", slot |-> s], FixedI({s})>>)
                      \o <<CatchI>>
                 ELSE <<>>)
                \o <<[op |-> "CheckCoverage"]>>
                \o (IF cmd.owners
                    THEN [i \in 1..NumSlots |-> [op |-> "CheckOwners", slot |-> i - 1]]
                         \o <<CatchI>>
                    ELSE <<>>)
                \o Tail(prog)
    /\ UNCHANGED <<server, latest, nodes, view, cmd, commands, fixing, lost, faults>>

\* clusterManagerFixSlotsCoverage for one uncovered slot: an owner for it, "any"
\* when no master holds keys of it; keys held by several masters are moved.
CoverSlot(s, holders, any) ==
    LET target == IF holders = <<>> THEN any ELSE NodeWithMostKeys(holders, s)
        move(src) == <<SetSlotI(src, target, s, "node"),
                       SetSlotI(src, target, s, "importing")>>
                     \o MoveSlot(src, target, s, TRUE)
                     \o <<ClearSlotStatus(src, s)>>
    IN <<SetSlotOwnerI(target, s, Len(holders) > 1), NoteI(target, s, TRUE)>>
       \o ForEach(SelectSeq(holders, LAMBDA n : n # target), move)

\* The user is asked once for the slots without keys (0), once for those with
\* keys in one node (1), and once for those with keys in several (2); within a class
\* they are taken in the order of the table, and one without keys goes to a random node.
FixSlotsCoverage ==
    LET uncovered == Slot \ GetCoveredSlots
        holders(s) == SelectSeq(nodes, LAMBDA n : Held(n, s) # {})
        class(s) == Min({Len(holders(s)), 2})
    IN \E yes \in SUBSET (0..2), order \in SetToSeqs(uncovered),
         any \in [uncovered -> ToSet(nodes)] :
        LET chosen(c) == SelectSeq(order, LAMBDA s : class(s) = c /\ c \in yes)
            slots == chosen(0) \o chosen(1) \o chosen(2)
        IN prog' = (IF ToSet(nodes) \cap lost # {} \/ slots = <<>> THEN <<>>
                    ELSE ForEach(slots, LAMBDA s : CoverSlot(s, holders(s), any[s]))
                         \o <<FixedI({}), CatchI>>)
                   \o Tail(prog)

CheckCoverage ==
    /\ Run("CheckCoverage")
    /\ IF GetCoveredSlots = Slot
       THEN prog' = Tail(prog) /\ UNCHANGED <<errors, result>>
       ELSE /\ errors' = TRUE
            /\ result' = FALSE
            /\ IF cmd.fix THEN FixSlotsCoverage ELSE prog' = Tail(prog)
    /\ UNCHANGED <<server, latest, nodes, view, cmd, commands, fixing, lost, faults>>

\* --cluster-search-multiple-owners, for one slot, and
\* clusterManagerFixMultipleSlotOwners.
CheckOwners ==
    /\ Run("CheckOwners")
    /\ LET s == Head(prog).slot
           owners == SelectSeq(OwnersOf(s), LAMBDA n : s \in view[n].slots \/ n \notin lost)
           owner == IF ToSet(owners) \cap lost = {} THEN NodeWithMostKeys(owners, s)
                    ELSE owners[1]
       IN IF Len(owners) <= 1
          THEN prog' = Tail(prog) /\ UNCHANGED result
          ELSE /\ result' = FALSE
               /\ prog' = (IF ~cmd.fix THEN <<>>
                           ELSE <<SetSlotOwnerI(owner, s, FALSE)>>
                                \o ForEach(SelectSeq(nodes, LAMBDA n : n # owner),
                                           LAMBDA n : <<[op |-> "TakeSlot", node |-> n,
                                                         arg |-> owner, slot |-> s]>>)
                                \o <<FixedI({})>>)
                          \o Tail(prog)
    /\ UNCHANGED <<server, latest, manager, lost, faults>>

\* The body of its loop: n gives up the slot and its keys.
TakeSlot ==
    /\ Run("TakeSlot")
    /\ LET i == Head(prog) IN
       IF i.node \in lost
       THEN prog' = Unwind(Tail(prog)) /\ result' = FALSE
       ELSE /\ prog' = <<DelSlotI(i.node, i.slot),
                         SetSlotI(i.node, i.arg, i.slot, "node")>>
                       \o (IF Held(i.node, i.slot) = {} THEN <<>>
                           ELSE MoveSlot(i.node, i.arg, i.slot, TRUE))
                       \o Tail(prog)
            /\ UNCHANGED result
    /\ UNCHANGED <<server, latest, manager, lost, faults>>

-----------------------------------------------------------------------------
(* The commands.                                                           *)

\* clusterManagerCommandReshard after the check: refuse a cluster with errors and
\* nodes that are not known.
ReshardRefused == errors \/ ~(cmd.from \cup {cmd.dst} \subseteq ToSet(nodes))

\* Those the user names, or all of them, but for the target.
Sources == SelectSeq(nodes, LAMBDA n : n \in cmd.from \ {cmd.dst})

\* Move the slots of the table one after the other.
Reshard ==
    /\ Run("Reshard")
    /\ LET slotsOf == [n \in Master |-> view[n].slots]
           table == ComputeReshardTable(Sources, cmd.count, slotsOf)
       IN IF ReshardRefused \/ Sources = <<>>
          THEN result' = FALSE /\ prog' = <<>> /\ UNCHANGED cmd
          ELSE /\ result' = TRUE
               /\ prog' = ForEach(table, LAMBDA t : MoveSlot(t[1], cmd.dst, t[2], FALSE))
                          \o <<CatchI>>
               /\ cmd' = [cmd EXCEPT !.moved = {<<t[1], cmd.dst, t[2]>> : t \in ToSet(table)}]
    /\ UNCHANGED <<server, latest, nodes, view, errors, commands, fixing, lost, faults>>

\* The masters that take part in a rebalance.
Involved == SelectSeq(nodes, LAMBDA n : cmd.useEmpty \/ view[n].slots # {})

\* clusterManagerCommandRebalance after the check: the surplus (balance) of every
\* master involved, made to sum up to zero, and the masters in its order.
Rebalance ==
    /\ Run("Rebalance")
    /\ LET count == [n \in Master |-> Cardinality(view[n].slots)]
           expected == ExpectedSlots(Involved, cmd.weight, NumSlots)
           balance == Balances(Involved, count, expected)
           over(n) == OverThreshold(count[n], expected[n], cmd.threshold)
           loaded == [n \in Master |-> view[n].slots]
       IN IF errors \/ ~\E n \in ToSet(Involved) : over(n)
          THEN result' = ~errors /\ prog' = <<>> /\ UNCHANGED cmd
          ELSE /\ result' = TRUE
               /\ cmd' = [cmd EXCEPT !.share = expected, !.loaded = loaded]
               /\ \E sn \in SortedBy(ToSet(Involved), balance) :
                    prog' = <<[op |-> "Balance", sn |-> sn, balance |-> balance,
                               dst |-> 1, src |-> Len(sn)], CatchI>>
    /\ UNCHANGED <<server, latest, nodes, view, errors, commands, fixing, lost, faults>>

\* The body of its loop: the node with the largest surplus gives slots to the one
\* with the largest lack.
Balance ==
    /\ Run("Balance")
    /\ LET i == Head(prog)
           dst == i.sn[i.dst]
           src == i.sn[i.src]
           numslots == Min({Abs(i.balance[dst]), Abs(i.balance[src])})
           slotsOf == [n \in Master |-> view[n].slots]
           table == ComputeReshardTable(<<src>>, numslots, slotsOf)
           balance == [i.balance EXCEPT ![dst] = @ + numslots, ![src] = @ - numslots]
           move(t) == MoveSlot(src, dst, t[2], FALSE)
                      \o <<NoteI(src, t[2], FALSE), NoteI(dst, t[2], TRUE)>>
       IN IF i.dst >= i.src
          THEN prog' = Tail(prog) /\ UNCHANGED <<cmd, result>>
          ELSE IF Len(table) # numslots
          THEN prog' = Unwind(Tail(prog)) /\ result' = FALSE /\ UNCHANGED cmd
          ELSE /\ prog' = ForEach(table, move)
                          \o <<[i EXCEPT !.balance = balance,
                                         !.dst = IF balance[dst] = 0 THEN @ + 1 ELSE @,
                                         !.src = IF balance[src] = 0 THEN @ - 1 ELSE @]>>
                          \o Tail(prog)
               /\ cmd' = [cmd EXCEPT !.moved = @ \cup {<<src, dst, t[2]>> : t \in ToSet(table)}]
               /\ UNCHANGED result
    /\ UNCHANGED <<server, latest, nodes, view, errors, commands, fixing, lost, faults>>

\* clusterManagerNodeLoadInfo: what n says of its own slots.
NodeLoadInfo(n) ==
    [slots |-> {s \in Slot : cl[n][s].owner = n},
     mig |-> [s \in Slot |-> cl[n][s].mig],
     imp |-> [s \in Slot |-> cl[n][s].imp]]

\* clusterManagerLoadInfoFromNode: a node and those of its friends that answer.
LoadInfoFromNode(first, reached) ==
    /\ nodes' = <<first>> \o SetToSortSeq(reached \ {first}, <)
    /\ view' = [n \in Master |-> NodeLoadInfo(n)]
    /\ faults' = faults + Cardinality(Master \ reached)

\* A command is started on node "first".
Start(c) ==
    /\ prog = <<>>
    /\ commands < MaxCommands
    /\ \E R \in SUBSET Master : \E first \in R :
        /\ faults + Cardinality(Master \ R) <= MaxFaults
        /\ LoadInfoFromNode(first, R)
    /\ cmd' = c
    /\ prog' = <<[op |-> "CheckCluster"]>>
               \o (CASE c.name = "reshard" -> <<[op |-> "Reshard"]>>
                    [] c.name = "rebalance" -> <<[op |-> "Rebalance"]>>
                    [] OTHER -> <<>>)
    /\ commands' = commands + 1
    /\ fixing' = (fixing \/ c.fix)
    /\ errors' = FALSE
    /\ result' = FALSE
    /\ lost' = {}
    /\ UNCHANGED <<server, latest>>

\* The manager is killed between two commands.
Crash ==
    /\ prog # <<>>
    /\ faults < MaxFaults
    /\ faults' = faults + 1
    /\ prog' = <<>>
    /\ result' = FALSE
    /\ UNCHANGED <<server, latest, manager, lost>>

Idle == [name |-> "idle", fix |-> FALSE, owners |-> FALSE, replace |-> FALSE,
         from |-> {}, dst |-> None, count |-> 0, moved |-> {}, closed |-> {},
         weight |-> [n \in Master |-> 1], useEmpty |-> FALSE, threshold |-> 2,
         share |-> <<>>, loaded |-> <<>>]

Init ==
    /\ \E own \in Owners :
        /\ cl = [n \in Master |-> [s \in Slot |->
                    [owner |-> own[s], mig |-> None, imp |-> None]]]
        /\ keys = [n \in Master |-> [k \in Key |-> IF own[k[1]] = n THEN 1 ELSE None]]
    /\ latest = [k \in Key |-> 1]
    /\ epoch = [n \in Master |-> n]
    /\ nodes = <<>>
    /\ view = [n \in Master |-> [slots |-> {}, mig |-> [s \in Slot |-> None],
                                 imp |-> [s \in Slot |-> None]]]
    /\ prog = <<>> /\ cmd = Idle
    /\ errors = FALSE /\ result = FALSE /\ fixing = FALSE
    /\ lost = {} /\ commands = 0 /\ faults = 0

Next ==
    \/ \E k \in Key : ClientWrite(k)
    \/ \E m, n \in Master, s \in Slot : Propagate(m, n, s)
    \/ \E c \in Commands : Start(c)
    \/ Crash
    \/ SetSlot \/ SetSlotOwner \/ BumpEpoch \/ DelSlot \/ Note
    \/ Fixed \/ Catch \/ GetKeys \/ Migrate \/ Compare
    \/ FixOpenSlot \/ Cases \/ CheckCluster \/ CheckCoverage \/ CheckOwners
    \/ TakeSlot \/ Reshard \/ Rebalance \/ Balance

Spec == Init /\ [][Next]_vars

-----------------------------------------------------------------------------
(* Properties.                                                             *)

\* The version of a key that its last writer was told is stored is held by some
\* node, whatever was moved, retried, interrupted or replaced: a move deletes a
\* key only after the target has it, and without --cluster-replace a copy is
\* only replaced by an equal one (clusterManagerMigrateKeysInSlot).
NoUpdateLost ==
    \A k \in Key : \E n \in Master : keys[n][k] = latest[k]

\* Until a fix is run, a client that asks any loaded node that claims the slot of a key
\* finds its latest version, there or at the node it is redirected to with ASK,
\* at every moment of a move, also of one that was interrupted: the target
\* imports before the source migrates, and owners change when the source holds
\* no key of the slot (clusterManagerMoveSlot).
KeysReachable ==
    ~fixing =>
        \A k \in Key, n \in ToSet(nodes) :
            cl[n][k[1]].owner = n => \E m \in Asked(n, k) : keys[m][k] = latest[k]

\* When a reshard or a rebalance has succeeded, the target of every move claims
\* the slot, the source holds no keys of it, no loaded master has it open, and one
\* that does not know the target as its owner still believes in an older epoch and
\* will learn of it (clusterManagerCommandReshard, clusterManagerMoveSlot).
MovesComplete ==
    cmd.name \in {"reshard", "rebalance"} /\ prog = <<>> /\ result =>
        \A t \in cmd.moved : LET dst == t[2] IN
            /\ cl[dst][t[3]].owner = dst
            /\ Held(t[1], t[3]) = {}
            /\ \A n \in ToSet(nodes) : LET c == cl[n][t[3]] IN
                /\ c.mig = None /\ c.imp = None
                /\ c.owner # dst => epoch[c.owner] < epoch[dst]

\* When a rebalance has succeeded, a master that had more slots than its share has
\* exactly its share and every other one involved at least its own; what rounding
\* leaves over goes to those.  No slot is moved twice on the way.  This is so when
\* no slot had two owners as the nodes were loaded: the check that follows does
\* not compare what was loaded (clusterManagerCommandRebalance).
RebalanceFair ==
    /\ cmd.name = "rebalance" /\ prog = <<>> /\ result
    /\ \A m, n \in DOMAIN cmd.loaded : m # n => cmd.loaded[m] \cap cmd.loaded[n] = {}
    =>
    /\ \A n \in DOMAIN cmd.share :
        LET owned == Cardinality({s \in Slot : cl[n][s].owner = n})
        IN /\ owned >= cmd.share[n]
           /\ Cardinality(cmd.loaded[n]) > cmd.share[n] => owned = cmd.share[n]
    /\ \A t, u \in cmd.moved : t[3] = u[3] => t = u

\* When a fix that reached every master and searched for multiple owners has
\* succeeded, every slot is claimed by one master, only it holds keys of the slot,
\* and no slot is open but one that was open before and whose own fix failed: the
\* success of a later step hides that failure (clusterManagerCheckCluster).
FixHeals ==
    cmd.name = "fix" /\ cmd.owners /\ prog = <<>> /\ result
        /\ Len(nodes) = NumMasters =>
        \A s \in Slot : \E o \in Master : \A n \in Master :
            /\ cl[n][s].owner = n <=> n = o
            /\ n # o => Held(n, s) = {}
            /\ s \notin OpenSlots \ cmd.closed => cl[n][s].mig = None /\ cl[n][s].imp = None
=============================================================================

-------------------------------- MODULE Rax --------------------------------
(***************************************************************************)
(* The radix tree (rax.c).  A node holds a character and a child for each    *)
(* branch or, when compressed, a string of several characters and one child; *)
(* any node may be a key.  Insertion splits compressed nodes, removal joins  *)
(* them again, and an iterator walks over the keys in order.                 *)
(*                                                                         *)
(* A tree is a nested record.  A node is named by the path of child indices  *)
(* from the head, which is also the stack of its parents: its prefixes.      *)
(* Every node carries the size of its allocation, so that what is written    *)
(* into a node can be compared with the room it has.  zmalloc aborts when    *)
(* there is no memory, so the branches for that are left out.                *)
(***************************************************************************)
EXTENDS Integers, SequencesExt, FiniteSetsExt

CONSTANTS
    Keys,               \* the keys that are inserted and removed
    Data(_),            \* the data a key is inserted with; 0 is NULL
    Probes,             \* the strings an iterator is positioned at
    RAX_NODE_MAX_SIZE,  \* the characters a node can hold
    Overruns            \* bound: may a removal join a chain too long for one node?

VARIABLES
    rax,        \* [head, numele, numnodes], and overrun: a join wrote past its node
    it,         \* the iterator: [on, eof, seeked, key, data, path]
    answer,     \* the last call and what it returned: [call, ret, old]
    found       \* what raxFind returns for the keys in the tree

vars == <<rax, it, answer, found>>

NULL == 0
Nothing == -1       \* *old is not written

Answer(call, ret) == [call |-> call, ret |-> ret, old |-> Nothing]

-----------------------------------------------------------------------------
(* Nodes.                                                                  *)

Word == 8           \* sizeof(void*)

\* raxPadding
Padding(size) == (Word - ((size + 4) % Word)) % Word

\* The memory of a node with the given number of characters, children and values.
Bytes(chars, children, values) == 4 + chars + Padding(chars) + Word * (children + values)

HasValue(n) == IF n.key /\ ~n.null THEN 1 ELSE 0

\* raxNodeCurrentLength
CurrentLength(n) == Bytes(Len(n.chars), Len(n.kids), HasValue(n))

\* raxNewNode, with the characters and children that its callers fill in
NewNode(chars, kids, values) ==
    [key |-> FALSE, null |-> FALSE, data |-> NULL, compr |-> Len(chars) > 1 /\ Len(kids) = 1,
     chars |-> chars, kids |-> kids, alloc |-> Bytes(Len(chars), Len(kids), values)]

\* raxReallocForData
ReallocForData(n, data) ==
    IF data = NULL THEN n ELSE [n EXCEPT !.alloc = CurrentLength(n) + Word]

SetData(n, data) == [n EXCEPT !.key = TRUE, !.null = (data = NULL), !.data = data]

GetData(n) == IF n.null THEN NULL ELSE n.data

\* raxAddChild: in the order of the characters.
AddChild(n, c, kid) ==
    LET pos == Cardinality({i \in DOMAIN n.chars : n.chars[i] <= c})
        grown == [n EXCEPT !.chars = InsertAt(@, pos + 1, c), !.kids = InsertAt(@, pos + 1, kid)]
    IN  [grown EXCEPT !.alloc = CurrentLength(grown)]

\* raxCompressNode: a node without children becomes a chain.
CompressNode(n, chars, kid) ==
    [n EXCEPT !.compr = TRUE, !.chars = chars, !.kids = <<kid>>,
              !.alloc = Bytes(Len(chars), 1, HasValue(n))]

\* raxRemoveChild
RemoveChild(n, i) ==
    LET emptied == [n EXCEPT !.null = FALSE, !.compr = FALSE, !.chars = <<>>, !.kids = <<>>]
        shrunk == [n EXCEPT !.chars = RemoveAt(@, i), !.kids = RemoveAt(@, i)]
    IN  IF n.compr THEN (IF n.key THEN SetData(emptied, GetData(n)) ELSE emptied)
        ELSE [shrunk EXCEPT !.alloc = CurrentLength(shrunk)]

-----------------------------------------------------------------------------
(* Paths.                                                                  *)

RECURSIVE NodeAt(_, _)
NodeAt(n, path) == IF path = <<>> THEN n ELSE NodeAt(n.kids[Head(path)], Tail(path))

\* The tree n with another node at the path: a parent's link is set.
RECURSIVE Put(_, _, _)
Put(n, path, new) ==
    IF path = <<>> THEN new
    ELSE [n EXCEPT !.kids[Head(path)] = Put(@, Tail(path), new)]

Edge(n, i) == IF n.compr THEN n.chars ELSE <<n.chars[i]>>

RECURSIVE KeyAt(_, _)
KeyAt(n, path) ==
    IF path = <<>> THEN <<>> ELSE Edge(n, Head(path)) \o KeyAt(n.kids[Head(path)], Tail(path))

Drop(s, k) == SubSeq(s, k + 1, Len(s))

\* The number of leading characters that two strings share.
Common(a, b) == Max({k \in 0..Min({Len(a), Len(b)}) : SubSeq(a, 1, k) = SubSeq(b, 1, k)})

\* raxLowWalk: the node where the walk along s stops, what is left of s and, in a
\* compressed node, the number of its characters that were matched.
RECURSIVE LowWalk(_, _, _)
LowWalk(n, s, path) ==
    LET k == Common(n.chars, s)
        i == SelectInSeq(n.chars, LAMBDA c : c = s[1])
        stop(left, split) == [path |-> path, left |-> left, split |-> split]
    IN  CASE n.chars = <<>> \/ s = <<>> -> stop(s, 0)
          [] n.compr /\ n.chars # <<>> /\ s # <<>> ->
                IF k < Len(n.chars) THEN stop(Drop(s, k), k)
                ELSE LowWalk(n.kids[1], Drop(s, k), Append(path, 1))
          [] OTHER -> IF i = 0 THEN stop(s, 0) ELSE LowWalk(n.kids[i], Tail(s), Append(path, i))

\* The walk ended at a node that stands for the whole string.
AtNode(n, w) == w.left = <<>> /\ ~(n.compr /\ w.split # 0)

\* raxFind
Find(tree, s) ==
    LET w == LowWalk(tree.head, s, <<>>)
        h == NodeAt(tree.head, w.path)
    IN  IF AtNode(h, w) /\ h.key THEN GetData(h) ELSE Nothing

-----------------------------------------------------------------------------
(* Insertion (raxGenericInsert).                                           *)

\* The missing nodes for s below n, and how many they are.
RECURSIVE Extend(_, _, _)
Extend(n, s, data) ==
    LET chain == n.chars = <<>> /\ Len(s) > 1
        k == IF chain THEN Min({Len(s), RAX_NODE_MAX_SIZE}) ELSE 1
        below == Extend(NewNode(<<>>, <<>>, 0), Drop(s, k), data)
    IN  IF s = <<>> THEN [node |-> SetData(ReallocForData(n, data), data), made |-> 0]
        ELSE [node |-> IF chain THEN CompressNode(n, SubSeq(s, 1, k), below.node)
                       ELSE AddChild(n, s[1], below.node),
              made |-> below.made + 1]

\* What becomes of node h: [node, made, ele, ret, old].
Changed(node, made, ele, ret, old) ==
    [node |-> node, made |-> made, ele |-> ele, ret |-> ret, old |-> old]

\* The node for the key exists.
InsertWithoutRoom(h, data, overwrite) ==
    LET room == IF ~h.key THEN ReallocForData(h, data) ELSE h
    IN  IF h.key THEN Changed(IF overwrite THEN SetData(room, data) ELSE room, 0, 0, 0, GetData(room))
        ELSE Changed(SetData(room, data), 0, 1, 1, Nothing)

InsertAtNode(h, data, overwrite) ==
    LET room == IF ~h.key \/ (h.null /\ overwrite) THEN ReallocForData(h, data) ELSE h
    IN  IF h.key THEN Changed(IF overwrite THEN SetData(room, data) ELSE room, 0, 0, 0, GetData(room))
        ELSE Changed(SetData(room, data), 0, 1, 1, Nothing)

\* Algorithm 1: the compressed node h is split at its character j, where it differs
\* from the key, of which s is left.
SplitUncounted(h, j, s, data) ==
    LET next == h.kids[1]
        after == Drop(h.chars, j + 1)
        postfix == IF after = <<>> THEN next ELSE NewNode(after, <<next>>, 0)
        split == NewNode(<<h.chars[j + 1]>>, <<postfix>>, IF j = 0 THEN HasValue(h) ELSE 0)
        top == Extend(IF j = 0 /\ h.key THEN SetData(split, GetData(h)) ELSE split, s, data)
        trimmed == [NewNode(SubSeq(h.chars, 1, j), <<top.node>>, HasValue(h)) EXCEPT
                        !.key = h.key, !.null = h.null, !.data = h.data]
    IN  Changed(IF j = 0 THEN top.node ELSE trimmed,
                top.made + (IF j = 0 THEN 0 ELSE 1), 1, 1, Nothing)

SplitMismatch(h, j, s, data) ==
    LET next == h.kids[1]
        after == Drop(h.chars, j + 1)
        postfix == IF after = <<>> THEN next ELSE NewNode(after, <<next>>, 0)
        split == NewNode(<<h.chars[j + 1]>>, <<postfix>>, IF j = 0 THEN HasValue(h) ELSE 0)
        top == Extend(IF j = 0 /\ h.key THEN SetData(split, GetData(h)) ELSE split, s, data)
        trimmed == [NewNode(SubSeq(h.chars, 1, j), <<top.node>>, HasValue(h)) EXCEPT
                        !.key = h.key, !.null = h.null, !.data = h.data]
    IN  Changed(IF j = 0 THEN top.node ELSE trimmed,
                top.made + (IF j = 0 THEN 0 ELSE 1) + (IF after = <<>> THEN 0 ELSE 1), 1, 1, Nothing)

\* Algorithm 2: the key ends inside the compressed node h, after j characters.
SplitInside(h, j, data) ==
    LET postfix == SetData(NewNode(Drop(h.chars, j), h.kids, IF data = NULL THEN 0 ELSE 1), data)
        trimmed == NewNode(SubSeq(h.chars, 1, j), <<postfix>>, HasValue(h))
    IN  Changed(IF h.key THEN SetData(trimmed, GetData(h)) ELSE trimmed, 1, 1, 1, Nothing)

GenericInsert(s, data, overwrite) ==
    LET w == LowWalk(rax.head, s, <<>>)
        h == NodeAt(rax.head, w.path)
        longer == Extend(h, w.left, data)
        change == CASE AtNode(h, w) -> InsertAtNode(h, data, overwrite)
                    [] h.compr /\ w.left # <<>> -> SplitMismatch(h, w.split, w.left, data)
                    [] h.compr /\ w.left = <<>> /\ w.split # 0 -> SplitInside(h, w.split, data)
                    [] OTHER -> Changed(longer.node, longer.made, 1, 1, Nothing)
    IN  [tree |-> [rax EXCEPT !.head = Put(@, w.path, change.node), !.numele = @ + change.ele,
                              !.numnodes = @ + change.made],
         answer |-> [call |-> <<"insert", s, data, overwrite>>, ret |-> change.ret, old |-> change.old]]

-----------------------------------------------------------------------------
(* Removal (raxRemove).                                                    *)

\* A node that is only a link of a chain.
Link(n) == ~n.key /\ (n.compr \/ Len(n.chars) = 1)

Longest(S) == CHOOSE p \in S : \A q \in S : Len(q) <= Len(p)
Shortest(S) == CHOOSE p \in S : \A q \in S : Len(p) <= Len(q)

\* The first scan: the nodes of the chain below n that can be joined with it.
RECURSIVE Joinable(_, _)
Joinable(n, size) ==
    LET kid == n.kids[Len(n.kids)]
    IN  IF n.chars = <<>> \/ ~Link(kid) \/ size + Len(kid.chars) > RAX_NODE_MAX_SIZE
        THEN [nodes |-> 1, size |-> size]
        ELSE LET below == Joinable(kid, size + Len(kid.chars))
             IN  [below EXCEPT !.nodes = @ + 1]

\* The second scan: the characters of the chain, and the node after it.
RECURSIVE Collect(_)
Collect(n) ==
    LET kid == n.kids[Len(n.kids)]
        below == Collect(kid)
    IN  IF Link(kid)
        THEN [chars |-> n.chars \o below.chars, nodes |-> below.nodes + 1, next |-> below.next]
        ELSE [chars |-> n.chars, nodes |-> 1, next |-> kid]

\* Join the chain that goes through the node at the path.  The new node is allocated for
\* what the first scan counted; the second one does not stop at the limit.
Recompress(tree, path) ==
    LET start == Shortest({p \in Prefixes(path) :
                             \A q \in Prefixes(path) :
                                Len(p) <= Len(q) /\ q # path => Link(NodeAt(tree.head, q))})
        first == NodeAt(tree.head, start)
        room == Joinable(first, Len(first.chars))
        all == Collect(first)
        new == [NewNode(SubSeq(all.chars, 1, room.size), <<all.next>>, 0) EXCEPT !.compr = TRUE]
    IN  IF room.nodes = 1 THEN tree
        ELSE [tree EXCEPT !.head = Put(@, start, new), !.numnodes = @ + 1 - all.nodes,
                          !.overrun = @ \/ room.size < Len(all.chars)]

\* The node at the path has been freed, and with it the chain that leads to it.
Unlink(tree, path) ==
    LET top == Longest({p \in Prefixes(path) \ {path} : p = <<>> \/ ~Link(NodeAt(tree.head, p))})
        new == RemoveChild(NodeAt(tree.head, top), path[Len(top) + 1])
        after == [tree EXCEPT !.head = Put(@, top, new), !.numnodes = @ - (Len(path) - Len(top))]
    IN  IF path = <<>> THEN tree
        ELSE IF Len(new.chars) = 1 /\ ~new.key THEN Recompress(after, top) ELSE after

RemoveKey(s) ==
    LET w == LowWalk(rax.head, s, <<>>)
        h == NodeAt(rax.head, w.path)
        unset == [rax EXCEPT !.head = Put(@, w.path, [h EXCEPT !.key = FALSE, !.data = NULL]),
                             !.numele = @ - 1]
    IN  IF ~AtNode(h, w) \/ ~h.key
        THEN [tree |-> rax, answer |-> Answer(<<"remove", s>>, 0)]
        ELSE [tree |-> CASE Len(h.chars) = 0 -> Unlink(unset, w.path)
                         [] Len(h.chars) = 1 -> Recompress(unset, w.path)
                         [] OTHER -> unset,
              answer |-> [call |-> <<"remove", s>>, ret |-> 1, old |-> GetData(h)]]
-----------------------------------------------------------------------------
(* The iterator.                                                           *)

Stopped == [on |-> FALSE, eof |-> TRUE, seeked |-> FALSE, key |-> <<>>, data |-> NULL, path |-> <<>>]

\* Into child i of the iterator's node, and back to its parent.
Into(i, c) == [i EXCEPT !.path = Append(@, c), !.key = @ \o Edge(NodeAt(rax.head, i.path), c)]
DelChars(key, n) == SubSeq(key, 1, Len(key) - (IF n.compr THEN Len(n.chars) ELSE 1))

\* At a key: the iterator's data is that of the node.
Reach(i) == [i EXCEPT !.data = GetData(NodeAt(rax.head, i.path))]
AtKey(i) == NodeAt(rax.head, i.path).key

\* The parent of the iterator's node and the key there; with noup the node is taken
\* for the parent, and the last character of the key for the child it came from.
Up(i, noup) ==
    LET path == IF noup THEN i.path ELSE Front(i.path)
    IN  [i EXCEPT !.path = path, !.key = DelChars(@, NodeAt(rax.head, path))]

\* The children of the parent on the side the iterator moves to.
Siblings(i, noup, forward) ==
    LET n == NodeAt(rax.head, Up(i, noup).path)
    IN  {c \in DOMAIN n.chars : /\ ~n.compr /\ Len(n.chars) > (IF noup THEN 0 ELSE 1)
                                /\ IF forward THEN n.chars[c] > Last(i.key)
                                              ELSE n.chars[c] < Last(i.key)}

\* raxIteratorNextStep: down to the first key below the node, else up to a node with
\* a greater child.  At the end the iterator is as it was.
RECURSIVE NextStep(_, _, _), NextUp(_, _, _)
NextStep(i, noup, orig) ==
    LET deeper == Into(i, 1)
    IN  IF noup \/ NodeAt(rax.head, i.path).chars = <<>> THEN NextUp(i, noup, orig)
        ELSE IF AtKey(deeper) THEN Reach(deeper) ELSE NextStep(deeper, FALSE, orig)
NextUp(i, noup, orig) ==
    LET greater == Siblings(i, noup, TRUE)
        sibling == Into(Up(i, noup), Min(greater))
    IN  IF ~noup /\ i.path = <<>> THEN [orig EXCEPT !.eof = TRUE]
        ELSE IF greater = {} THEN NextUp(Up(i, noup), FALSE, orig)
        ELSE IF AtKey(sibling) THEN Reach(sibling) ELSE NextStep(sibling, FALSE, orig)

\* raxSeekGreatest: the last key below the node.
RECURSIVE SeekGreatest(_)
SeekGreatest(i) ==
    LET n == NodeAt(rax.head, i.path)
    IN  IF n.chars = <<>> THEN i ELSE SeekGreatest(Into(i, Len(n.kids)))

\* raxIteratorPrevStep: up to the parent, then the last key below a smaller child,
\* if there is one, or the parent itself.
RECURSIVE PrevStep(_, _, _)
PrevStep(i, noup, orig) ==
    LET smaller == Siblings(i, noup, FALSE)
        up == Up(i, noup)
        to == IF smaller = {} THEN up ELSE SeekGreatest(Into(up, Max(smaller)))
    IN  IF ~noup /\ i.path = <<>> THEN [orig EXCEPT !.eof = TRUE]
        ELSE IF AtKey(to) THEN Reach(to) ELSE PrevStep(to, FALSE, orig)

\* The rest of a seek for a key that is not ele: i is at the node where the walk w
\* stopped.
SeekFromDeeper(i, w, op, ele) ==
    LET n == NodeAt(rax.head, i.path)
        gt == op \in {">", ">="}
        Step(j, noup) == IF gt THEN NextStep(j, noup, j) ELSE PrevStep(j, noup, j)
        whole == [i EXCEPT !.key = @ \o n.chars]
        later == n.chars[w.split + 1] > w.left[1]
    IN  CASE w.left # <<>> /\ ~n.compr -> Step([i EXCEPT !.key = Append(@, w.left[1])], TRUE)
          [] w.left # <<>> /\ n.compr ->
                IF gt THEN NextStep(i, FALSE, i)
                ELSE (IF later THEN PrevStep(whole, TRUE, whole) ELSE Reach(SeekGreatest(i)))
          [] w.left = <<>> -> IF n.compr /\ n.key /\ w.split # 0 /\ ~gt THEN i ELSE Step(i, FALSE)

SeekFrom(i, w, op, ele) ==
    LET n == NodeAt(rax.head, i.path)
        gt == op \in {">", ">="}
        Step(j, noup) == IF gt THEN NextStep(j, noup, j) ELSE PrevStep(j, noup, j)
        whole == [i EXCEPT !.key = @ \o n.chars]
        later == n.chars[w.split + 1] > w.left[1]
    IN  CASE w.left # <<>> /\ ~n.compr -> Step([i EXCEPT !.key = Append(@, w.left[1])], TRUE)
          [] w.left # <<>> /\ n.compr ->
                IF gt THEN (IF later THEN NextStep(i, FALSE, i) ELSE NextStep(whole, TRUE, whole))
                ELSE (IF later THEN PrevStep(whole, TRUE, whole) ELSE Reach(SeekGreatest(i)))
          [] w.left = <<>> -> IF n.compr /\ n.key /\ w.split # 0 /\ ~gt THEN i ELSE Step(i, FALSE)

\* raxSeek
RECURSIVE Seek(_, _, _)
Seek(i, op, ele) ==
    LET new == [i EXCEPT !.seeked = TRUE, !.eof = FALSE, !.key = <<>>, !.path = <<>>]
        w == LowWalk(rax.head, ele, <<>>)
        at == [new EXCEPT !.path = w.path]
        h == NodeAt(rax.head, w.path)
    IN  CASE rax.numele = 0 -> [new EXCEPT !.eof = TRUE]
          [] rax.numele # 0 /\ op = "^" -> Seek(i, ">=", <<>>)
          [] rax.numele # 0 /\ op = "$" -> Reach(SeekGreatest(new))
          [] OTHER -> IF op \in {"=", ">=", "<="} /\ AtNode(h, w) /\ h.key
                      THEN Reach([at EXCEPT !.key = ele])
                      ELSE IF op = "=" THEN [at EXCEPT !.eof = TRUE]
                      ELSE SeekFrom([at EXCEPT !.key = KeyAt(rax.head, w.path)], w, op, ele)

\* raxNext and raxPrev: nothing after the end, nor right after a seek.
Stepped(i, forward) ==
    IF i.eof THEN i
    ELSE IF i.seeked THEN [i EXCEPT !.seeked = FALSE]
    ELSE IF forward THEN NextStep(i, FALSE, i) ELSE PrevStep(i, FALSE, i)

-----------------------------------------------------------------------------
(* The calls.                                                              *)

\* raxNew
New == [head |-> NewNode(<<>>, <<>>, 0), numele |-> 0, numnodes |-> 1, overrun |-> FALSE]

\* What a lookup of each key finds.
Lookup(tree) == [s \in {k \in Keys : Find(tree, k) # Nothing} |-> Find(tree, s)]

Init ==
    /\ rax = New /\ found = Lookup(New)
    /\ it = Stopped /\ answer = Answer(<<"new">>, 0)

\* The tree is modified, while no iterator is at one of its nodes.
Modify(result) ==
    /\ ~it.on
    /\ rax' = result.tree /\ answer' = result.answer
    /\ found' = Lookup(result.tree)
    /\ UNCHANGED it

\* The iterator moves.
Move(call, i, ret) ==
    /\ it.on
    /\ it' = i /\ answer' = Answer(call, ret)
    /\ UNCHANGED <<rax, found>>

\* raxInsert and raxTryInsert
raxInsert ==
    \E s \in Keys, overwrite \in BOOLEAN :
        \E data \in Data(s) : Modify(GenericInsert(s, data, overwrite))

raxRemove == \E s \in Keys : Modify(RemoveKey(s)) /\ (Overruns \/ ~rax'.overrun)

raxStart ==
    /\ ~it.on
    /\ it' = [Stopped EXCEPT !.on = TRUE] /\ answer' = Answer(<<"start">>, 0)
    /\ UNCHANGED <<rax, found>>

\* An iterator is positioned when it is new, and again from the key it is at.
raxSeek ==
    \E op \in {"^", "$", "=", ">", ">=", "<", "<="}, ele \in Probes :
        /\ op \in {"^", "$"} => ele = <<>>
        /\ it.key = ele \/ (it.key = <<>> /\ it.eof /\ ~it.seeked)
        /\ Move(<<op, ele>>, Seek(it, op, ele), 1)

raxNext == LET i == Stepped(it, TRUE) IN Move(<<"next">>, i, IF i.eof THEN 0 ELSE 1)
raxPrev == LET i == Stepped(it, FALSE) IN Move(<<"prev">>, i, IF i.eof THEN 0 ELSE 1)

raxStop == Move(<<"stop">>, Stopped, 0)

Next == raxInsert \/ raxRemove \/ raxStart \/ raxSeek \/ raxNext \/ raxPrev \/ raxStop

Spec == Init /\ [][Next]_vars

-----------------------------------------------------------------------------
(* Properties.                                                             *)

Shown ==
    [on |-> it.on, eof |-> it.eof, seeked |-> it.seeked,
     key |-> IF it.eof /\ it.seeked THEN <<>> ELSE it.key, data |-> it.data]

Abstract == INSTANCE OrderedMap WITH map <- found, it <- Shown

\* raxFind finds what was inserted and not removed, the calls return what they should,
\* and the iterator is at the right key after any seek and any steps: the tree
\* implements the ordered map.
AbstractSpec == Abstract!Spec

\* The nodes in the order raxRecursiveFree meets them, reversed.
RECURSIVE AllNodes(_)
AllNodes(n) == <<n>> \o FlattenSeq([i \in DOMAIN n.kids |-> AllNodes(n.kids[i])])

Nodes(n) == ToSet(AllNodes(n))

\* Every node's characters, children and value fit into the memory it was given.
NodesFit == \A n \in Nodes(rax.head) : CurrentLength(n) <= n.alloc

\* numnodes is what raxFree counts down to zero (asserted in raxFreeWithCallback), and
\* numele, by which a seek tells an empty tree, the number of keys.
CountsExact ==
    /\ rax.numnodes = Len(AllNodes(rax.head))
    /\ rax.numele = Len(SelectSeq(AllNodes(rax.head), LAMBDA n : n.key))

\* An iterator that is at a key shows the data of that key (rax.h: "Data associated to
\* this key").
IteratorData == it.on /\ ~it.eof => it.data = Find(rax, it.key)
=============================================================================

----------------------------- MODULE OrderedMap -----------------------------
(***************************************************************************)
(* What a radix tree promises (rax.h): a map from strings to pointers that   *)
(* is ordered, and an iterator over it that is positioned by a comparison    *)
(* and moved in both directions.  Rax implements it.                         *)
(***************************************************************************)
EXTENDS Integers, SequencesExt, FiniteSetsExt

CONSTANTS
    Keys,       \* the keys that are inserted and removed
    Data(_),    \* the data a key is inserted with; 0 is NULL
    Probes      \* the strings an iterator is positioned at

VARIABLES
    map,        \* the data of every key
    it,         \* the iterator
    answer      \* the last call and what it returned: [call, ret, old]

vars == <<map, it, answer>>

NULL == 0
Nothing == -1       \* *old is not written

Answer(call, ret) == [call |-> call, ret |-> ret, old |-> Nothing]

\* Strings in the order of memcmp, a prefix first.
Less(a, b) ==
    \/ Len(a) < Len(b) /\ IsPrefix(a, b)
    \/ \E i \in 1..Min({Len(a), Len(b)}) : a[i] < b[i] /\ SubSeq(a, 1, i - 1) = SubSeq(b, 1, i - 1)

Least(S) == CHOOSE k \in S : \A j \in S : j = k \/ Less(k, j)
Greatest(S) == CHOOSE k \in S : \A j \in S : j = k \/ Less(j, k)

Stopped == [on |-> FALSE, eof |-> TRUE, seeked |-> FALSE, key |-> <<>>, data |-> NULL]

Init == map = <<>> /\ it = Stopped /\ answer = Answer(<<"new">>, 0)

-----------------------------------------------------------------------------
Old(k) == IF k \in DOMAIN map THEN map[k] ELSE Nothing

Insert(k, d, overwrite) ==
    /\ ~it.on
    /\ answer' = [call |-> <<"insert", k, d, overwrite>>,
                   ret |-> IF k \in DOMAIN map THEN 0 ELSE 1, old |-> Old(k)]
    /\ map' = [j \in DOMAIN map \cup {k} |-> IF j = k /\ (overwrite \/ k \notin DOMAIN map) THEN d ELSE map[j]]
    /\ UNCHANGED it

Delete(k) ==
    /\ ~it.on
    /\ answer' = [call |-> <<"remove", k>>, ret |-> IF k \in DOMAIN map THEN 1 ELSE 0, old |-> Old(k)]
    /\ map' = [j \in DOMAIN map \ {k} |-> map[j]]
    /\ UNCHANGED it

-----------------------------------------------------------------------------
At(k, d, seeked) == [on |-> TRUE, eof |-> FALSE, seeked |-> seeked, key |-> k, data |-> d]

Start ==
    /\ ~it.on
    /\ it' = [Stopped EXCEPT !.on = TRUE] /\ answer' = Answer(<<"start">>, 0)
    /\ UNCHANGED map

Matching(op, e) ==
    CASE op = "^" \/ op = "$" -> DOMAIN map
      [] op = "=" -> DOMAIN map \cap {e}
      [] op = ">" -> {k \in DOMAIN map : Less(e, k)}
      [] op = ">=" -> {k \in DOMAIN map : k = e \/ Less(e, k)}
      [] op = "<" -> {k \in DOMAIN map : Less(k, e)}
      [] op = "<=" -> {k \in DOMAIN map : k = e \/ Less(k, e)}

\* The nearest key that matches, or the end.  After "<" and "<=" the data may still be
\* that of the earlier position.
Seek(op, e) ==
    LET matching == Matching(op, e)
        k == IF op \in {"<", "<=", "$"} THEN Greatest(matching) ELSE Least(matching)
    IN  /\ it.on
        /\ answer' = Answer(<<op, e>>, 1)
        /\ IF matching = {} THEN it' = [Stopped EXCEPT !.on = TRUE, !.seeked = TRUE, !.data = it.data]
           ELSE \E d \in {map[k]} \cup (IF op \in {"<", "<="} THEN {it.data} ELSE {}) : it' = At(k, d, TRUE)
        /\ UNCHANGED map

\* A step: the first one after a seek stays; the one beyond the end keeps the key.
Step(name, beyond, Nearest(_)) ==
    /\ it.on
    /\ it' = CASE it.eof -> it
               [] ~it.eof /\ it.seeked -> [it EXCEPT !.seeked = FALSE]
               [] OTHER -> IF beyond = {} THEN [it EXCEPT !.eof = TRUE]
                           ELSE At(Nearest(beyond), map[Nearest(beyond)], FALSE)
    /\ answer' = Answer(<<name>>, IF it.eof \/ (~it.seeked /\ beyond = {}) THEN 0 ELSE 1)
    /\ UNCHANGED map

Forward == Step("next", {k \in DOMAIN map : Less(it.key, k)}, Least)
Backward == Step("prev", {k \in DOMAIN map : Less(k, it.key)}, Greatest)

Next ==
    \/ \E k \in Keys : Delete(k) \/ \E d \in Data(k), overwrite \in BOOLEAN : Insert(k, d, overwrite)
    \/ Start \/ Forward \/ Backward
    \/ \E op \in {"^", "$", "=", ">", ">=", "<", "<="}, e \in Probes : Seek(op, e)
    \/ it.on /\ it' = Stopped /\ answer' = Answer(<<"stop">>, 0) /\ UNCHANGED map

Spec == Init /\ [][Next]_vars
=============================================================================

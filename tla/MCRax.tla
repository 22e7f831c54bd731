------------------------------- MODULE MCRax -------------------------------
(* Rax for TLC: keys that share prefixes of different lengths.              *)
EXTENDS Rax

MCKeys == {<<>>, <<1>>, <<1, 1, 1>>, <<1, 1, 2, 1>>, <<1, 2, 1>>, <<2, 1>>}

\* Every key has data of its own; two are also inserted with NULL.
Code == [k \in MCKeys |-> 1 + FoldLeft(LAMBDA n, c : 3 * n + c, 0, k)]
MCData(k) == IF k \in {<<1>>, <<1, 2, 1>>} THEN {NULL, Code[k]} ELSE {Code[k]}

MCProbes == MCKeys \cup {<<1, 1>>, <<1, 1, 2>>, <<1, 1, 2, 2>>, <<1, 1, 1, 1>>, <<1, 3>>, <<3>>}
=============================================================================

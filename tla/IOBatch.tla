------------------------------ MODULE IOBatch ------------------------------
(***************************************************************************)
(* What threaded I/O promises to the rest of the server: batches of        *)
(* clients that are served one after the other, every client of a batch    *)
(* exactly once and in any order, and that end.                            *)
(***************************************************************************)
CONSTANT Client

VARIABLES
  op,     \* what the batch under way does, or "none"
  todo    \* its clients that have not been served yet

vars == <<op, todo>>

Init == op = "none" /\ todo = {}

Start(o, S) ==
  /\ op = "none" /\ S # {}
  /\ op' = o /\ todo' = S

Serve(c) ==
  /\ c \in todo
  /\ todo' = todo \ {c}
  /\ UNCHANGED op

Finish ==
  /\ op # "none" /\ todo = {}
  /\ op' = "none" /\ UNCHANGED todo

Next ==
  \/ \E o \in {"read", "write"}, S \in SUBSET Client : Start(o, S)
  \/ \E c \in Client : Serve(c)
  \/ Finish

Spec == Init /\ [][Next]_vars /\ WF_vars((\E c \in Client : Serve(c)) \/ Finish)
=============================================================================

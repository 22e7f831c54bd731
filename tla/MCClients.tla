----------------------------- MODULE MCClients -----------------------------
(* Clients for TLC; the bounds are in the configurations. *)
EXTENDS Clients, TLC

Symmetry == Permutations(Client)

\* One client sends commands of every kind but long ones, the others long ones and
\* those that meet them.
First == CHOOSE c \in Client : TRUE
AllKinds(c) ==
    IF c = First THEN {"reply", "push", "kill", "quit", "block", "unblock", "pause", "off"}
    ELSE {"reply", "kill", "block", "unblock", "busy"}

OnlyReply(c) == {"reply"}
=============================================================================

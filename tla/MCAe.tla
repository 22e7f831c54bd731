------------------------------- MODULE MCAe --------------------------------
(* Ae for TLC; the bounds are in the configurations. *)
EXTENDS Ae

\* Bound: with an event port, and for nested calls, which are made with epoll and while
\* the first entry is handled, the set has its full size, and there are no barriers and
\* two handlers that differ.
NestedBound ==
    LET nested == Len(frames') > 1
    IN  /\ nested => /\ api = "epoll" /\ frames'[1].j = 1
                     /\ \A i \in DOMAIN frames' : frames'[i].invert = 0
        /\ nested \/ api = "evport" =>
              /\ setsize = MaxFd + 1 /\ gen = 0
              /\ \A fd \in Fd : B \notin mask'[fd] /\ wproc'[fd] \notin RProc
=============================================================================

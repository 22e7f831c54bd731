------------------------------ MODULE MCReply ------------------------------
(* Reply for TLC; the bounds are in the configurations.                     *)
EXTENDS ReplyPeer

NoLimit == [hard |-> 0, soft |-> 0, seconds |-> 0]
MCLimits == {NoLimit, [hard |-> 8, soft |-> 6, seconds |-> 0]}
SoftLimit == {[hard |-> 0, soft |-> 3, seconds |-> 1]}
=============================================================================

------------------------------ MODULE MCAeTime ------------------------------
(* AeTime for TLC; the bounds are in the configuration. *)
EXTENDS AeTime
=============================================================================

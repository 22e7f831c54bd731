---------------------------- MODULE MCIOThreads ----------------------------
(* IOThreads for TLC; the bounds are in the configuration. *)
EXTENDS IOThreads
=============================================================================

-------------------------- MODULE MCServiceShutdown --------------------------
(* Instances of ServiceShutdown for TLC. *)
EXTENDS ServiceShutdown
=============================================================================

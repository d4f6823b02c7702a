--------------------------- MODULE MCSignalHandler ---------------------------
(* Instances of SignalHandler for TLC. *)
EXTENDS SignalHandler
=============================================================================

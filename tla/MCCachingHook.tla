---------------------------- MODULE MCCachingHook ----------------------------
(* Instances of CachingHook for TLC. *)
EXTENDS CachingHook
=============================================================================

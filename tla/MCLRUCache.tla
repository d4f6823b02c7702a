----------------------------- MODULE MCLRUCache -----------------------------
(* Instances of LRUCache for TLC. *)
EXTENDS LRUCache
=============================================================================

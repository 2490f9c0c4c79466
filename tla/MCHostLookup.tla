-------------------------- MODULE MCHostLookup --------------------------
(* HostLookup with up to three lookups. *)
EXTENDS HostLookup
=============================================================================

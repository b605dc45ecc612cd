---------------------------- MODULE MCDiscovery ----------------------------
(* Small instances of Discovery: the engine changes its mind a few times,  *)
(* and a channel of one slot is often full.                                *)
EXTENDS Discovery

CONSTANTS c1, c2
=============================================================================

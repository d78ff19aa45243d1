----------------------------- MODULE MCTTLCache -----------------------------
(***************************************************************************)
(* Two requests and two keys in a map for two: the lookup after the second *)
(* key drops the map, also under a build in flight.  The third entry is    *)
(* the one that a caller still holds after the drop.                       *)
(***************************************************************************)
EXTENDS TTLCache
=============================================================================

--------------------------- MODULE MCStatsStream ----------------------------
(***************************************************************************)
(* One connection that opens, subscribes and closes again and again, with  *)
(* a buffer of one event, in one of two scenarios: a client of the clients *)
(* channel alone, for which filters do not matter, while two events are    *)
(* ingested at once, and a client of all the channels while one is, inside *)
(* or outside its filter.                                                  *)
(***************************************************************************)
EXTENDS StatsStream

VARIABLE scenario

ClientAsks == {{"clients"}, {"summary", "events"}}

WithinBounds ==
    \/ scenario = "burst" /\ \A c \in Conns : sub[c] \subseteq {"clients"} /\ fits[c] = {}
    \/ scenario = "dashboard" /\ ingested <= 1 /\ \A c \in Conns : fits[c] \subseteq {1}

MCInit == StreamInit /\ scenario \in {"burst", "dashboard"}

MCNext == StreamNext /\ UNCHANGED scenario /\ WithinBounds'

MCSpec == MCInit /\ [][MCNext]_<<streamVars, scenario>> /\ StreamFairness
=============================================================================

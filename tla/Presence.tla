------------------------------ MODULE Presence ------------------------------
(***************************************************************************)
(* What the presence hub promises the dashboard, without generations,      *)
(* channels, timers or connections: a client is offline, has a connection, *)
(* or is inside the grace window after its newest connection dropped, and  *)
(* it leaves "online" only through that window.                            *)
(***************************************************************************)
CONSTANT Clients

VARIABLE status         \* client -> "offline" | "connected" | "grace"

Init == status = [c \in Clients |-> "offline"]

\* A connection (the first one, one that supersedes, or a reconnect in grace).
Arrive(c) == status' = [status EXCEPT ![c] = "connected"]

\* The newest connection of c ended.
Drop(c) ==
    /\ status[c] = "connected"
    /\ status' = [status EXCEPT ![c] = "grace"]

\* The grace window ended without a reconnect.
Expire(c) ==
    /\ status[c] = "grace"
    /\ status' = [status EXCEPT ![c] = "offline"]

Next == \E c \in Clients : Arrive(c) \/ Drop(c) \/ Expire(c)

\* A client does not stay in the grace window for ever.
Spec ==
    /\ Init
    /\ [][Next]_status
    /\ \A c \in Clients : WF_status(Expire(c))
=============================================================================

---------------------------- MODULE MCTelemetry -----------------------------
(***************************************************************************)
(* Two sightings at a time, within one of two bounds that a behaviour      *)
(* keeps to.  In "fleet" nothing is recorded but the machines: one with    *)
(* its hostname, a second one that takes the hostname over, an updater     *)
(* that sends no hwid, and both machines once more without their hostname. *)
(* In "retention" one machine reports over and over while hours pass and   *)
(* events are pruned.  The two together are far too many states.           *)
(***************************************************************************)
EXTENDS EventPrune

CONSTANTS h1, h2, n1

Report(hwid, name, session) == [hwid |-> hwid, name |-> name, session |-> session]

SomeRequests ==
    {Report(h1, n1, "active"), Report(h2, n1, "disconnected"),
     Report(NoHWID, n1, "silent"), Report(h1, NoName, "nobody"), Report(h2, NoName, "user")}

OneMachine == {Report(h1, n1, "active")}

VARIABLE scenario

WithinBounds ==
    \/ /\ scenario = "fleet"
       /\ nextEvent = 1 /\ now = 0
    \/ /\ scenario = "retention"
       /\ \A p \in Sightings : At(p, "idle") \/ Req(p) \in OneMachine
       /\ nextClient <= 2

MCInit == Init /\ scenario \in {"fleet", "retention"}

MCNext == Next /\ UNCHANGED scenario /\ WithinBounds'

MCSpec == MCInit /\ [][MCNext]_<<vars, scenario>> /\ Fairness
=============================================================================

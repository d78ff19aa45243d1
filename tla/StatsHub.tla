------------------------------ MODULE StatsHub ------------------------------
(***************************************************************************)
(* The in-process event bus, internal/statshub/statshub.go: one bounded    *)
(* buffer per subscriber and a Publish that never blocks.  mu makes each   *)
(* operation one step.                                                     *)
(*                                                                         *)
(* An event is EventKindTick or the number of an ingested event, which     *)
(* carries its entry and the row of its machine as fetched before it was   *)
(* published.  One machine is enough, since subscribers keep rows by id.   *)
(***************************************************************************)
EXTENDS Naturals, Sequences

CONSTANTS
    Conns,              \* connections of /v2/stats/stream, each a subscriber
    subscriberBuffer    \* 16 in the code

ASSUME HubAssumption == subscriberBuffer \in Nat \ {0}

VARIABLES
    subs,               \* the registered subscribers
    buf                 \* subscriber -> what its channel holds

hubVars == <<subs, buf>>

EventKindTick == 0

HubInit == subs = {} /\ buf = [c \in Conns |-> <<>>]

Subscribe(c) ==
    /\ subs' = subs \cup {c}
    /\ buf' = [buf EXCEPT ![c] = <<>>]

\* The cancel func.  The channel goes with the connection that reads it.
Unsubscribe(c) ==
    /\ subs' = subs \ {c}
    /\ buf' = [buf EXCEPT ![c] = <<>>]

Active == subs # {}

\* The event is dropped for this subscriber.
BufferFull(c) == Len(buf[c]) >= subscriberBuffer

Publish(ev) ==
    /\ buf' = [c \in Conns |-> IF c \in subs /\ ~BufferFull(c) THEN Append(buf[c], ev) ELSE buf[c]]
    /\ UNCHANGED subs

\* Run: one tick of the interval.
RunTick == Publish(EventKindTick)
=============================================================================

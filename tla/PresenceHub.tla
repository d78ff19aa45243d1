---------------------------- MODULE PresenceHub ----------------------------
(***************************************************************************)
(* The in-memory presence hub, internal/presencehub/presencehub.go.        *)
(*                                                                         *)
(* The hub maps an updater_clients id to the entry of its newest           *)
(* connection.  Every operation of the hub holds Hub.mu, so each one is a  *)
(* single step here.  What is not atomic is a grace timer: it expires (its *)
(* callback goroutine exists and waits for Hub.mu, where Timer.Stop no     *)
(* longer reaches it) and the callback runs in a later step.               *)
(*                                                                         *)
(* The module has no Next of its own: ClientWS calls Connect and           *)
(* Disconnect, and runs the two timer steps.                               *)
(***************************************************************************)
EXTENDS Naturals, FiniteSets

CONSTANT Clients        \* the ids of updater_clients rows

VARIABLES
    entries,            \* Hub.entries: client -> entry, Absent when not in the map
    nextGen,            \* Hub.nextGen
    superseded,         \* generations whose entry.supersede channel is closed
    firing              \* <<client, gen>> of expired grace callbacks waiting for Hub.mu

hubVars == <<entries, nextGen, superseded, firing>>

\* Generation 0 is never issued: Connect increments before it uses nextGen.
Absent == [gen |-> 0, timer |-> "none"]

TimerState == {"none", "armed", "expired"}

Entry == [gen : Nat, timer : TimerState]

HubTypeOK ==
    /\ entries \in [Clients -> Entry]
    /\ nextGen \in Nat
    /\ superseded \subseteq Nat
    /\ firing \subseteq Clients \X Nat

HubInit ==
    /\ entries = [c \in Clients |-> Absent]
    /\ nextGen = 0
    /\ superseded = {}
    /\ firing = {}

Online(c) == entries[c].gen # 0

\* The map with the graceTimer of c's entry in state t.
WithTimer(c, t) == [entries EXCEPT ![c] = [gen |-> entries[c].gen, timer |-> t]]

\* Faulty variant: a reconnect inherits the generation.
FaultyConnectReusingGen(c) ==
    /\ nextGen' = IF Online(c) THEN nextGen ELSE nextGen + 1
    /\ superseded' = superseded \cup (IF Online(c) THEN {entries[c].gen} ELSE {})
    /\ entries' = [entries EXCEPT ![c] = [gen |-> nextGen', timer |-> "none"]]
    /\ UNCHANGED firing

\* Connect: cancel the pending removal of the old entry, close its supersede
\* channel, and install an entry of a fresh generation.  Stop only prevents a
\* timer that has not expired; a callback in `firing` stays there.
Connect(c) ==
    /\ nextGen' = nextGen + 1
    /\ superseded' = superseded \cup (IF Online(c) THEN {entries[c].gen} ELSE {})
    /\ entries' = [entries EXCEPT ![c] = [gen |-> nextGen + 1, timer |-> "none"]]
    /\ UNCHANGED firing

\* Faulty variant: the generation is not compared.
FaultyDisconnectUnchecked(c, g) ==
    /\ entries' = IF Online(c)
                  THEN WithTimer(c, "armed")
                  ELSE entries
    /\ UNCHANGED <<nextGen, superseded, firing>>

\* Faulty variant: the entry is left without a timer.
FaultyDisconnectNoTimer(c, g) == UNCHANGED hubVars

\* Disconnect(Token{c, g}): a no-op unless g is still the current generation.
Disconnect(c, g) ==
    /\ entries' = IF entries[c].gen = g
                  THEN WithTimer(c, "armed")
                  ELSE entries
    /\ UNCHANGED <<nextGen, superseded, firing>>

\* The grace period of c's entry ends before anything stopped its timer.
GraceExpire(c) ==
    /\ entries[c].timer = "armed"
    /\ entries' = WithTimer(c, "expired")
    /\ firing' = firing \cup {<<c, entries[c].gen>>}
    /\ UNCHANGED <<nextGen, superseded>>

\* Faulty variant: the generation is not compared.
FaultyGraceCallback(c, g) ==
    /\ <<c, g>> \in firing
    /\ firing' = firing \ {<<c, g>>}
    /\ entries' = [entries EXCEPT ![c] = Absent]
    /\ UNCHANGED <<nextGen, superseded>>

\* The callback of time.AfterFunc, once it has Hub.mu.
GraceCallback(c, g) ==
    /\ <<c, g>> \in firing
    /\ firing' = firing \ {<<c, g>>}
    /\ entries' = IF entries[c].gen = g
                  THEN [entries EXCEPT ![c] = Absent]
                  ELSE entries
    /\ UNCHANGED <<nextGen, superseded>>
=============================================================================

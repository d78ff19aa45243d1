------------------------------ MODULE ClientWS ------------------------------
(***************************************************************************)
(* The lifecycle of the updaters' websocket connections,                   *)
(* internal/clientws/client_ws.route.go, over the presence hub.            *)
(*                                                                         *)
(* A connection is served by three goroutines: the handler itself (pc),    *)
(* which ends as the connection's only reader, the ping loop (pinger) and  *)
(* the goroutine that waits for a newer connection (watcher).  They share  *)
(* one context (ctxDone) and the flag wasSuperseded, which the handler     *)
(* reads only after wg.Wait.  A connection is used once, as in the code.   *)
(***************************************************************************)
EXTENDS PresenceHub

CONSTANTS
    Conns,              \* the websocket connections of a behaviour
    NoClient            \* before updaterclient.Upsert has returned an id

ASSUME NoClientAssumption == NoClient \notin Clients

VARIABLES
    pc,                 \* where ClientWS is for this connection
    client,             \* Token.clientID (the upserted id), NoClient before
    gen,                \* Token.gen, 0 before presence.Connect
    peer,               \* FALSE once the client has stopped sending frames, or is no longer read
    ctxDone,            \* the connection's context is cancelled
    watcher,            \* supersede goroutine: "off" | "on" | "done"
    pinger,             \* ping loop goroutine: "off" | "on" | "done"
    wasSuperseded,      \* the handler's local variable superseded
    closeReason         \* how c.Close was called, "open" before

connVars == <<pc, client, gen, peer, ctxDone, watcher, pinger, wasSuperseded, closeReason>>

vars == <<hubVars, connVars>>

\* The states of the handler, in the order of the code.
PCs == {"new", "identity", "upsert", "connect",
        "reading", "waiting", "disconnect", "closing", "closed"}

\* Between presence.Connect and presence.Disconnect.
Registered(n) == pc[n] \in {"reading", "waiting", "disconnect"}

\* After presence.Disconnect.
Released(n) == pc[n] \in {"closing", "closed"} /\ gen[n] # 0

TypeOK ==
    /\ HubTypeOK
    /\ pc \in [Conns -> PCs]
    /\ client \in [Conns -> Clients \cup {NoClient}]
    /\ gen \in [Conns -> Nat]
    /\ peer \in [Conns -> BOOLEAN]
    /\ ctxDone \in [Conns -> BOOLEAN]
    /\ watcher \in [Conns -> {"off", "on", "done"}]
    /\ pinger \in [Conns -> {"off", "on", "done"}]
    /\ wasSuperseded \in [Conns -> BOOLEAN]
    /\ closeReason \in [Conns -> {"open", "internal", "policy", "superseded", "normal"}]

Init ==
    /\ HubInit
    /\ pc = [n \in Conns |-> "new"]
    /\ client = [n \in Conns |-> NoClient]
    /\ gen = [n \in Conns |-> 0]
    /\ peer = [n \in Conns |-> TRUE]
    /\ ctxDone = [n \in Conns |-> FALSE]
    /\ watcher = [n \in Conns |-> "off"]
    /\ pinger = [n \in Conns |-> "off"]
    /\ wasSuperseded = [n \in Conns |-> FALSE]
    /\ closeReason = [n \in Conns |-> "open"]

-----------------------------------------------------------------------------
(* The handshake: hello, identity, upsert.  Each failing step cancels the  *)
(* context and closes the connection, which the hub has never heard of.    *)

GoTo(n, from, to) ==
    /\ pc[n] = from
    /\ pc' = [pc EXCEPT ![n] = to]

\* websocket.Accept, then the hello envelope.
Accept(n) ==
    /\ GoTo(n, "new", "identity")
    /\ UNCHANGED <<hubVars, client, gen, peer, ctxDone, watcher, pinger, wasSuperseded, closeReason>>

\* readClientIdentity returned an identity with a hwid or a hostname.
ReadIdentity(n) ==
    /\ GoTo(n, "identity", "upsert")
    /\ UNCHANGED <<hubVars, client, gen, peer, ctxDone, watcher, pinger, wasSuperseded, closeReason>>

\* upsertClientFn returned the id of the row that stands for the machine.
UpsertClient(n, c) ==
    /\ GoTo(n, "upsert", "connect")
    /\ client' = [client EXCEPT ![n] = c]
    /\ UNCHANGED <<hubVars, gen, peer, ctxDone, watcher, pinger, wasSuperseded, closeReason>>

\* The three early returns: the hello cannot be written, no valid identity
\* came within clientWSHelloTimeout, the upsert failed.
HandshakeFails(n) ==
    /\ pc[n] \in {"new", "identity", "upsert"}
    /\ pc' = [pc EXCEPT ![n] = "closed"]
    /\ ctxDone' = [ctxDone EXCEPT ![n] = TRUE]
    /\ closeReason' = [closeReason EXCEPT
                          ![n] = IF pc[n] = "identity" THEN "policy" ELSE "internal"]
    /\ UNCHANGED <<hubVars, client, gen, peer, watcher, pinger, wasSuperseded>>

-----------------------------------------------------------------------------
(* The established connection.                                             *)

HubConnect(n) ==
    /\ GoTo(n, "connect", "reading")
    /\ Connect(client[n])
    /\ gen' = [gen EXCEPT ![n] = nextGen']
    /\ watcher' = [watcher EXCEPT ![n] = "on"]
    /\ pinger' = [pinger EXCEPT ![n] = "on"]
    /\ UNCHANGED <<client, peer, ctxDone, wasSuperseded, closeReason>>

\* Faulty variant: the context is not cancelled.
FaultyWatcherNoCancel(n) ==
    /\ watcher[n] = "on"
    /\ gen[n] \in superseded
    /\ watcher' = [watcher EXCEPT ![n] = "done"]
    /\ wasSuperseded' = [wasSuperseded EXCEPT ![n] = TRUE]
    /\ UNCHANGED <<hubVars, pc, client, gen, peer, ctxDone, pinger, closeReason>>

\* select: <-supersede.  Both cases may be ready; select then picks either.
WatcherSuperseded(n) ==
    /\ watcher[n] = "on"
    /\ gen[n] \in superseded
    /\ watcher' = [watcher EXCEPT ![n] = "done"]
    /\ wasSuperseded' = [wasSuperseded EXCEPT ![n] = TRUE]
    /\ ctxDone' = [ctxDone EXCEPT ![n] = TRUE]
    /\ UNCHANGED <<hubVars, pc, client, gen, peer, pinger, closeReason>>

\* select: <-ctx.Done().
WatcherCtxDone(n) ==
    /\ watcher[n] = "on"
    /\ ctxDone[n]
    /\ watcher' = [watcher EXCEPT ![n] = "done"]
    /\ UNCHANGED <<hubVars, pc, client, gen, peer, ctxDone, pinger, wasSuperseded, closeReason>>

\* A ping that cannot be written ends the ping loop and nothing else: the
\* reader's idle timeout is what ends the connection.
PingFails(n) ==
    /\ pinger[n] = "on"
    /\ pinger' = [pinger EXCEPT ![n] = "done"]
    /\ UNCHANGED <<hubVars, pc, client, gen, peer, ctxDone, watcher, wasSuperseded, closeReason>>

PingCtxDone(n) ==
    /\ ctxDone[n]
    /\ PingFails(n)

\* The client crashes, sleeps or loses its network: no frame will arrive (a
\* client that does so earlier fails the handshake, or does so here).
\* Frames that do arrive only restart the idle timer (pong, unknown types and
\* malformed JSON alike), so reading one changes nothing here.
PeerGone(n) ==
    /\ pc[n] = "reading"
    /\ peer[n]
    /\ peer' = [peer EXCEPT ![n] = FALSE]
    /\ UNCHANGED <<hubVars, pc, client, gen, ctxDone, watcher, pinger, wasSuperseded, closeReason>>

\* Faulty variant: returns without cancelling the two goroutines.
FaultyReadLoopNoCancel(n) ==
    /\ GoTo(n, "reading", "waiting")
    /\ peer' = [peer EXCEPT ![n] = FALSE]
    /\ UNCHANGED <<hubVars, client, gen, ctxDone, watcher, pinger, wasSuperseded, closeReason>>

\* clientWSReadLoop returns (read error, 20s without a frame, context done);
\* the handler cancels and waits for the two goroutines.
ReadLoopReturns(n) ==
    /\ GoTo(n, "reading", "waiting")
    /\ ctxDone' = [ctxDone EXCEPT ![n] = TRUE]
    /\ peer' = [peer EXCEPT ![n] = FALSE]
    /\ UNCHANGED <<hubVars, client, gen, watcher, pinger, wasSuperseded, closeReason>>

WaitGroupDone(n) ==
    /\ watcher[n] = "done"
    /\ pinger[n] = "done"
    /\ GoTo(n, "waiting", "disconnect")
    /\ UNCHANGED <<hubVars, client, gen, peer, ctxDone, watcher, pinger, wasSuperseded, closeReason>>

HubDisconnect(n) ==
    /\ GoTo(n, "disconnect", "closing")
    /\ Disconnect(client[n], gen[n])
    /\ UNCHANGED <<client, gen, peer, ctxDone, watcher, pinger, wasSuperseded, closeReason>>

Close(n) ==
    /\ GoTo(n, "closing", "closed")
    /\ closeReason' = [closeReason EXCEPT
                          ![n] = IF wasSuperseded[n] THEN "superseded" ELSE "normal"]
    /\ UNCHANGED <<hubVars, client, gen, peer, ctxDone, watcher, pinger, wasSuperseded>>

\* The two steps of a grace timer leave the connections alone.
TimerExpires(c) == GraceExpire(c) /\ UNCHANGED connVars
TimerCallback(c) == (\E t \in firing : t[1] = c /\ GraceCallback(c, t[2])) /\ UNCHANGED connVars

-----------------------------------------------------------------------------
ConnStep(n) ==
    \/ Accept(n) \/ ReadIdentity(n)
    \/ \E c \in Clients : UpsertClient(n, c)
    \/ HandshakeFails(n) \/ HubConnect(n)
    \/ WatcherSuperseded(n) \/ WatcherCtxDone(n)
    \/ PingFails(n) \/ PingCtxDone(n) \/ PeerGone(n)
    \/ ReadLoopReturns(n) \/ WaitGroupDone(n) \/ HubDisconnect(n) \/ Close(n)

Next ==
    \/ \E n \in Conns : ConnStep(n)
    \/ \E c \in Clients : TimerExpires(c) \/ TimerCallback(c)

\* Goroutines that can run do run; a read of a cancelled context, or of a peer
\* that sends nothing, returns (clientWSIdleTimeout); an expired timer's
\* callback gets Hub.mu, which nothing holds for long; an armed timer expires.
\* Accepting a connection, and what the client sends, is not assumed.
Fairness ==
    /\ \A n \in Conns :
        /\ WF_vars(HubConnect(n))
        /\ WF_vars(WatcherSuperseded(n) \/ WatcherCtxDone(n))
        /\ WF_vars(PingCtxDone(n))
        /\ WF_vars((ctxDone[n] \/ ~peer[n]) /\ ReadLoopReturns(n))
        /\ WF_vars(WaitGroupDone(n))
        /\ WF_vars(HubDisconnect(n))
        /\ WF_vars(Close(n))
    /\ \A c \in Clients : WF_vars(TimerExpires(c)) /\ WF_vars(TimerCallback(c))

SafetySpec == Init /\ [][Next]_vars

Spec == SafetySpec /\ Fairness

-----------------------------------------------------------------------------
(* Properties.                                                             *)

\* Every connection between Connect and Disconnect either is the one its
\* client's entry stands for, with no removal pending, or has been told to go:
\* a reconnect, a late Disconnect of the old connection or an old grace
\* callback never takes the newest connection's client offline
\* (Hub.Connect, Hub.Disconnect and the AfterFunc callback).
CurrentOrSuperseded ==
    \A n \in Conns : Registered(n) =>
        \/ entries[client[n]].gen = gen[n] /\ entries[client[n]].timer = "none"
        \/ gen[n] \in superseded

\* The channel Connect is about to close is still open: closing a closed
\* channel panics the process (close(old.supersede) in Hub.Connect).
NoDoubleClose ==
    \A c \in Clients : entries[c].gen \notin superseded

\* A client that is closed with "superseded by newer connection" was: a later
\* generation was issued (the handler's use of superseded after wg.Wait).
SupersededReasonTrue ==
    \A n \in Conns : closeReason[n] = "superseded" =>
        /\ gen[n] \in superseded
        /\ gen[n] < nextGen

\* Nothing is left behind in the map: an entry belongs to a connection that is
\* still registered, or a grace timer is going to look at it.
NoOrphanEntry ==
    \A c \in Clients : Online(c) =>
        \/ entries[c].timer = "armed"
        \/ entries[c].timer = "expired" /\ <<c, entries[c].gen>> \in firing
        \/ \E n \in Conns : Registered(n) /\ client[n] = c /\ gen[n] = entries[c].gen

\* A client goes offline only in the grace callback of its newest connection,
\* after that connection has disconnected: a reconnect inside the grace window
\* is seamless (the gen check of the AfterFunc callback).
OfflineOnlyAfterGrace ==
    [][\A c \in Clients : Online(c) /\ ~Online(c)' =>
          /\ \E n \in Conns : Released(n) /\ client[n] = c /\ gen[n] = entries[c].gen
          /\ ~\E n \in Conns : Registered(n) /\ client[n] = c /\ gen[n] \notin superseded]_vars

\* A superseded connection is eventually closed by the server, whatever its
\* peer does (the watcher goroutine of ClientWS).
SupersededCloses ==
    \A n \in Conns : (Registered(n) /\ gen[n] \in superseded) ~> (pc[n] = "closed")

\* A client whose connections are all gone does not stay online for ever, even
\* when its peer vanished without a word (idle timeout, then the grace timer).
NoGhostPresence ==
    \A c \in Clients :
        Online(c) ~> (~Online(c) \/ \E n \in Conns : Registered(n) /\ client[n] = c /\ peer[n])

\* The hub as the dashboard sees it.
presenceStatus ==
    [c \in Clients |->
        IF ~Online(c) THEN "offline"
        ELSE IF entries[c].timer = "none" THEN "connected" ELSE "grace"]

Abstract == INSTANCE Presence WITH status <- presenceStatus

\* The hub driven by real connections implements the promise in Presence,
\* its liveness included.
ImplementsPresence == Abstract!Spec

-----------------------------------------------------------------------------
(* The inductive invariant behind the properties (ClientWSProofs).         *)

\* Tokens are issued once and never ahead of nextGen.
TokensIssuedOnce ==
    /\ \A n \in Conns :
        /\ gen[n] <= nextGen
        /\ pc[n] \in {"new", "identity", "upsert", "connect"} => gen[n] = 0
        /\ pc[n] \in {"connect", "reading", "waiting", "disconnect", "closing"} => client[n] \in Clients
        /\ Registered(n) \/ pc[n] = "closing" => gen[n] # 0
        /\ gen[n] # 0 => client[n] \in Clients
    /\ \A m, n \in Conns : gen[m] = gen[n] /\ gen[m] # 0 => m = n

\* An entry is the entry of some connection's token.  That connection is
\* registered for as long as there is no timer; after it has disconnected the
\* timer is running or its callback is on its way.
EntryHasOwner ==
    \A c \in Clients :
        /\ entries[c].gen <= nextGen
        /\ Online(c) => \E n \in Conns :
            /\ gen[n] = entries[c].gen
            /\ client[n] = c
            /\ IF entries[c].timer = "none" THEN Registered(n) ELSE Released(n)
        /\ entries[c].timer = "expired" => <<c, entries[c].gen>> \in firing
        /\ ~Online(c) => entries[c].timer = "none"

\* A grace callback belongs to a connection that has disconnected.
CallbackHasOwner ==
    \A t \in firing : \E n \in Conns :
        gen[n] = t[2] /\ client[n] = t[1] /\ Released(n)

\* A superseded generation is one a newer Connect has followed.
SupersededPast == \A g \in superseded : g # 0 /\ g < nextGen

\* A connection believes itself superseded only if it is (used for
\* SupersededReasonTrue).
ReasonTracked ==
    \A n \in Conns :
        wasSuperseded[n] \/ closeReason[n] = "superseded" => gen[n] \in superseded

IInv ==
    /\ TypeOK
    /\ TokensIssuedOnce
    /\ EntryHasOwner
    /\ CallbackHasOwner
    /\ SupersededPast
    /\ NoDoubleClose
    /\ CurrentOrSuperseded
    /\ ReasonTracked
=============================================================================

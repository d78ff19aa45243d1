---------------------------- MODULE StatsStream -----------------------------
(***************************************************************************)
(* GET /v2/stats/stream, internal/stats/stats_stream.route.go, with the    *)
(* ingest that feeds it (updaterclient.RecordEvent after its INSERT).      *)
(*                                                                         *)
(* A connection has three goroutines: the reader, which applies the        *)
(* client's messages and sends snapshots; the event loop, which marks what *)
(* hub events have made stale and flushes the marks once a second; and the *)
(* ping loop.  A query and the send of its result are separate steps, and  *)
(* the two senders share only the lock of the single write.                *)
(*                                                                         *)
(* What a client sees of a channel is the number of ingested events that   *)
(* the last message on it reflects, and 0 when that message was made for   *)
(* parameters the client has since replaced.  An event that the filter of  *)
(* the events channel excludes is never waited for there.  A write that    *)
(* fails closes the websocket, which is the end of the reader.             *)
(***************************************************************************)
EXTENDS StatsHub

CONSTANTS
    Asks,               \* sets of channels that a client's message names
    MaxEvents           \* bound on the events ever ingested, all in flight at once

Channels == {"summary", "clients", "events"}

ASSUME StreamAssumption == MaxEvents \in Nat /\ Asks \subseteq SUBSET Channels

VARIABLES
    ingested,           \* events in the database; also the version of the machine's row
    ingest,             \* ingest -> [pc, row]
    sub,                \* connection -> sub.channels
    fits,               \* connection -> events that pass its events filter
    pending,            \* connection -> wsPending
    reader,             \* connection -> [pc, todo, val]
    loop,               \* connection -> [pc, work, val]
    ping,               \* connection -> whether the ping loop runs
    view,               \* connection -> channel -> what the client has seen last
    lost,               \* history: connection -> a refresh was lost to it since it opened
    changed             \* connection -> its client has changed the parameters, bounded to once

connVars == <<sub, fits, pending, reader, loop, ping, view, lost, changed>>
streamVars == <<hubVars, ingested, ingest, connVars>>

\* The requests that record an event, numbered in the order of their INSERTs.
Ingests == 1..MaxEvents

\* The channels whose contents depend on the parameters of the subscription.
Filtered == {"summary", "events"}

\* The order in which flush sends.
Before(ch) == CASE ch = "summary" -> {}
                [] ch = "clients" -> {"summary"}
                [] ch = "events" -> {"summary", "clients"}

\* summary, events and clientsSnapshot ("clients") are marks; row is the row
\* of the machine that was noted last, 0 without one.
Pending == [marks : SUBSET Channels, row : 0..MaxEvents]
NoPending == [marks |-> {}, row |-> 0]

\* todo   channels whose snapshot a subscribe still owes
\* work   channels a flush has taken and not yet sent; row as in Pending
\* old    the flush's copy of the parameters is no longer the subscription's
\* ch, val   what has been fetched and is about to be sent
Reader == [pc : {"closed", "read", "send", "wait"}, todo : SUBSET Channels,
           ch : Channels, val : 0..MaxEvents]
Loop == [pc : {"start", "select", "flush", "send", "done"}, work : SUBSET Channels,
         row : 0..MaxEvents, old : BOOLEAN, ch : Channels, val : 0..MaxEvents]

MkReader(pc, todo, ch, val) == [pc |-> pc, todo |-> todo, ch |-> ch, val |-> val]
MkLoop(pc, work, row, old, ch, val) ==
    [pc |-> pc, work |-> work, row |-> row, old |-> old, ch |-> ch, val |-> val]

Resting(pc) == MkReader(pc, {}, "summary", 0)
Selecting(pc) == MkLoop(pc, {}, 0, FALSE, "summary", 0)

NoView == [ch \in Channels |-> 0]

StreamTypeOK ==
    /\ subs \subseteq Conns
    /\ buf \in [Conns -> Seq(0..MaxEvents)]
    /\ \A c \in Conns : Len(buf[c]) <= subscriberBuffer
    /\ ingested \in 0..MaxEvents
    /\ ingest \in [Ingests -> [pc : {"new", "check", "publish", "done"}, row : 0..MaxEvents]]
    /\ sub \in [Conns -> SUBSET Channels]
    /\ fits \in [Conns -> SUBSET Ingests]
    /\ pending \in [Conns -> Pending]
    /\ reader \in [Conns -> Reader]
    /\ loop \in [Conns -> Loop]
    /\ ping \in [Conns -> BOOLEAN]
    /\ view \in [Conns -> [Channels -> 0..MaxEvents]]
    /\ lost \in [Conns -> BOOLEAN]
    /\ changed \in [Conns -> BOOLEAN]

StreamInit ==
    /\ HubInit
    /\ ingested = 0
    /\ ingest = [i \in Ingests |-> [pc |-> "new", row |-> 0]]
    /\ sub = [c \in Conns |-> {}]
    /\ fits = [c \in Conns |-> {}]
    /\ pending = [c \in Conns |-> NoPending]
    /\ reader = [c \in Conns |-> Resting("closed")]
    /\ loop = [c \in Conns |-> Selecting("done")]
    /\ ping = [c \in Conns |-> FALSE]
    /\ view = [c \in Conns |-> NoView]
    /\ lost = [c \in Conns |-> FALSE]
    /\ changed = [c \in Conns |-> FALSE]

Connected(c) == reader[c].pc \in {"read", "send"}

\* The context of the connection: cancel() follows the return of readLoop.
Cancelled(c) == ~Connected(c)

-----------------------------------------------------------------------------
(* RecordEvent.                                                            *)

\* insertEvent has committed.
Insert(i) ==
    /\ i = ingested + 1
    /\ ingested' = i
    /\ ingest' = [ingest EXCEPT ![i].pc = "check"]
    /\ UNCHANGED <<hubVars, connVars>>

\* hub.Active, and the SELECT of the row when somebody listens.
FetchRow(i) ==
    /\ ingest[i].pc = "check"
    /\ Active
    /\ ingest' = [ingest EXCEPT ![i] = [pc |-> "publish", row |-> ingested]]
    /\ UNCHANGED <<hubVars, ingested, connVars>>

\* Nobody listens, or the SELECT fails: the event is not published.
SkipPublish(i) ==
    /\ ingest[i].pc = "check"
    /\ ingest' = [ingest EXCEPT ![i].pc = "done"]
    /\ lost' = [c \in Conns |-> lost[c] \/ Connected(c)]
    /\ UNCHANGED <<hubVars, ingested, sub, fits, pending, reader, loop, ping, view, changed>>

\* A connection that is full or not yet registered misses it.
PublishRow(i) ==
    /\ ingest[i].pc = "publish"
    /\ Publish(i)
    /\ ingest' = [ingest EXCEPT ![i].pc = "done"]
    /\ lost' = [c \in Conns |-> lost[c] \/ (Connected(c) /\ (c \notin subs \/ BufferFull(c)))]
    /\ UNCHANGED <<ingested, sub, fits, pending, reader, loop, ping, view, changed>>

-----------------------------------------------------------------------------
(* The reader.                                                             *)

\* StatsStream: the upgrade, newWSConn and the two goroutines.  The window of the
\* events channel ends now, and an event is dated when it is published: the ones
\* still to be published are outside.  Of the others the product decides.
Open(c) ==
    /\ reader[c].pc = "closed"
    /\ sub' = [sub EXCEPT ![c] = {}]
    /\ \E f \in SUBSET {i \in Ingests : ingest[i].pc = "done"} : fits' = [fits EXCEPT ![c] = f]
    /\ pending' = [pending EXCEPT ![c] = NoPending]
    /\ reader' = [reader EXCEPT ![c] = Resting("read")]
    /\ loop' = [loop EXCEPT ![c] = Selecting("start")]
    /\ ping' = [ping EXCEPT ![c] = TRUE]
    /\ UNCHANGED <<hubVars, ingested, ingest, view, lost, changed>>

\* handleSubscribe: the channels are added and every named one is owed a snapshot.
HandleSubscribe(c, chs) ==
    /\ reader[c].pc = "read" /\ reader[c].todo = {}
    /\ sub' = [sub EXCEPT ![c] = @ \cup chs]
    /\ reader' = [reader EXCEPT ![c].todo = chs]
    /\ UNCHANGED <<hubVars, ingested, ingest, fits, pending, loop, ping, view, lost, changed>>

\* handleSubscribe with params: what was sent, fetched or copied for the previous
\* ones no longer fits, and nothing replaces it on a channel that the message does
\* not name.  Window, event type and product may let through any events.
ChangeParams(c, chs, f) ==
    /\ reader[c].pc = "read" /\ reader[c].todo = {}
    /\ ~changed[c]
    /\ changed' = [changed EXCEPT ![c] = TRUE]
    /\ lost' = [lost EXCEPT ![c] = @ \/ (Filtered \cap sub[c]) \ chs # {}]
    /\ sub' = [sub EXCEPT ![c] = @ \cup chs]
    /\ fits' = [fits EXCEPT ![c] = f]
    /\ reader' = [reader EXCEPT ![c].todo = chs]
    /\ view' = [view EXCEPT ![c] = [ch \in Channels |-> IF ch \in Filtered THEN 0 ELSE @[ch]]]
    /\ loop' = [loop EXCEPT ![c].old = loop[c].work # {},
                            ![c].val = IF loop[c].ch \in Filtered THEN 0 ELSE @]
    /\ UNCHANGED <<hubVars, ingested, ingest, pending, ping>>

HandleUnsubscribe(c, chs) ==
    /\ reader[c].pc = "read" /\ reader[c].todo = {}
    /\ sub' = [sub EXCEPT ![c] = @ \ chs]
    /\ view' = [view EXCEPT ![c] = [ch \in Channels |-> IF ch \in chs THEN 0 ELSE @[ch]]]
    /\ UNCHANGED <<hubVars, ingested, ingest, fits, pending, reader, loop, ping, lost, changed>>

\* sendSnapshot: the query ...
SnapshotFetch(c, ch) ==
    /\ reader[c].pc = "read"
    /\ ch \in reader[c].todo
    /\ reader' = [reader EXCEPT ![c] = MkReader("send", @.todo \ {ch}, ch, ingested)]
    /\ UNCHANGED <<hubVars, ingested, ingest, sub, fits, pending, loop, ping, view, lost, changed>>

\* ... or its failure, answered with an error message ...
SnapshotFails(c, ch) ==
    /\ reader[c].pc = "read"
    /\ ch \in reader[c].todo
    /\ reader' = [reader EXCEPT ![c].todo = @ \ {ch}]
    /\ lost' = [lost EXCEPT ![c] = TRUE]
    /\ UNCHANGED <<hubVars, ingested, ingest, sub, fits, pending, loop, ping, view, changed>>

\* A message reaches the client.  One that is older than what it has seen has
\* been overtaken by the other sender, or by a later event's row.  One for a
\* channel it has left, or that comes when it is gone, means nothing to it.
Deliver(c, ch, val) ==
    LET heard == Connected(c) /\ ch \in sub[c] IN
    /\ view' = [view EXCEPT ![c][ch] = IF heard THEN val ELSE @]
    /\ lost' = [lost EXCEPT ![c] = @ \/ (heard /\ val < view[c][ch])]

\* ... and the send.
SnapshotSend(c) ==
    /\ reader[c].pc = "send"
    /\ Deliver(c, reader[c].ch, reader[c].val)
    /\ reader' = [reader EXCEPT ![c] = MkReader("read", @.todo, "summary", 0)]
    /\ UNCHANGED <<hubVars, ingested, ingest, sub, fits, pending, loop, ping, changed>>

\* readLoop returns: the client is gone, or 90 s without a frame; cancel().
ReadLoopReturns(c) ==
    /\ reader[c].pc = "read" /\ reader[c].todo = {}
    /\ reader' = [reader EXCEPT ![c] = Resting("wait")]
    /\ view' = [view EXCEPT ![c] = NoView]
    /\ lost' = [lost EXCEPT ![c] = FALSE]
    /\ changed' = [changed EXCEPT ![c] = FALSE]
    /\ UNCHANGED <<hubVars, ingested, ingest, sub, fits, pending, loop, ping>>

\* wg.Wait and the close.
Close(c) ==
    /\ reader[c].pc = "wait"
    /\ loop[c].pc = "done" /\ ~ping[c]
    /\ reader' = [reader EXCEPT ![c] = Resting("closed")]
    /\ sub' = [sub EXCEPT ![c] = {}]
    /\ fits' = [fits EXCEPT ![c] = {}]
    /\ pending' = [pending EXCEPT ![c] = NoPending]
    /\ UNCHANGED <<hubVars, ingested, ingest, loop, ping, view, lost, changed>>

-----------------------------------------------------------------------------
(* The ping loop and the event loop.                                       *)

\* pingLoop ends with the context.  It may end before, with the first write that
\* fails, which only the wg.Wait of Close could notice.
PingLoopReturns(c) ==
    /\ ping[c] /\ Cancelled(c)
    /\ ping' = [ping EXCEPT ![c] = FALSE]
    /\ UNCHANGED <<hubVars, ingested, ingest, sub, fits, pending, reader, loop, view, lost, changed>>

LoopSubscribe(c) ==
    /\ loop[c].pc = "start"
    /\ Subscribe(c)
    /\ loop' = [loop EXCEPT ![c] = Selecting("select")]
    /\ UNCHANGED <<ingested, ingest, sub, fits, pending, reader, ping, view, lost, changed>>

\* What an event from the hub makes stale, among the channels of the connection;
\* wsEventMatchesSubscription decides on events.
Outdated(c, ev) ==
    sub[c] \cap (IF ev = EventKindTick THEN {"summary", "clients"}
                 ELSE IF ev \in fits[c] THEN Filtered ELSE {"summary"})

\* The row to push: the one the event carries, or the one that is there.
RowAfter(c, ev) ==
    IF ev # EventKindTick /\ "clients" \in sub[c] THEN ingest[ev].row ELSE pending[c].row

\* Faulty variant: the marks of an event replace the ones that are there.
FaultyNoteHubEvent(c, ev) == [marks |-> Outdated(c, ev), row |-> RowAfter(c, ev)]

\* Faulty variant: the tick asks for no resync of the clients.
FaultyTickNoResync(c, ev) ==
    [marks |-> pending[c].marks \cup (Outdated(c, ev) \ {"clients"}), row |-> RowAfter(c, ev)]

\* noteHubEvent: what the connection owes after the event.
NoteHubEvent(c, ev) ==
    [marks |-> pending[c].marks \cup Outdated(c, ev), row |-> RowAfter(c, ev)]

\* eventLoop: case ev := <-ch.  The row of an event that was published late takes
\* the place of a fresher one.
LoopReceive(c) ==
    LET noted == NoteHubEvent(c, Head(buf[c])) IN
    /\ loop[c].pc = "select"
    /\ buf[c] # <<>>
    /\ pending' = [pending EXCEPT ![c] = noted]
    /\ buf' = [buf EXCEPT ![c] = Tail(@)]
    /\ lost' = [lost EXCEPT ![c] = @ \/ (Connected(c) /\ noted.row < pending[c].row)]
    /\ UNCHANGED <<subs, ingested, ingest, sub, fits, reader, loop, ping, view, changed>>

\* eventLoop: case <-t.C.  flush takes everything that is pending and resets it;
\* a full resync of the clients takes the place of the row.
TakePending(c) ==
    LET p == pending[c] IN
    /\ loop[c].pc = "select"
    /\ p # NoPending
    /\ pending' = [pending EXCEPT ![c] = NoPending]
    /\ loop' = [loop EXCEPT ![c] =
                   MkLoop("flush", p.marks \cup (IF p.row # 0 THEN {"clients"} ELSE {}),
                          IF "clients" \in p.marks THEN 0 ELSE p.row, FALSE, "summary", 0)]
    /\ UNCHANGED <<hubVars, ingested, ingest, sub, fits, reader, ping, view, lost, changed>>

Next1(c, ch) == ch \in loop[c].work /\ loop[c].work \cap Before(ch) = {}

\* flush: the query of the next channel; the rows of a delta are already there.
FlushFetch(c, ch) ==
    /\ loop[c].pc = "flush"
    /\ Next1(c, ch)
    /\ ~Cancelled(c)
    /\ LET val == CASE ch = "clients" /\ loop[c].row # 0 -> loop[c].row
                    [] ch \in Filtered /\ loop[c].old -> 0
                    [] OTHER -> ingested
       IN  loop' = [loop EXCEPT ![c] = MkLoop("send", @.work, @.row, @.old, ch, val)]
    /\ UNCHANGED <<hubVars, ingested, ingest, sub, fits, pending, reader, ping, view, lost, changed>>

\* After the last channel the loop is back in its select.
FlushedRest(c, ch) ==
    LET rest == loop[c].work \ {ch}
    IN  IF rest = {} THEN Selecting("select") ELSE MkLoop("flush", rest, loop[c].row, loop[c].old, "summary", 0)

\* The query fails, and the mark is gone; a delta has no query.  On a cancelled
\* context everything fails.
FlushFails(c, ch) ==
    /\ loop[c].pc = "flush"
    /\ Next1(c, ch)
    /\ Cancelled(c) \/ ~(ch = "clients" /\ loop[c].row # 0)
    /\ loop' = [loop EXCEPT ![c] = FlushedRest(c, ch)]
    /\ lost' = [lost EXCEPT ![c] = Connected(c)]
    /\ UNCHANGED <<hubVars, ingested, ingest, sub, fits, pending, reader, ping, view, changed>>

FlushSend(c) ==
    /\ loop[c].pc = "send"
    /\ Deliver(c, loop[c].ch, loop[c].val)
    /\ loop' = [loop EXCEPT ![c] = FlushedRest(c, loop[c].ch)]
    /\ UNCHANGED <<hubVars, ingested, ingest, sub, fits, pending, reader, ping, changed>>

\* Faulty variant: the loop ends without its deferred unsubscribe.
FaultyLoopReturns(c) ==
    /\ loop[c].pc = "select"
    /\ Cancelled(c)
    /\ loop' = [loop EXCEPT ![c] = Selecting("done")]
    /\ UNCHANGED <<hubVars, ingested, ingest, sub, fits, pending, reader, ping, view, lost, changed>>

\* eventLoop: case <-ctx.Done(), and the deferred unsubscribe.
LoopReturns(c) ==
    /\ loop[c].pc = "select"
    /\ Cancelled(c)
    /\ Unsubscribe(c)
    /\ loop' = [loop EXCEPT ![c] = Selecting("done")]
    /\ UNCHANGED <<ingested, ingest, sub, fits, pending, reader, ping, view, lost, changed>>

HubTick == RunTick /\ UNCHANGED <<ingested, ingest, connVars>>

\* What the event loop does outside its select.
LoopGoesOn(c) ==
    \/ LoopSubscribe(c) \/ FlushSend(c)
    \/ \E ch \in Channels : FlushFetch(c, ch) \/ FlushFails(c, ch)

StreamNext ==
    \/ HubTick
    \/ \E i \in Ingests : Insert(i) \/ FetchRow(i) \/ SkipPublish(i) \/ PublishRow(i)
    \/ \E c \in Conns :
        \/ Open(c) \/ ReadLoopReturns(c) \/ Close(c) \/ PingLoopReturns(c)
        \/ \E chs \in Asks :
            \/ HandleSubscribe(c, chs) \/ HandleUnsubscribe(c, chs)
            \/ \E f \in SUBSET Ingests : ChangeParams(c, chs, f)
        \/ \E ch \in Channels : SnapshotFetch(c, ch) \/ SnapshotFails(c, ch)
        \/ SnapshotSend(c)
        \/ LoopGoesOn(c) \/ LoopReceive(c) \/ TakePending(c) \/ LoopReturns(c)

\* The ticker goes on.  A goroutine that can go on does; select, which chooses at
\* random, does not pass over a case that keeps coming back.  The queries of the
\* channels that the tick refreshes do not fail for ever while the connection lives.
StreamFairness ==
    /\ WF_streamVars(HubTick)
    /\ \A c \in Conns :
        /\ WF_streamVars(LoopGoesOn(c)) /\ WF_streamVars(PingLoopReturns(c) \/ Close(c))
        /\ SF_streamVars(LoopReceive(c)) /\ SF_streamVars(TakePending(c)) /\ SF_streamVars(LoopReturns(c))
        /\ SF_streamVars(FlushFetch(c, "summary")) /\ SF_streamVars(FlushFetch(c, "clients"))

StreamSafety == StreamInit /\ [][StreamNext]_streamVars
StreamSpec == StreamSafety /\ StreamFairness

-----------------------------------------------------------------------------
\* The channel is to reflect the event.
Awaited(c, ch, i) == ch = "events" => i \in fits[c]

Stale(c, ch) ==
    /\ Connected(c) /\ ch \in sub[c]
    /\ \E i \in 1..ingested : Awaited(c, ch, i) /\ i > view[c][ch]

\* The connection still has a refresh of the channel coming.
Owed(c, ch) ==
    \/ ch \in reader[c].todo \/ (reader[c].pc = "send" /\ reader[c].ch = ch)
    \/ \E i \in Ingests : ingest[i].pc \in {"check", "publish"} /\ Awaited(c, ch, i)
    \/ \E k \in 1..Len(buf[c]) : buf[c][k] # EventKindTick /\ Awaited(c, ch, buf[c][k])
    \/ ch \in pending[c].marks \/ (ch = "clients" /\ pending[c].row # 0)
    \/ ch \in loop[c].work

\* A channel the client has subscribed to shows every event, and the events
\* channel every event of its filter, or a refresh of it is under way:
\* subscribing in the middle of an ingest, a flush and a burst of events loses
\* nothing (the marks of noteHubEvent and takePending, the channel added before
\* its snapshot in handleSubscribe).  Excepted is a connection for which an event
\* was dropped or not published, a query failed, a message was overtaken, or the
\* parameters were changed without naming a subscribed channel that depends on
\* them.  An event after the end of the window is outside the filter, also when
\* it falls into an hour that the query of the channel counts: of a subscription
\* that sets no events.to, whose window ends when its connection opens, the
\* property says nothing about what is published later.
StaleMeansOwed ==
    \A c \in Conns : ~lost[c] => \A ch \in Channels : Stale(c, ch) => Owed(c, ch)

\* Whatever was lost, the tick repairs the summary and the clients: neither stays
\* stale for ever on a connection that lives (noteHubEvent's EventKindTick).
StreamConverges ==
    \A c \in Conns : \A ch \in {"summary", "clients"} : Stale(c, ch) ~> ~Stale(c, ch)

\* A connection whose reader has returned is closed and is off the hub, also when
\* it ends in the middle of a flush or before its loop has subscribed (cancel,
\* wg.Wait and the deferred unsubscribe).
StreamEnds ==
    \A c \in Conns :
        reader[c].pc = "wait" ~> (reader[c].pc = "closed" /\ c \notin subs)

-----------------------------------------------------------------------------
(* The inductive invariant of StaleMeansOwed (StatsProofs): event by event *)
(* where a refresh that reflects it is.                                    *)

\* A flush has taken the channel and will send, or has fetched, what includes
\* the event i.
InFlush(c, ch, i) ==
    /\ ch \in loop[c].work
    /\ IF loop[c].pc = "send" /\ loop[c].ch = ch THEN i <= loop[c].val
       ELSE /\ ch = "clients" /\ loop[c].row # 0 => i <= loop[c].row
            /\ ch \in Filtered => ~loop[c].old

\* A snapshot that is owed or fetched includes the event.
InSnapshot(c, ch, i) ==
    ch \in reader[c].todo \/ (reader[c].pc = "send" /\ reader[c].ch = ch /\ i <= reader[c].val)

\* The event is on its way through the hub, or an event is that marks the channel
\* and carries a row with it.
InHub(c, ch, i) ==
    \/ ingest[i].pc \in {"check", "publish"}
    \/ \E k \in 1..Len(buf[c]) :
        buf[c][k] # EventKindTick /\ Awaited(c, ch, buf[c][k]) /\ i <= ingest[buf[c][k]].row

Noted(c, ch, i) == ch \in pending[c].marks \/ (ch = "clients" /\ i <= pending[c].row)

\* The event is in what the client sees, or in something on its way there.
Coming(c, ch, i) ==
    \/ i <= view[c][ch]
    \/ InSnapshot(c, ch, i) \/ InHub(c, ch, i) \/ Noted(c, ch, i) \/ InFlush(c, ch, i)

EveryEventComing(c) ==
    Connected(c) /\ ~lost[c] =>
        \A ch \in sub[c], i \in 1..ingested : Awaited(c, ch, i) => Coming(c, ch, i)

\* Nothing reflects more than there is, and a row includes the event it came with.
IngestsInOrder ==
    \A i \in Ingests :
        /\ ingest[i].pc = "new" <=> i > ingested
        /\ ingest[i].row <= ingested
        /\ ingest[i].pc = "publish" => i <= ingest[i].row

NothingAhead(c) ==
    /\ pending[c].row <= ingested
    /\ reader[c].val <= ingested
    /\ loop[c].val <= ingested /\ loop[c].row <= ingested
    /\ \A ch \in Channels : view[c][ch] <= ingested

\* The channel of a connection is empty while its loop is not subscribed, and a
\* loop outside a flush has taken nothing.
LoopOfConnection(c) ==
    /\ reader[c].pc = "closed" => loop[c].pc = "done"
    /\ loop[c].pc \in {"start", "done"} => c \notin subs
    /\ loop[c].pc \in {"start", "select", "done"} => loop[c].work = {}
    /\ c \notin subs => buf[c] = <<>>

StreamIInv ==
    /\ StreamTypeOK
    /\ IngestsInOrder
    /\ \A c \in Conns : NothingAhead(c) /\ LoopOfConnection(c) /\ EveryEventComing(c)
=============================================================================

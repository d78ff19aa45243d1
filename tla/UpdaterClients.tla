--------------------------- MODULE UpdaterClients ---------------------------
(***************************************************************************)
(* Sightings of machines: updaterclient.Upsert and RecordEvent             *)
(* (internal/updaterclient/updaterclient.go) over the tables               *)
(* updater_clients, updater_events and updater_event_hourly.               *)
(*                                                                         *)
(* Upsert is a sequence of statements without a transaction, and the       *)
(* sightings of two requests interleave between them.  The database        *)
(* enforces uniq_hwid (NULLs are not compared) and uniq_client (hostname,  *)
(* ad_domain), where an absent hostname is the empty string and compared   *)
(* like any other.  The event and its hourly counter are one transaction.  *)
(***************************************************************************)
EXTENDS Naturals, FiniteSets

CONSTANTS
    Sightings,          \* requests that record a sighting, in flight at once
    Requests,           \* what they report: a set of [hwid, name, session]
    NoHWID, NoName,     \* header absent: NULL and ('', '') in the table
    MaxClient,          \* bound on updater_clients.id
    MaxEvent,           \* bound on updater_events.id
    MaxHour             \* bound on the clock, in hours

\* Session headers: "silent" from an updater that does not know them,
\* "nobody" when it says so (NobodyLoggedOn), "user" with the user alone, and
\* the user together with a state, a disconnection with its time.  That a state
\* never comes without a user is the updater's side of the wire contract.
Sessions == {"silent", "nobody", "user", "active", "disconnected"}

ASSUME ClientsAssumption ==
    /\ MaxClient \in Nat /\ MaxEvent \in Nat /\ MaxHour \in Nat
    /\ Requests # {}
    /\ \A q \in Requests :
        /\ DOMAIN q = {"hwid", "name", "session"}
        /\ q.hwid # NoHWID \/ q.name # NoName           \* Identified
        /\ q.session \in Sessions

ClientIds == 1..MaxClient

VARIABLES
    clients,            \* id -> row, NoClient without one
    nextClient,         \* AUTO_INCREMENT
    sighting,           \* sighting -> [pc, req, target], the local state of Upsert
    alone,              \* history: sighting -> no other has written since it began
    now,                \* the hour
    events,             \* committed rows of updater_events
    pending,            \* sighting -> its uncommitted event
    nextEvent,          \* AUTO_INCREMENT
    hourly              \* updater_event_hourly: hour -> count

clientVars == <<clients, nextClient, sighting, alone>>
eventVars == <<now, events, pending, nextEvent, hourly>>

NoClient == [hwid |-> NoHWID, name |-> NoName, user |-> FALSE, state |-> "gone", since |-> FALSE]
NoEvent == [id |-> 0, client |-> 0, hour |-> 0]
AnyRequest == CHOOSE q \in Requests : TRUE
Idle == [pc |-> "idle", req |-> AnyRequest, target |-> 0]

Live(i) == clients[i].state # "gone"

HWIDs == {q.hwid : q \in Requests} \cup {NoHWID}
Names == {q.name : q \in Requests} \cup {NoName}
ClientRow == [hwid : HWIDs, name : Names, user : BOOLEAN,
              state : {"", "active", "disconnected", "gone"}, since : BOOLEAN]
EventRow == [id : 0..MaxEvent, client : 0..MaxClient, hour : 0..MaxHour]

ClientsTypeOK ==
    /\ clients \in [ClientIds -> ClientRow]
    /\ nextClient \in 1..(MaxClient + 1)
    /\ sighting \in [Sightings ->
          [pc : {"idle", "byHWID", "byName", "squatters", "write", "event", "commit"},
           req : Requests, target : 0..MaxClient]]
    /\ alone \in [Sightings -> BOOLEAN]
    /\ now \in 0..MaxHour
    /\ events \in SUBSET EventRow
    /\ pending \in [Sightings -> EventRow]
    /\ nextEvent \in 1..(MaxEvent + 1)
    /\ hourly \in [0..MaxHour -> Nat]

ClientsInit ==
    /\ clients = [i \in ClientIds |-> NoClient]
    /\ nextClient = 1
    /\ sighting = [p \in Sightings |-> Idle]
    /\ alone = [p \in Sightings |-> TRUE]
    /\ now = 0
    /\ events = {}
    /\ pending = [p \in Sightings |-> NoEvent]
    /\ nextEvent = 1
    /\ hourly = [h \in 0..MaxHour |-> 0]

-----------------------------------------------------------------------------
(* Upsert.                                                                 *)

Req(p) == sighting[p].req
Target(p) == sighting[p].target
At(p, pc) == sighting[p].pc = pc
Moves(p, pc, target) ==
    sighting' = [sighting EXCEPT ![p] = [pc |-> pc, req |-> Req(p), target |-> target]]
Ends(p) ==
    /\ sighting' = [sighting EXCEPT ![p] = Idle]
    /\ alone' = [alone EXCEPT ![p] = TRUE]

\* A write of p, which the others did not expect.
Disturbs(p) == alone' = [q \in Sightings |-> alone[q] /\ (q = p \/ At(q, "idle"))]

Sight(p, q) ==
    /\ At(p, "idle")
    /\ sighting' = [sighting EXCEPT ![p] =
          [pc |-> IF q.hwid # NoHWID THEN "byHWID" ELSE "byName", req |-> q, target |-> 0]]
    /\ UNCHANGED <<clients, nextClient, alone, eventVars>>

ByHWID(p) == {i \in ClientIds : Live(i) /\ clients[i].hwid = Req(p).hwid}
ByName(p) == {i \in ClientIds : Live(i) /\ clients[i].name = Req(p).name}

\* SELECT id ... WHERE hwid = ?; a machine without a hostname is looked up by
\* hwid only, and nothing is deleted for it.
LookupHWID(p) ==
    /\ At(p, "byHWID")
    /\ \/ \E i \in ByHWID(p) : Moves(p, IF Req(p).name = NoName THEN "write" ELSE "squatters", i)
       \/ ByHWID(p) = {} /\ Moves(p, IF Req(p).name = NoName THEN "write" ELSE "byName", 0)
    /\ UNCHANGED <<clients, nextClient, alone, eventVars>>

\* SELECT id ... WHERE hostname = ? AND ad_domain = ?
LookupName(p) ==
    /\ At(p, "byName")
    /\ \/ \E i \in ByName(p) : Moves(p, "squatters", i)
       \/ ByName(p) = {} /\ Moves(p, "squatters", 0)
    /\ UNCHANGED <<clients, nextClient, alone, eventVars>>

\* An uncommitted event locks the row of its client (the foreign key).
Locked(i) == \E q \in Sightings : pending[q].client = i

\* The other rows that hold the name.
Squatters(p) == ByName(p) \ {Target(p)}

\* Faulty variant: nobody is deleted.
FaultyDeleteSquatters(p) ==
    /\ At(p, "squatters")
    /\ Moves(p, "write", Target(p))
    /\ UNCHANGED <<clients, nextClient, alone, eventVars>>

\* DELETE ... WHERE hostname = ? AND ad_domain = ? AND id != ?, with the events
\* of the deleted rows (ON DELETE CASCADE).
DeleteSquatters(p) ==
    /\ At(p, "squatters")
    /\ \A i \in Squatters(p) : ~Locked(i)
    /\ clients' = [i \in ClientIds |-> IF i \in Squatters(p) THEN NoClient ELSE clients[i]]
    /\ events' = {e \in events : e.client \notin Squatters(p)}
    /\ IF Squatters(p) = {} THEN UNCHANGED alone ELSE Disturbs(p)
    /\ Moves(p, "write", Target(p))
    /\ UNCHANGED <<nextClient, now, pending, nextEvent, hourly>>

\* logged_user_disconnected_at follows the state that is reported.
Since(old, session) ==
    IF session \in {"nobody", "active", "disconnected"} THEN session = "disconnected" ELSE old.since

\* What the UPDATE (or the INSERT, over NoClient) makes of a row.
Written(old, q) ==
    [hwid |-> IF q.hwid = NoHWID THEN old.hwid ELSE q.hwid,
     name |-> q.name,
     user |-> IF q.session = "nobody" THEN FALSE ELSE q.session # "silent" \/ old.user,
     state |-> IF q.session = "nobody" THEN ""
               ELSE IF q.session \in {"active", "disconnected"} THEN q.session
               ELSE IF old.state = "gone" THEN "" ELSE old.state,
     since |-> Since(old, q.session)]

\* uniq_hwid or uniq_client refuses the row r under the id i.
Collides(i, r) ==
    \E j \in ClientIds \ {i} :
        /\ Live(j)
        /\ clients[j].name = r.name \/ (r.hwid # NoHWID /\ clients[j].hwid = r.hwid)

\* The row the sighting is about to write, and where.
RowId(p) == IF Target(p) = 0 THEN nextClient ELSE Target(p)
NewRow(p) == Written(IF Target(p) = 0 THEN NoClient ELSE clients[Target(p)], Req(p))

\* A duplicate key fails the statement and ends the sighting.
Refused(p) == (Target(p) # 0 => Live(Target(p))) /\ Collides(RowId(p), NewRow(p))

\* UPDATE ... WHERE id = ?.  That no row is left to update goes unnoticed.
UpdateClient(p) ==
    /\ At(p, "write") /\ Target(p) # 0
    /\ ~Locked(Target(p))
    /\ ~Refused(p)
    /\ IF Live(Target(p))
       THEN clients' = [clients EXCEPT ![Target(p)] = NewRow(p)] /\ Disturbs(p)
       ELSE UNCHANGED <<clients, alone>>
    /\ Moves(p, "event", Target(p))
    /\ UNCHANGED <<nextClient, eventVars>>

InsertClient(p) ==
    /\ At(p, "write") /\ Target(p) = 0
    /\ nextClient <= MaxClient
    /\ ~Refused(p)
    /\ clients' = [clients EXCEPT ![nextClient] = NewRow(p)]
    /\ nextClient' = nextClient + 1
    /\ Disturbs(p)
    /\ Moves(p, "event", nextClient)
    /\ UNCHANGED eventVars

-----------------------------------------------------------------------------
(* RecordEvent after Upsert: insertEvent.                                  *)

\* INSERT INTO updater_events: it has an id and a created_at, and is invisible
\* until the commit.  Without its client the foreign key refuses it.
InsertEvent(p) ==
    /\ At(p, "event")
    /\ nextEvent <= MaxEvent
    /\ IF Live(Target(p))
       THEN /\ pending' = [pending EXCEPT ![p] = [id |-> nextEvent, client |-> Target(p), hour |-> now]]
            /\ nextEvent' = nextEvent + 1
            /\ Moves(p, "commit", Target(p)) /\ UNCHANGED alone
       ELSE Ends(p) /\ UNCHANGED <<pending, nextEvent>>
    /\ UNCHANGED <<clients, nextClient, now, events, hourly>>

\* Faulty variant: the bucket is the hour of the second statement.
FaultyBucket(p) == now

\* The bucket is derived from the inserted row's own created_at.
Bucket(p) == pending[p].hour

\* The counter's INSERT ... ON DUPLICATE KEY UPDATE, and the commit.
CommitEvent(p) ==
    /\ At(p, "commit")
    /\ events' = events \cup {pending[p]}
    /\ hourly' = [hourly EXCEPT ![Bucket(p)] = @ + 1]
    /\ pending' = [pending EXCEPT ![p] = NoEvent]
    /\ Ends(p)
    /\ UNCHANGED <<clients, nextClient, now, nextEvent>>

\* A statement fails (a duplicate key too) or the client goes away; an open transaction is rolled
\* back.  Sightings of ClientWS and trackConfigFetch end here without an event.
SightingEnds(p) ==
    /\ ~At(p, "idle")
    /\ Ends(p)
    /\ pending' = [pending EXCEPT ![p] = NoEvent]
    /\ UNCHANGED <<clients, nextClient, now, events, nextEvent, hourly>>

Tick ==
    /\ now < MaxHour
    /\ now' = now + 1
    /\ UNCHANGED <<clientVars, events, pending, nextEvent, hourly>>

SightingNext ==
    \/ \E p \in Sightings :
        \/ \E q \in Requests : Sight(p, q)
        \/ LookupHWID(p) \/ LookupName(p) \/ DeleteSquatters(p)
        \/ UpdateClient(p) \/ InsertClient(p)
        \/ InsertEvent(p) \/ CommitEvent(p) \/ SightingEnds(p)
    \/ Tick

-----------------------------------------------------------------------------
(* Properties.                                                             *)

\* The logged-user columns tell of one session: no "active, disconnected since
\* yesterday", and no state of a user who is not named.
OneSession(r) ==
    /\ r.since => r.state = "disconnected"
    /\ r.state \in {"active", "disconnected"} => r.user

\* A machine that reports a hostname, and whose sighting no other one writes
\* into, is stored: no unique key refuses it, and afterwards exactly the row
\* that is returned carries its hwid and its name, whatever rows the table held
\* before (a rotated hwid, a reused hostname, a legacy row).  Its logged-user
\* columns tell of one session, over any sequence of reports that leave some of
\* the headers out.
UndisturbedSightingStored ==
    \A p \in Sightings :
        Req(p).name # NoName /\ alone[p] =>
            /\ At(p, "write") => ~Refused(p)
            /\ At(p, "event") =>
                /\ Live(Target(p)) /\ clients[Target(p)].name = Req(p).name
                /\ Req(p).hwid # NoHWID => clients[Target(p)].hwid = Req(p).hwid
                /\ OneSession(clients[Target(p)])

\* The rollup counts every raw event under the hour a GROUP BY over the raw
\* rows would put it in, whatever boundary the transaction straddles: neither
\* pruning nor deleted clients ever make it smaller than what is on disk.
RollupCoversEvents ==
    \A h \in 0..MaxHour : Cardinality({e \in events : e.hour = h}) <= hourly[h]

-----------------------------------------------------------------------------
(* The inductive invariant of the two (TelemetryProofs).                   *)

\* uniq_hwid and uniq_client hold, and ids that were not given out have no row.
UniqueKeys ==
    /\ \A i, j \in ClientIds : Live(i) /\ Live(j) /\ i # j =>
          /\ clients[i].name # clients[j].name
          /\ clients[i].hwid = clients[j].hwid => clients[i].hwid = NoHWID
    /\ \A i \in ClientIds : i >= nextClient => ~Live(i)

\* What a lookup has found out still holds: the target is there, and no other
\* row has the hwid.
Found(p) ==
    /\ Target(p) # 0 => Live(Target(p))
    /\ Req(p).hwid # NoHWID => ByHWID(p) \subseteq {Target(p)}

\* What a sighting knows between its statements as long as nobody writes into it.
Knows(p) ==
    /\ At(p, "byName") /\ Req(p).hwid # NoHWID => ByHWID(p) = {}
    /\ At(p, "squatters") \/ At(p, "write") => Found(p)
    /\ At(p, "write") => ByName(p) \subseteq {Target(p)}
    /\ At(p, "event") =>
          /\ Target(p) # 0
          /\ Live(Target(p)) /\ clients[Target(p)].name = Req(p).name
          /\ Req(p).hwid # NoHWID => clients[Target(p)].hwid = Req(p).hwid

UndisturbedKnows == \A p \in Sightings : Req(p).name # NoName /\ alone[p] => Knows(p)

\* A transaction that is open has an event, whose id was given out.
EventIds ==
    /\ \A p \in Sightings : At(p, "commit") => pending[p].id \in 1..(nextEvent - 1)
    /\ \A e \in events : e.id < nextEvent
    /\ IsFiniteSet(events)

\* What the rows tell of sessions, whoever wrote them.
OneSessionEach == \A i \in ClientIds : OneSession(clients[i])

\* A row is written where the lookup found one or at the next id.
HasTarget == \A p \in Sightings : At(p, "event") => Target(p) # 0
=============================================================================

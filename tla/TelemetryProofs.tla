-------------------------- MODULE TelemetryProofs ---------------------------
(***************************************************************************)
(* The tables of machines and events, for every number of sightings in     *)
(* flight, every set of reports, every retention and every batch size.     *)
(***************************************************************************)
EXTENDS EventPrune, FiniteSetTheorems, TLAPS

PCs == {"idle", "byHWID", "byName", "squatters", "write", "event", "commit"}
Local == [pc : PCs, req : Requests, target : 0..MaxClient]

-----------------------------------------------------------------------------
(* Types.                                                                  *)

LEMMA LeastNat ==
    ASSUME NEW S \in SUBSET Nat, S # {}
    PROVE  \E i \in S : \A j \in S : i <= j
<1>1. PICK i \in S : \A j \in S : ~(<<j, i>> \in OpToRel(<, Nat))
    BY WFMin, NatLessThanWellFounded, Zenon
<1>2. \A j \in S : ~(j < i)
    BY <1>1, Zenon DEF OpToRel
<1>3. QED
    BY <1>2

LEMMA GreatestNat ==
    ASSUME NEW n \in Nat, NEW S \in SUBSET (0..n), S # {}
    PROVE  \E i \in S : \A j \in S : i >= j
<1> DEFINE D == {n - i : i \in S}
<1>1. D \in SUBSET Nat /\ D # {}
    <2>1. ASSUME NEW i \in S PROVE n - i \in Nat
        OBVIOUS
    <2>2. QED
        BY <2>1
<1>2. PICK d \in D : \A e \in D : d <= e
    <2> HIDE DEF D
    <2>1. QED
        BY <1>1, LeastNat
<1>3. PICK i \in S : d = n - i
    BY <1>2
<1>4. ASSUME NEW j \in S PROVE i >= j
    <2>1. n - j \in D
        OBVIOUS
    <2>2. n - i <= n - j
        BY <1>2, <1>3, <2>1
    <2>3. QED
        BY <2>2
<1>5. QED
    BY <1>4

\* The state of one sighting.
LEMMA SightingTypes ==
    ASSUME TypeOK, NEW p \in Sightings
    PROVE  /\ sighting[p] \in Local /\ sighting[p].pc \in PCs
           /\ Req(p) \in Requests /\ Target(p) \in 0..MaxClient
           /\ alone[p] \in BOOLEAN /\ pending[p] \in EventRow
BY DEF TypeOK, ClientsTypeOK, Local, PCs, Req, Target

LEMMA RowTypes ==
    ASSUME NEW old \in ClientRow, NEW q \in Requests
    PROVE  /\ Written(old, q) \in ClientRow
           /\ Written(old, q).state # "gone"
           /\ Written(old, q).name = q.name
           /\ q.hwid # NoHWID => Written(old, q).hwid = q.hwid
           /\ q.hwid = NoHWID => Written(old, q).hwid = old.hwid
<1>1. q.hwid \in HWIDs /\ q.name \in Names /\ q.session \in Sessions
    BY ClientsAssumption DEF HWIDs, Names
<1>2. Since(old, q.session) \in BOOLEAN
    BY DEF Since, ClientRow
<1> DEFINE user == IF q.session = "nobody" THEN FALSE ELSE q.session # "silent" \/ old.user
           state == IF q.session = "nobody" THEN ""
                    ELSE IF q.session \in {"active", "disconnected"} THEN q.session
                    ELSE IF old.state = "gone" THEN "" ELSE old.state
           hwid == IF q.hwid = NoHWID THEN old.hwid ELSE q.hwid
<1>3. user \in BOOLEAN
    OBVIOUS
<1>4. state \in {"", "active", "disconnected"}
    BY DEF ClientRow
<1>5. hwid \in HWIDs
    BY <1>1 DEF ClientRow
<1>6. Written(old, q) = [hwid |-> hwid, name |-> q.name, user |-> user, state |-> state,
                         since |-> Since(old, q.session)]
    BY DEF Written
<1>7. hwid = q.hwid \/ (q.hwid = NoHWID /\ hwid = old.hwid)
    OBVIOUS
<1>8. q.hwid = NoHWID => hwid = old.hwid
    OBVIOUS
<1> HIDE DEF user, state, hwid
<1>9. Written(old, q) \in ClientRow
    <2>1. state \in {"", "active", "disconnected", "gone"}
        BY <1>4
    <2> DEFINE since == Since(old, q.session)
    <2>2. since \in BOOLEAN
        BY <1>2
    <2> HIDE DEF since
    <2>3. [hwid |-> hwid, name |-> q.name, user |-> user, state |-> state, since |-> since]
          \in ClientRow
        BY <1>1, <1>3, <1>5, <2>1, <2>2, Zenon DEF ClientRow
    <2>4. QED
        BY <1>6, <2>3 DEF since
<1>10. Written(old, q).state = state /\ Written(old, q).name = q.name /\ Written(old, q).hwid = hwid
    BY <1>6
<1>11. QED
    BY <1>4, <1>7, <1>8, <1>9, <1>10

LEMMA NoRowTypes == NoClient \in ClientRow /\ NoEvent \in EventRow /\ Idle \in Local
<1>1. AnyRequest \in Requests
    BY ClientsAssumption DEF AnyRequest
<1>2. QED
    BY <1>1, ClientsAssumption DEF NoClient, ClientRow, HWIDs, Names, NoEvent, EventRow, Idle, Local, PCs

\* A sighting that goes on, and one that ends.
LEMMA MovesTypes ==
    ASSUME TypeOK, NEW p \in Sightings, NEW pc \in PCs, NEW t \in 0..MaxClient, Moves(p, pc, t)
    PROVE  /\ sighting' \in [Sightings -> Local]
           /\ sighting'[p] = [pc |-> pc, req |-> Req(p), target |-> t]
           /\ sighting'[p].pc = pc /\ Req(p)' = Req(p) /\ Target(p)' = t
           /\ \A q \in Sightings \ {p} : sighting'[q] = sighting[q]
<1>1. sighting \in [Sightings -> Local]
    BY DEF TypeOK, ClientsTypeOK, Local, PCs
<1>2. [pc |-> pc, req |-> Req(p), target |-> t] \in Local
    BY SightingTypes DEF Local
<1>3. QED
    BY <1>1, <1>2 DEF Moves, Req, Target

LEMMA EndsTypes ==
    ASSUME TypeOK, NEW p \in Sightings, Ends(p)
    PROVE  /\ sighting' \in [Sightings -> Local] /\ alone' \in [Sightings -> BOOLEAN]
           /\ sighting'[p].pc = "idle"
           /\ \A q \in Sightings \ {p} : sighting'[q] = sighting[q] /\ alone'[q] = alone[q]
<1>1. sighting \in [Sightings -> Local] /\ alone \in [Sightings -> BOOLEAN]
    BY DEF TypeOK, ClientsTypeOK, Local, PCs
<1>2. QED
    BY <1>1, NoRowTypes DEF Ends, Idle

LEMMA DisturbsTypes ==
    ASSUME TypeOK, NEW p \in Sightings, Disturbs(p)
    PROVE  /\ alone' \in [Sightings -> BOOLEAN]
           /\ alone'[p] => alone[p]
           /\ \A q \in Sightings \ {p} : alone'[q] => At(q, "idle")
<1>1. alone' = [q \in Sightings |-> alone[q] /\ (q = p \/ At(q, "idle"))]
    BY DEF Disturbs
<1>2. alone' \in [Sightings -> BOOLEAN]
    BY <1>1, Zenon
<1>3. QED
    BY <1>1, <1>2

-----------------------------------------------------------------------------
(* The invariant, the part on machines and the part on events.             *)

ClientsInv == UniqueKeys /\ HasTarget /\ UndisturbedKnows
EventsInv == EventIds /\ BoundaryHolds /\ RollupCoversEvents

\* A sighting that nobody writes into keeps what it knows.
LEMMA KnowsKept ==
    ASSUME NEW q \in Sightings, Knows(q), UNCHANGED clients, sighting'[q] = sighting[q]
    PROVE  Knows(q)'
<1>1. /\ Req(q)' = Req(q) /\ Target(q)' = Target(q)
      /\ ByHWID(q)' = ByHWID(q) /\ ByName(q)' = ByName(q)
      /\ \A i : Live(i)' = Live(i)
    BY DEF Req, Target, ByHWID, ByName, Live
<1>2. \A pc : At(q, pc)' = At(q, pc)
    BY DEF At
<1>3. Found(q) => Found(q)'
    BY <1>1 DEF Found
<1>4. QED
    BY <1>1, <1>2, <1>3 DEF Knows

\* A step of p: what is left to show is what p knows.
LEMMA OthersKnow ==
    ASSUME UndisturbedKnows, NEW p \in Sightings,
           \A q \in Sightings \ {p} :
               /\ sighting'[q] = sighting[q]
               /\ \/ UNCHANGED clients /\ alone'[q] = alone[q]
                  \/ alone'[q] => At(q, "idle"),
           Req(p)'.name # NoName /\ alone'[p] => Knows(p)'
    PROVE  UndisturbedKnows'
<1>1. ASSUME NEW q \in Sightings \ {p}, Req(q)'.name # NoName, alone'[q]
      PROVE  Knows(q)'
    <2>1. Req(q)' = Req(q)
        BY DEF Req
    <2>2. CASE At(q, "idle")
        BY <2>2 DEF At, Knows
    <2>3. CASE UNCHANGED clients /\ alone'[q] = alone[q]
        <3>1. Knows(q)
            BY <1>1, <2>1, <2>3 DEF UndisturbedKnows
        <3>2. QED
            BY <2>3, <3>1, KnowsKept
    <2>4. QED
        BY <1>1, <2>2, <2>3
<1>2. QED
    BY <1>1 DEF UndisturbedKnows

\* A step that leaves the table of machines alone.
LEMMA KeysKept ==
    ASSUME UniqueKeys, UNCHANGED <<clients, nextClient>>
    PROVE  UniqueKeys'
BY DEF UniqueKeys, Live

LEMMA ClientsKept ==
    ASSUME ClientsInv, UNCHANGED clientVars
    PROVE  ClientsInv'
<1>1. UniqueKeys'
    BY KeysKept DEF ClientsInv, clientVars
<1>2. HasTarget'
    BY DEF ClientsInv, clientVars, HasTarget, At, Target
<1>3. UndisturbedKnows'
    <2>1. ASSUME NEW q \in Sightings, Req(q)'.name # NoName, alone'[q] PROVE Knows(q)'
        <3>1. Knows(q)
            BY <2>1 DEF ClientsInv, clientVars, UndisturbedKnows, Req
        <3>2. QED
            BY <3>1, KnowsKept DEF clientVars
    <2>2. QED
        BY <2>1 DEF UndisturbedKnows
<1>4. QED
    BY <1>1, <1>2, <1>3 DEF ClientsInv

\* A step that leaves the events alone and begins no transaction.
LEMMA EventsKept ==
    ASSUME EventsInv, UNCHANGED <<eventVars, pruneVars>>,
           \A q \in Sightings : At(q, "commit")' => At(q, "commit")
    PROVE  EventsInv'
<1>1. EventIds'
    BY DEF EventsInv, EventIds, eventVars
<1>2. BoundaryHolds'
    BY DEF EventsInv, BoundaryHolds, InWindow, eventVars, pruneVars
<1>3. RollupCoversEvents'
    BY DEF EventsInv, RollupCoversEvents, eventVars
<1>4. QED
    BY <1>1, <1>2, <1>3 DEF EventsInv

\* The rollup covers fewer events, too, and so do the other parts.
LEMMA RollupFewer ==
    ASSUME TypeOK, EventsInv, events' \subseteq events, UNCHANGED hourly
    PROVE  RollupCoversEvents'
<1>1. ASSUME NEW h \in 0..MaxHour
      PROVE  Cardinality({e \in events' : e.hour = h}) <= hourly[h]
    <2> DEFINE S == {e \in events : e.hour = h}
               T == {e \in events' : e.hour = h}
    <2>1. IsFiniteSet(S) /\ T \in SUBSET S
        BY FS_Subset DEF EventsInv, EventIds
    <2>2. Cardinality(S) <= hourly[h] /\ hourly[h] \in Nat
        BY DEF EventsInv, RollupCoversEvents, TypeOK, ClientsTypeOK
    <2> HIDE DEF S, T
    <2>3. Cardinality(T) <= Cardinality(S) /\ Cardinality(S) \in Nat /\ Cardinality(T) \in Nat
        BY <2>1, FS_Subset, FS_CardinalityType
    <2>4. Cardinality(T) <= hourly[h]
        BY <2>2, <2>3
    <2>5. QED
        BY <2>4 DEF T
<1>2. QED
    BY <1>1 DEF RollupCoversEvents

LEMMA EventsFewer ==
    ASSUME TypeOK, EventsInv, events' \subseteq events,
           UNCHANGED <<now, pending, nextEvent, hourly, pruneVars>>,
           \A q \in Sightings : At(q, "commit")' => At(q, "commit")
    PROVE  EventsInv'
<1>1. IsFiniteSet(events')
    BY FS_Subset DEF EventsInv, EventIds
<1>2. EventIds'
    BY <1>1 DEF EventsInv, EventIds
<1>3. BoundaryHolds'
    BY DEF EventsInv, BoundaryHolds, InWindow, pruneVars
<1>4. RollupCoversEvents'
    BY RollupFewer
<1>5. QED
    BY <1>2, <1>3, <1>4 DEF EventsInv

\* A step that changes nothing but the state of the sightings.
LEMMA TypeOfSightings ==
    ASSUME TypeOK, sighting' \in [Sightings -> Local], alone' \in [Sightings -> BOOLEAN],
           UNCHANGED <<clients, nextClient, eventVars, pruneVars>>
    PROVE  TypeOK'
BY DEF TypeOK, ClientsTypeOK, Local, PCs, eventVars, pruneVars

-----------------------------------------------------------------------------
(* The statements that read.                                               *)

LEMMA SightSteps ==
    ASSUME IInv, NEW p \in Sightings, NEW q \in Requests, Sight(p, q), UNCHANGED pruneVars
    PROVE  IInv'
<1> DEFINE pc == IF q.hwid # NoHWID THEN "byHWID" ELSE "byName"
<1>1. TypeOK /\ ClientsInv /\ EventsInv
    BY DEF IInv, ClientsInv, EventsInv
<1>2. /\ sighting' = [sighting EXCEPT ![p] = [pc |-> pc, req |-> q, target |-> 0]]
      /\ UNCHANGED <<clients, nextClient, alone, eventVars, pruneVars>>
    BY DEF Sight, pruneVars
<1>3. /\ pc \in {"byHWID", "byName"}
      /\ pc = "byName" => q.hwid = NoHWID
    OBVIOUS
<1> HIDE DEF pc
<1>4. sighting \in [Sightings -> Local] /\ alone \in [Sightings -> BOOLEAN]
    BY <1>1 DEF TypeOK, ClientsTypeOK, Local, PCs
<1>5. [pc |-> pc, req |-> q, target |-> 0] \in Local
    BY <1>3, ClientsAssumption DEF Local, PCs
<1>6. /\ sighting' \in [Sightings -> Local]
      /\ sighting'[p].pc = pc /\ Req(p)' = q
      /\ \A r \in Sightings \ {p} : sighting'[r] = sighting[r]
    BY <1>2, <1>4, <1>5 DEF Req
<1>7. TypeOK'
    BY <1>1, <1>2, <1>4, <1>6, TypeOfSightings
<1>8. ClientsInv'
    <2>1. UniqueKeys'
        BY <1>1, <1>2, KeysKept DEF ClientsInv
    <2>2. HasTarget'
        BY <1>1, <1>3, <1>6 DEF ClientsInv, HasTarget, At, Target
    <2>3. Knows(p)'
        BY <1>3, <1>6 DEF Knows, At
    <2>4. UndisturbedKnows'
        <3>1. UndisturbedKnows /\ UNCHANGED clients /\ UNCHANGED alone
            BY <1>1, <1>2 DEF ClientsInv
        <3>2. QED
            BY <1>6, <2>3, <3>1, OthersKnow
    <2>5. QED
        BY <2>1, <2>2, <2>4 DEF ClientsInv
<1>9. EventsInv'
    <2>1. \A r \in Sightings : At(r, "commit")' => At(r, "commit")
        BY <1>3, <1>6 DEF At
    <2>2. QED
        BY <1>1, <1>2, <2>1, EventsKept
<1>10. QED
    BY <1>7, <1>8, <1>9 DEF IInv, ClientsInv, EventsInv

\* A statement of p that writes nothing, and that leaves p with what it knows.
LEMMA ReadSteps ==
    ASSUME IInv, NEW p \in Sightings,
           NEW pc \in {"byName", "squatters", "write"}, NEW t \in 0..MaxClient, Moves(p, pc, t),
           UNCHANGED <<clients, nextClient, alone, eventVars, pruneVars>>,
           Req(p).name # NoName /\ alone[p] => Knows(p)'
    PROVE  IInv'
<1>1. TypeOK /\ ClientsInv /\ EventsInv
    BY DEF IInv, ClientsInv, EventsInv
<1>2. /\ sighting' \in [Sightings -> Local]
      /\ sighting'[p].pc = pc /\ Req(p)' = Req(p)
      /\ \A q \in Sightings \ {p} : sighting'[q] = sighting[q]
    <2>1. pc \in PCs
        BY DEF PCs
    <2>2. QED
        BY <1>1, <2>1, MovesTypes
<1>3. alone \in [Sightings -> BOOLEAN]
    BY <1>1 DEF TypeOK, ClientsTypeOK
<1>4. TypeOK'
    BY <1>1, <1>2, <1>3, TypeOfSightings
<1>5. ClientsInv'
    <2>1. UniqueKeys'
        BY <1>1, KeysKept DEF ClientsInv
    <2>2. HasTarget'
        BY <1>1, <1>2 DEF ClientsInv, HasTarget, At, Target
    <2>3. UndisturbedKnows'
        <3>1. UndisturbedKnows /\ UNCHANGED clients /\ UNCHANGED alone
            BY <1>1 DEF ClientsInv
        <3>2. QED
            BY <1>2, <3>1, OthersKnow
    <2>4. QED
        BY <2>1, <2>2, <2>3 DEF ClientsInv
<1>6. EventsInv'
    <2>1. \A r \in Sightings : At(r, "commit")' => At(r, "commit")
        BY <1>2 DEF At
    <2>2. QED
        BY <1>1, <2>1, EventsKept
<1>7. QED
    BY <1>4, <1>5, <1>6 DEF IInv, ClientsInv, EventsInv

\* The lookup by hwid finds the row of the machine, the only one by uniq_hwid.
LEMMA LookupHWIDSteps ==
    ASSUME IInv, NEW p \in Sightings, LookupHWID(p), UNCHANGED pruneVars
    PROVE  IInv'
<1> DEFINE named == Req(p).name # NoName
<1>1. TypeOK /\ UniqueKeys /\ 0 \in 0..MaxClient
    BY ClientsAssumption DEF IInv
<1>2. UNCHANGED <<clients, nextClient, alone, eventVars, pruneVars>>
    BY DEF LookupHWID, pruneVars
<1>3. ASSUME NEW i \in ByHWID(p),
             Moves(p, IF Req(p).name = NoName THEN "write" ELSE "squatters", i)
      PROVE  IInv'
    <2> DEFINE pc == IF Req(p).name = NoName THEN "write" ELSE "squatters"
    <2>1. i \in ClientIds /\ i \in 0..MaxClient /\ Live(i) /\ clients[i].hwid = Req(p).hwid
        BY ClientsAssumption DEF ByHWID, ClientIds
    <2>2. pc \in {"byName", "squatters", "write"} /\ pc \in PCs /\ Moves(p, pc, i)
          /\ (named => pc = "squatters")
        BY <1>3 DEF PCs
    <2> HIDE DEF pc
    <2>3. sighting'[p].pc = pc /\ Req(p)' = Req(p) /\ Target(p)' = i
        BY <1>1, <2>1, <2>2, MovesTypes
    <2>4. Req(p).hwid # NoHWID => ByHWID(p) \subseteq {i}
        BY <1>1, <2>1 DEF UniqueKeys, ByHWID
    <2>5. Found(p)'
        BY <1>2, <2>1, <2>3, <2>4 DEF Found, ByHWID, Live
    <2>6. named => Knows(p)'
        BY <2>2, <2>3, <2>5 DEF Knows, At
    <2>7. QED
        BY <1>2, <2>1, <2>2, <2>6, ReadSteps
<1>4. ASSUME ByHWID(p) = {}, Moves(p, IF Req(p).name = NoName THEN "write" ELSE "byName", 0)
      PROVE  IInv'
    <2> DEFINE pc == IF Req(p).name = NoName THEN "write" ELSE "byName"
    <2>1. pc \in {"byName", "squatters", "write"} /\ pc \in PCs /\ Moves(p, pc, 0)
          /\ (named => pc = "byName")
        BY <1>4 DEF PCs
    <2> HIDE DEF pc
    <2>2. sighting'[p].pc = pc /\ Req(p)' = Req(p)
        BY <1>1, <2>1, MovesTypes
    <2>3. ByHWID(p)' = {}
        BY <1>2, <1>4, <2>2 DEF ByHWID, Live
    <2>4. named => Knows(p)'
        BY <2>1, <2>2, <2>3 DEF Knows, At
    <2>5. QED
        BY <1>1, <1>2, <2>1, <2>4, ReadSteps
<1>5. QED
    BY <1>3, <1>4 DEF LookupHWID

LEMMA LookupNameSteps ==
    ASSUME IInv, NEW p \in Sightings, LookupName(p), UNCHANGED pruneVars
    PROVE  IInv'
<1>1. TypeOK /\ UndisturbedKnows /\ 0 \in 0..MaxClient /\ At(p, "byName")
    BY ClientsAssumption DEF IInv, LookupName
<1>2. UNCHANGED <<clients, nextClient, alone, eventVars, pruneVars>>
    BY DEF LookupName, pruneVars
<1>3. ASSUME NEW i \in 0..MaxClient, i # 0 => Live(i), Moves(p, "squatters", i)
      PROVE  IInv'
    <2>1. "squatters" \in PCs /\ "squatters" \in {"byName", "squatters", "write"}
        BY DEF PCs
    <2>2. sighting'[p].pc = "squatters" /\ Req(p)' = Req(p) /\ Target(p)' = i
        BY <1>1, <1>3, <2>1, MovesTypes
    <2>3. ASSUME Req(p).name # NoName, alone[p]
          PROVE  Knows(p)'
        <3>1. Req(p).hwid # NoHWID => ByHWID(p) = {}
            BY <1>1, <2>3 DEF UndisturbedKnows, Knows
        <3>2. Found(p)'
            BY <1>2, <1>3, <2>2, <3>1 DEF Found, ByHWID, Live
        <3>3. QED
            BY <2>2, <3>2 DEF Knows, At
    <2>4. QED
        BY <1>2, <1>3, <2>1, <2>3, ReadSteps
<1>4. ASSUME NEW i \in ByName(p), Moves(p, "squatters", i)
      PROVE  IInv'
    <2>1. i \in 0..MaxClient /\ Live(i)
        BY ClientsAssumption DEF ByName, ClientIds
    <2>2. QED
        BY <1>3, <1>4, <2>1
<1>5. QED
    BY <1>1, <1>3, <1>4 DEF LookupName

-----------------------------------------------------------------------------
(* The statements that write machines.                                     *)

\* Afterwards nobody else holds the name, and the target and the hwid are as
\* they were found.
LEMMA DeleteSquattersSteps ==
    ASSUME IInv, NEW p \in Sightings, DeleteSquatters(p), UNCHANGED pruneVars
    PROVE  IInv'
<1> DEFINE gone == Squatters(p)
<1>1. TypeOK /\ ClientsInv /\ EventsInv /\ UniqueKeys /\ UndisturbedKnows
    BY DEF IInv, ClientsInv, EventsInv
<1>2. /\ clients' = [i \in ClientIds |-> IF i \in gone THEN NoClient ELSE clients[i]]
      /\ events' = {e \in events : e.client \notin gone}
      /\ At(p, "squatters")
      /\ Moves(p, "write", Target(p))
      /\ UNCHANGED <<nextClient, now, pending, nextEvent, hourly, pruneVars>>
    BY DEF DeleteSquatters, pruneVars
<1>3. IF gone = {} THEN UNCHANGED alone ELSE Disturbs(p)
    BY DEF DeleteSquatters
<1>4. clients \in [ClientIds -> ClientRow] /\ Target(p) \in 0..MaxClient
      /\ gone = ByName(p) \ {Target(p)}
    BY <1>1, SightingTypes DEF TypeOK, ClientsTypeOK, Squatters
<1> HIDE DEF gone
<1>5. /\ sighting' \in [Sightings -> Local]
      /\ sighting'[p].pc = "write" /\ Req(p)' = Req(p) /\ Target(p)' = Target(p)
      /\ \A q \in Sightings \ {p} : sighting'[q] = sighting[q]
    <2>1. "write" \in PCs
        BY DEF PCs
    <2>2. QED
        BY <1>1, <1>2, <1>4, <2>1, MovesTypes
<1>6. /\ alone' \in [Sightings -> BOOLEAN]
      /\ alone'[p] => alone[p]
      /\ \A q \in Sightings \ {p} : \/ UNCHANGED clients /\ alone'[q] = alone[q]
                                    \/ alone'[q] => At(q, "idle")
    <2>1. CASE gone = {}
        <3>1. alone' = alone /\ alone \in [Sightings -> BOOLEAN]
            BY <1>1, <1>3, <2>1 DEF TypeOK, ClientsTypeOK
        <3>2. clients' = clients
            BY <1>2, <1>4, <2>1
        <3>3. QED
            BY <3>1, <3>2
    <2>2. CASE gone # {}
        BY <1>1, <1>3, <2>2, DisturbsTypes
    <2>3. QED
        BY <2>1, <2>2
<1>7. ASSUME NEW i \in ClientIds, Live(i)'
      PROVE  i \notin gone /\ clients'[i] = clients[i] /\ Live(i)
    BY <1>2, <1>7 DEF Live, NoClient
<1>8. TypeOK'
    <2>1. clients' \in [ClientIds -> ClientRow]
        BY <1>2, <1>4, NoRowTypes
    <2>2. events' \in SUBSET EventRow
        BY <1>1, <1>2 DEF TypeOK, ClientsTypeOK
    <2>3. QED
        BY <1>1, <1>2, <1>5, <1>6, <2>1, <2>2 DEF TypeOK, ClientsTypeOK, Local, PCs, pruneVars
<1>9. ClientsInv'
    <2>1. UniqueKeys'
        BY <1>1, <1>2, <1>7 DEF UniqueKeys
    <2>2. HasTarget'
        BY <1>1, <1>5 DEF ClientsInv, HasTarget, At, Target
    <2>3. ASSUME Req(p)'.name # NoName, alone'[p]
          PROVE  Knows(p)'
        <3>1. Found(p)
            BY <1>1, <1>2, <1>5, <1>6, <2>3 DEF UndisturbedKnows, Knows
        <3>2. ByName(p)' \subseteq {Target(p)}
            BY <1>4, <1>5, <1>7 DEF ByName
        <3>3. ByHWID(p)' \subseteq ByHWID(p)
            BY <1>5, <1>7 DEF ByHWID
        <3>4. Target(p) # 0 => Live(Target(p))'
            <4>1. Target(p) # 0 => Target(p) \in ClientIds /\ Target(p) \notin gone
                BY <1>4 DEF ClientIds
            <4>2. QED
                BY <1>2, <1>5, <3>1, <4>1 DEF Found, Live
        <3>5. Found(p)'
            BY <1>5, <3>1, <3>3, <3>4 DEF Found
        <3>6. QED
            BY <1>5, <3>2, <3>5 DEF Knows, At
    <2>4. UndisturbedKnows'
        BY <1>1, <1>5, <1>6, <2>3, OthersKnow
    <2>5. QED
        BY <2>1, <2>2, <2>4 DEF ClientsInv
<1>10. EventsInv'
    <2>1. \A r \in Sightings : At(r, "commit")' => At(r, "commit")
        BY <1>5 DEF At
    <2>2. events' \subseteq events
        BY <1>2
    <2>3. QED
        BY <1>1, <1>2, <2>1, <2>2, EventsFewer
<1>11. QED
    BY <1>8, <1>9, <1>10 DEF IInv, ClientsInv, EventsInv

\* The row r of the sighting p is written under the id i.
LEMMA WriteSteps ==
    ASSUME IInv, NEW p \in Sightings, NEW i \in ClientIds, NEW r \in ClientRow,
           r.state # "gone", r.name = Req(p).name, Req(p).hwid # NoHWID => r.hwid = Req(p).hwid,
           ~Collides(i, r), i < nextClient',
           nextClient' \in 1..(MaxClient + 1), nextClient <= nextClient',
           clients' = [clients EXCEPT ![i] = r],
           Disturbs(p), Moves(p, "event", i), UNCHANGED <<eventVars, pruneVars>>
    PROVE  IInv'
<1>1. TypeOK /\ ClientsInv /\ EventsInv /\ UniqueKeys /\ UndisturbedKnows
    BY DEF IInv, ClientsInv, EventsInv
<1>2. i \in 0..MaxClient /\ i # 0 /\ i \in Nat /\ nextClient \in Nat /\ nextClient' \in Nat
    BY <1>1, ClientsAssumption DEF ClientIds, TypeOK, ClientsTypeOK
<1>3. clients \in [ClientIds -> ClientRow] /\ clients' \in [ClientIds -> ClientRow]
      /\ clients'[i] = r /\ \A j \in ClientIds \ {i} : clients'[j] = clients[j]
    BY <1>1 DEF TypeOK, ClientsTypeOK
<1>4. /\ sighting' \in [Sightings -> Local]
      /\ sighting'[p].pc = "event" /\ Req(p)' = Req(p) /\ Target(p)' = i
      /\ \A q \in Sightings \ {p} : sighting'[q] = sighting[q]
    <2>1. "event" \in PCs
        BY DEF PCs
    <2>2. TypeOK /\ i \in 0..MaxClient /\ Moves(p, "event", i)
        BY <1>1, <1>2
    <2>3. QED
        BY ONLY <2>1, <2>2, MovesTypes, p \in Sightings
<1>5. /\ alone' \in [Sightings -> BOOLEAN]
      /\ \A q \in Sightings \ {p} : alone'[q] => At(q, "idle")
    BY <1>1, DisturbsTypes
<1>6. TypeOK'
    BY <1>1, <1>3, <1>4, <1>5 DEF TypeOK, ClientsTypeOK, Local, PCs, eventVars, pruneVars
<1>7. UniqueKeys'
    <2>1. \A j \in ClientIds \ {i} : Live(j)' => Live(j)
        BY <1>3 DEF Live
    <2>2. \A j \in ClientIds \ {i} : Live(j) =>
              clients[j].name # r.name /\ (r.hwid # NoHWID => clients[j].hwid # r.hwid)
        BY DEF Collides
    <2>3. ASSUME NEW j \in ClientIds, NEW k \in ClientIds, Live(j)', Live(k)', j # k
          PROVE  /\ clients'[j].name # clients'[k].name
                 /\ clients'[j].hwid = clients'[k].hwid => clients'[j].hwid = NoHWID
        <3>1. CASE j = i
            BY <1>3, <2>1, <2>2, <2>3, <3>1
        <3>2. CASE k = i
            BY <1>3, <2>1, <2>2, <2>3, <3>2
        <3>3. CASE j # i /\ k # i
            BY <1>1, <1>3, <2>1, <2>3, <3>3 DEF UniqueKeys
        <3>4. QED
            BY <3>1, <3>2, <3>3
    <2>4. ASSUME NEW j \in ClientIds, j >= nextClient' PROVE ~Live(j)'
        <3>1. j # i /\ j >= nextClient
            BY <1>2, <2>4 DEF ClientIds
        <3>2. QED
            BY <1>1, <2>1, <3>1 DEF UniqueKeys
    <2>5. QED
        BY <2>3, <2>4 DEF UniqueKeys
<1>8. ClientsInv'
    <2>1. HasTarget'
        BY <1>1, <1>2, <1>4 DEF ClientsInv, HasTarget, At, Target
    <2>2. Knows(p)'
        BY <1>2, <1>3, <1>4 DEF Knows, At, Live
    <2>3. UndisturbedKnows'
        BY <1>1, <1>4, <1>5, <2>2, OthersKnow
    <2>4. QED
        BY <1>7, <2>1, <2>3 DEF ClientsInv
<1>9. EventsInv'
    <2>1. \A q \in Sightings : At(q, "commit")' => At(q, "commit")
        BY <1>4 DEF At
    <2>2. QED
        BY <1>1, <2>1, EventsKept
<1>10. QED
    BY <1>6, <1>8, <1>9 DEF IInv, ClientsInv, EventsInv

LEMMA UpdateClientSteps ==
    ASSUME IInv, NEW p \in Sightings, UpdateClient(p), UNCHANGED pruneVars
    PROVE  IInv'
<1> DEFINE t == Target(p)
<1>1. TypeOK /\ ClientsInv /\ EventsInv /\ UniqueKeys /\ UndisturbedKnows
    BY DEF IInv, ClientsInv, EventsInv
<1>2. /\ At(p, "write") /\ t # 0 /\ ~Refused(p) /\ Moves(p, "event", t)
      /\ UNCHANGED <<nextClient, eventVars, pruneVars>>
    BY DEF UpdateClient, pruneVars
<1>3. t \in ClientIds /\ t \in 0..MaxClient /\ Req(p) \in Requests /\ clients[t] \in ClientRow
    <2>1. t \in 0..MaxClient /\ Req(p) \in Requests
        BY <1>1, SightingTypes
    <2>2. t \in ClientIds
        BY <1>2, <2>1, ClientsAssumption DEF ClientIds
    <2>3. QED
        BY <1>1, <2>1, <2>2 DEF TypeOK, ClientsTypeOK
<1>4. CASE Live(t)
    <2> DEFINE r == NewRow(p)
    <2>1. clients' = [clients EXCEPT ![t] = r] /\ Disturbs(p)
        BY <1>4 DEF UpdateClient
    <2>2. r = Written(clients[t], Req(p)) /\ ~Collides(t, r)
        BY <1>2, <1>4 DEF NewRow, Refused, RowId
    <2>3. /\ r \in ClientRow /\ r.state # "gone" /\ r.name = Req(p).name
          /\ Req(p).hwid # NoHWID => r.hwid = Req(p).hwid
        BY <1>3, <2>2, RowTypes
    <2>4. /\ t < nextClient' /\ nextClient' \in 1..(MaxClient + 1) /\ nextClient <= nextClient'
        BY <1>1, <1>2, <1>3, <1>4, ClientsAssumption DEF UniqueKeys, TypeOK, ClientsTypeOK, ClientIds
    <2> HIDE DEF r, t
    <2>5. QED
        BY <1>2, <1>3, <2>1, <2>2, <2>3, <2>4, WriteSteps
<1>5. CASE ~Live(t)
    <2>1. UNCHANGED <<clients, alone>>
        BY <1>5 DEF UpdateClient
    <2>2. /\ sighting' \in [Sightings -> Local]
          /\ sighting'[p].pc = "event" /\ Req(p)' = Req(p) /\ Target(p)' = t
          /\ \A q \in Sightings \ {p} : sighting'[q] = sighting[q]
        <3>1. "event" \in PCs
            BY DEF PCs
        <3>2. QED
            BY <1>1, <1>2, <1>3, <3>1, MovesTypes
    <2>3. ~(Req(p).name # NoName /\ alone[p])
        BY <1>1, <1>2, <1>5 DEF UndisturbedKnows, Knows, Found
    <2>4. TypeOK'
        <3>1. alone' \in [Sightings -> BOOLEAN]
            BY <1>1, <2>1 DEF TypeOK, ClientsTypeOK
        <3>2. QED
            BY <1>1, <1>2, <2>1, <2>2, <3>1, TypeOfSightings
    <2>5. ClientsInv'
        <3>1. UniqueKeys'
            BY <1>1, <1>2, <2>1, KeysKept
        <3>2. HasTarget'
            BY <1>1, <1>2, <2>2 DEF ClientsInv, HasTarget, At, Target
        <3>3. UndisturbedKnows'
            BY <1>1, <2>1, <2>2, <2>3, OthersKnow
        <3>4. QED
            BY <3>1, <3>2, <3>3 DEF ClientsInv
    <2>6. EventsInv'
        <3>1. \A q \in Sightings : At(q, "commit")' => At(q, "commit")
            BY <2>2 DEF At
        <3>2. QED
            BY <1>1, <1>2, <3>1, EventsKept
    <2>7. QED
        BY <2>4, <2>5, <2>6 DEF IInv, ClientsInv, EventsInv
<1>6. QED
    BY <1>4, <1>5

LEMMA InsertClientSteps ==
    ASSUME IInv, NEW p \in Sightings, InsertClient(p), UNCHANGED pruneVars
    PROVE  IInv'
<1> DEFINE r == NewRow(p)
<1>1. TypeOK /\ Req(p) \in Requests
    BY SightingTypes DEF IInv
<1>2. /\ Target(p) = 0 /\ ~Refused(p) /\ nextClient <= MaxClient
      /\ clients' = [clients EXCEPT ![nextClient] = r] /\ nextClient' = nextClient + 1
      /\ Disturbs(p) /\ Moves(p, "event", nextClient)
      /\ UNCHANGED <<eventVars, pruneVars>>
    BY DEF InsertClient, pruneVars
<1>3. r = Written(NoClient, Req(p)) /\ ~Collides(nextClient, r)
    BY <1>2 DEF NewRow, Refused, RowId
<1>4. /\ r \in ClientRow /\ r.state # "gone" /\ r.name = Req(p).name
      /\ Req(p).hwid # NoHWID => r.hwid = Req(p).hwid
    BY <1>1, <1>3, RowTypes, NoRowTypes
<1>5. /\ nextClient \in ClientIds /\ nextClient < nextClient'
      /\ nextClient' \in 1..(MaxClient + 1) /\ nextClient <= nextClient'
    BY <1>1, <1>2, ClientsAssumption DEF TypeOK, ClientsTypeOK, ClientIds
<1> HIDE DEF r
<1>6. QED
    BY <1>2, <1>3, <1>4, <1>5, WriteSteps

-----------------------------------------------------------------------------
(* The event, its counter and the end of a sighting.                       *)

\* A step of p that leaves the machines alone and after which p knows nothing.
LEMMA MachinesKept ==
    ASSUME ClientsInv, NEW p \in Sightings, UNCHANGED <<clients, nextClient>>,
           sighting'[p].pc \in {"idle", "commit"},
           \A q \in Sightings \ {p} : sighting'[q] = sighting[q] /\ alone'[q] = alone[q]
    PROVE  ClientsInv'
<1>1. UniqueKeys'
    BY KeysKept DEF ClientsInv
<1>2. HasTarget'
    BY DEF ClientsInv, HasTarget, At, Target
<1>3. Knows(p)'
    BY DEF Knows, At
<1>4. UndisturbedKnows'
    BY <1>3, OthersKnow DEF ClientsInv
<1>5. QED
    BY <1>1, <1>2, <1>4 DEF ClientsInv

\* p ends without an event; its transaction, if it has one, is rolled back.
LEMMA EndSteps ==
    ASSUME IInv, NEW p \in Sightings, Ends(p),
           pending' = [pending EXCEPT ![p] = NoEvent] \/ UNCHANGED pending,
           UNCHANGED <<clients, nextClient, now, events, nextEvent, hourly, pruneVars>>
    PROVE  IInv'
<1>1. TypeOK /\ ClientsInv /\ EventsInv
    BY DEF IInv, ClientsInv, EventsInv
<1>2. /\ sighting' \in [Sightings -> Local] /\ alone' \in [Sightings -> BOOLEAN]
      /\ sighting'[p].pc = "idle"
      /\ \A q \in Sightings \ {p} : sighting'[q] = sighting[q] /\ alone'[q] = alone[q]
    BY <1>1, EndsTypes
<1>3. /\ pending' \in [Sightings -> EventRow]
      /\ \A q \in Sightings \ {p} : pending'[q] = pending[q]
    BY <1>1, NoRowTypes DEF TypeOK, ClientsTypeOK
<1>4. TypeOK'
    BY <1>1, <1>2, <1>3 DEF TypeOK, ClientsTypeOK, Local, PCs, pruneVars
<1>5. ClientsInv'
    BY <1>1, <1>2, MachinesKept
<1>6. EventsInv'
    <2>1. EventIds'
        BY <1>1, <1>2, <1>3 DEF EventsInv, EventIds, At
    <2>2. BoundaryHolds'
        BY <1>1, <1>2, <1>3 DEF EventsInv, BoundaryHolds, InWindow, At, pruneVars
    <2>3. RollupCoversEvents'
        BY <1>1 DEF EventsInv, RollupCoversEvents
    <2>4. QED
        BY <2>1, <2>2, <2>3 DEF EventsInv
<1>7. QED
    BY <1>4, <1>5, <1>6 DEF IInv, ClientsInv, EventsInv

\* The new id is not below the boundary of a pass that is running.
LEMMA InsertEventSteps ==
    ASSUME IInv, NEW p \in Sightings, InsertEvent(p), UNCHANGED pruneVars
    PROVE  IInv'
<1> DEFINE e == [id |-> nextEvent, client |-> Target(p), hour |-> now]
<1>1. TypeOK /\ ClientsInv /\ EventsInv
    BY DEF IInv, ClientsInv, EventsInv
<1>2. CASE ~Live(Target(p))
    BY <1>2, EndSteps DEF InsertEvent, pruneVars
<1>3. CASE Live(Target(p))
    <2>1. /\ nextEvent <= MaxEvent /\ nextEvent' = nextEvent + 1
          /\ pending' = [pending EXCEPT ![p] = e]
          /\ Moves(p, "commit", Target(p))
          /\ UNCHANGED <<alone, clients, nextClient, now, events, hourly, pruneVars>>
        BY <1>3 DEF InsertEvent, pruneVars
    <2>2. /\ nextEvent \in Nat \ {0} /\ nextEvent' \in 1..(MaxEvent + 1)
          /\ nextEvent \in 1..(nextEvent' - 1) /\ Target(p) \in 0..MaxClient
          /\ nextEvent \in 0..MaxEvent /\ now \in 0..MaxHour
        BY <1>1, <2>1, SightingTypes, ClientsAssumption DEF TypeOK, ClientsTypeOK
    <2>3. /\ sighting' \in [Sightings -> Local] /\ sighting'[p].pc = "commit"
          /\ \A q \in Sightings \ {p} : sighting'[q] = sighting[q]
        <3>1. "commit" \in PCs
            BY DEF PCs
        <3>2. QED
            BY <1>1, <2>1, <2>2, <3>1, MovesTypes
    <2>4. e \in EventRow /\ e.id = nextEvent
        BY <2>2 DEF EventRow
    <2> HIDE DEF e
    <2>5. /\ pending' \in [Sightings -> EventRow] /\ pending'[p] = e
          /\ \A q \in Sightings \ {p} : pending'[q] = pending[q]
        BY <1>1, <2>1, <2>4 DEF TypeOK, ClientsTypeOK
    <2>6. TypeOK'
        BY <1>1, <2>1, <2>2, <2>3, <2>5 DEF TypeOK, ClientsTypeOK, Local, PCs, pruneVars
    <2>7. ClientsInv'
        BY <1>1, <2>1, <2>3, MachinesKept
    <2>8. EventIds'
        <3>1. ASSUME NEW q \in Sightings, At(q, "commit")'
              PROVE  pending'[q].id \in 1..(nextEvent' - 1)
            <4>1. CASE q = p
                BY <2>2, <2>4, <2>5, <4>1
            <4>2. CASE q # p
                <5>1. pending[q].id \in 1..(nextEvent - 1)
                    BY <1>1, <2>3, <3>1, <4>2 DEF EventsInv, EventIds, At
                <5>2. pending[q].id \in 1..(nextEvent' - 1)
                    BY <2>1, <2>2, <5>1
                <5>3. QED
                    BY <2>5, <4>2, <5>2
            <4>3. QED
                BY <4>1, <4>2
        <3>2. ASSUME NEW x \in events PROVE x.id < nextEvent'
            <4>1. x.id < nextEvent /\ x.id \in Nat
                BY <1>1 DEF EventsInv, EventIds, TypeOK, ClientsTypeOK, EventRow
            <4>2. QED
                BY <2>1, <2>2, <4>1
        <3>3. QED
            BY <1>1, <2>1, <3>1, <3>2 DEF EventsInv, EventIds
    <2>9. BoundaryHolds'
        <3>1. firstKeptID \in Nat /\ firstKeptID <= nextEvent
            BY <1>1, ClientsAssumption DEF EventsInv, BoundaryHolds, TypeOK
        <3>2. firstKeptID' <= nextEvent' /\ ~(nextEvent < firstKeptID')
            BY <2>1, <2>2, <3>1 DEF pruneVars
        <3>3. ASSUME NEW q \in Sightings, At(q, "commit")', pending'[q].id < firstKeptID'
              PROVE  pending'[q].id \in unseen'
            <4>1. q # p
                BY <2>4, <2>5, <3>2, <3>3
            <4>2. QED
                BY <1>1, <2>1, <2>3, <2>5, <3>3, <4>1 DEF EventsInv, BoundaryHolds, At, pruneVars
        <3>4. QED
            BY <1>1, <2>1, <3>2, <3>3 DEF EventsInv, BoundaryHolds, InWindow, pruneVars
    <2>10. RollupCoversEvents'
        BY <1>1, <2>1 DEF EventsInv, RollupCoversEvents
    <2>11. QED
        BY <2>6, <2>7, <2>8, <2>9, <2>10 DEF IInv, ClientsInv, EventsInv
<1>4. QED
    BY <1>2, <1>3

\* The row and its count become visible together, under the row's own hour.
LEMMA CommitEventSteps ==
    ASSUME IInv, NEW p \in Sightings, CommitEvent(p), UNCHANGED pruneVars
    PROVE  IInv'
<1> DEFINE x == pending[p]
<1>1. TypeOK /\ ClientsInv /\ EventsInv
    BY DEF IInv, ClientsInv, EventsInv
<1>2. /\ At(p, "commit") /\ Ends(p)
      /\ events' = events \cup {x}
      /\ hourly' = [hourly EXCEPT ![x.hour] = @ + 1]
      /\ pending' = [pending EXCEPT ![p] = NoEvent]
      /\ UNCHANGED <<clients, nextClient, now, nextEvent, pruneVars>>
    BY DEF CommitEvent, Bucket, pruneVars
<1>3. /\ sighting' \in [Sightings -> Local] /\ alone' \in [Sightings -> BOOLEAN]
      /\ sighting'[p].pc = "idle"
      /\ \A q \in Sightings \ {p} : sighting'[q] = sighting[q] /\ alone'[q] = alone[q]
    BY <1>1, <1>2, EndsTypes
<1>4. x \in EventRow /\ x.hour \in 0..MaxHour /\ x.id \in 1..(nextEvent - 1) /\ x.id < nextEvent
    <2>1. x \in EventRow
        BY <1>1, SightingTypes
    <2>2. x.id \in 1..(nextEvent - 1) /\ nextEvent \in Nat
        BY <1>1, <1>2 DEF EventsInv, EventIds, TypeOK, ClientsTypeOK
    <2>3. x.hour \in 0..MaxHour
        BY <2>1 DEF EventRow
    <2>4. x.id < nextEvent
        BY <2>2
    <2>5. QED
        BY <2>1, <2>2, <2>3, <2>4
<1> HIDE DEF x
<1>5. /\ pending' \in [Sightings -> EventRow]
      /\ \A q \in Sightings \ {p} : pending'[q] = pending[q]
    BY <1>1, <1>2, NoRowTypes DEF TypeOK, ClientsTypeOK
<1>6. hourly \in [0..MaxHour -> Nat] /\ hourly' \in [0..MaxHour -> Nat]
    BY <1>1, <1>2, <1>4 DEF TypeOK, ClientsTypeOK
<1>7. TypeOK'
    BY <1>1, <1>2, <1>3, <1>4, <1>5, <1>6 DEF TypeOK, ClientsTypeOK, Local, PCs, pruneVars
<1>8. ClientsInv'
    BY <1>1, <1>2, <1>3, MachinesKept
<1>9. EventIds'
    <2>1. IsFiniteSet(events')
        BY <1>1, <1>2, FS_AddElement DEF EventsInv, EventIds
    <2>2. QED
        BY <1>1, <1>2, <1>3, <1>4, <1>5, <2>1 DEF EventsInv, EventIds, At
<1>10. BoundaryHolds'
    <2>1. x.id < firstKeptID => x.id \in unseen
        BY <1>1, <1>2 DEF EventsInv, BoundaryHolds, x
    <2>2. QED
        BY <1>1, <1>2, <1>3, <1>5, <2>1 DEF EventsInv, BoundaryHolds, InWindow, At, pruneVars
<1>11. RollupCoversEvents'
    <2>1. ASSUME NEW h \in 0..MaxHour
          PROVE  Cardinality({e \in events' : e.hour = h}) <= hourly'[h]
        <3> DEFINE S == {e \in events : e.hour = h}
                   T == {e \in events' : e.hour = h}
        <3>1. IsFiniteSet(S)
            BY <1>1, FS_Subset DEF EventsInv, EventIds
        <3>2. Cardinality(S) <= hourly[h] /\ hourly[h] \in Nat
            BY <1>1, <1>6 DEF EventsInv, RollupCoversEvents
        <3>3. CASE x.hour = h
            <4>1. T = S \cup {x}
                BY <1>2, <3>3
            <4>2. hourly'[h] = hourly[h] + 1
                BY <1>2, <1>6, <3>3
            <4> HIDE DEF S, T
            <4>3. Cardinality(S) \in Nat /\ Cardinality(T) \in {Cardinality(S), Cardinality(S) + 1}
                BY <3>1, <4>1, FS_AddElement, FS_CardinalityType
            <4>4. Cardinality(T) <= hourly'[h]
                BY <3>2, <4>2, <4>3
            <4>5. QED
                BY <4>4 DEF T
        <3>4. CASE x.hour # h
            <4>1. T = S
                BY <1>2, <3>4
            <4>2. hourly'[h] = hourly[h]
                BY <1>2, <1>6, <3>4
            <4> HIDE DEF S, T
            <4>3. Cardinality(T) <= hourly'[h]
                BY <3>2, <4>1, <4>2
            <4>4. QED
                BY <4>3 DEF T
        <3>5. QED
            BY <3>3, <3>4
    <2>2. QED
        BY <2>1 DEF RollupCoversEvents
<1>12. QED
    BY <1>7, <1>8, <1>9, <1>10, <1>11 DEF IInv, ClientsInv, EventsInv

\* What is out of the window stays out.
LEMMA TickSteps ==
    ASSUME IInv, Tick, UNCHANGED pruneVars
    PROVE  IInv'
<1>1. TypeOK /\ ClientsInv /\ EventsInv
    BY DEF IInv, ClientsInv, EventsInv
<1>2. /\ now' = now + 1 /\ now < MaxHour
      /\ UNCHANGED <<clientVars, events, pending, nextEvent, hourly, pruneVars>>
    BY DEF Tick, pruneVars, clientVars
<1>3. now \in Nat /\ now' \in 0..MaxHour
    BY <1>1, <1>2, ClientsAssumption DEF TypeOK, ClientsTypeOK
<1>4. TypeOK'
    BY <1>1, <1>2, <1>3 DEF TypeOK, ClientsTypeOK, pruneVars, clientVars
<1>5. ClientsInv'
    BY <1>1, <1>2, ClientsKept
<1>6. EventsInv'
    <2>1. ASSUME NEW e \in events, ~InWindow(e) PROVE ~InWindow(e)'
        <3>1. e.hour \in Nat
            BY <1>1, ClientsAssumption DEF TypeOK, ClientsTypeOK, EventRow
        <3>2. QED
            BY <1>2, <1>3, <2>1, <3>1, PruneAssumption DEF InWindow
    <2>2. EventIds'
        BY <1>1, <1>2 DEF EventsInv, EventIds, clientVars, At
    <2>3. BoundaryHolds'
        BY <1>1, <1>2, <2>1 DEF EventsInv, BoundaryHolds, clientVars, pruneVars, At
    <2>4. RollupCoversEvents'
        BY <1>1, <1>2 DEF EventsInv, RollupCoversEvents
    <2>5. QED
        BY <2>2, <2>3, <2>4 DEF EventsInv
<1>7. QED
    BY <1>4, <1>5, <1>6 DEF IInv, ClientsInv, EventsInv

-----------------------------------------------------------------------------
(* Pruning.                                                                *)

\* The boundary of a pass, which exists: what is below it is out of the window.
LEMMA FindBoundarySteps ==
    ASSUME IInv, FindBoundary
    PROVE  IInv'
<1> DEFINE kept == {e \in events : InWindow(e)}
           ids == {e.id : e \in IF kept # {} THEN kept ELSE events}
           first == IF kept # {} THEN CHOOSE i \in ids : \A j \in ids : i <= j
                    ELSE IF events # {} THEN 1 + CHOOSE i \in ids : \A j \in ids : i >= j
                    ELSE 1
<1>1. TypeOK /\ ClientsInv /\ EventsInv
    BY DEF IInv, ClientsInv, EventsInv
<1>2. /\ first > 1 /\ firstKeptID' = first
      /\ unseen' = {pending[p].id : p \in {q \in Sightings : At(q, "commit")}}
      /\ UNCHANGED <<clientVars, eventVars>>
    BY DEF FindBoundary, WorthAPass
<1>3. /\ nextEvent \in 1..(MaxEvent + 1) /\ nextEvent \in Nat /\ MaxEvent \in Nat
      /\ \A e \in events : e.id \in 0..MaxEvent /\ e.id \in Nat /\ e.id < nextEvent
    BY <1>1, ClientsAssumption DEF EventsInv, EventIds, TypeOK, ClientsTypeOK, EventRow
<1>4. /\ first \in Nat /\ first <= nextEvent
      /\ \A e \in events : e.id < first => ~InWindow(e)
    <2>1. CASE kept # {}
        <3>1. ids \in SUBSET Nat /\ ids # {} /\ \A i \in ids : i < nextEvent
            BY <1>3, <2>1
        <3>2. first = CHOOSE i \in ids : \A j \in ids : i <= j
            BY <2>1
        <3>3. first \in ids /\ \A j \in ids : first <= j
            <4> HIDE DEF first, ids
            <4>1. \E i \in ids : \A j \in ids : i <= j
                BY <3>1, LeastNat
            <4>2. QED
                BY <3>2, <4>1
        <3>4. \A e \in kept : e.id \in ids
            BY <2>1
        <3> HIDE DEF first, ids
        <3>5. first \in Nat /\ first <= nextEvent
            BY <1>3, <3>1, <3>3
        <3>6. ASSUME NEW e \in events, e.id < first PROVE ~InWindow(e)
            <4>1. e \notin kept
                BY <1>3, <3>3, <3>4, <3>5, <3>6
            <4>2. QED
                BY <4>1
        <3>7. QED
            BY <3>5, <3>6
    <2>2. CASE kept = {} /\ events # {}
        <3>1. ids \in SUBSET (0..MaxEvent) /\ ids # {} /\ \A i \in ids : i < nextEvent
            BY <1>3, <2>2
        <3>2. first = 1 + CHOOSE i \in ids : \A j \in ids : i >= j
            BY <2>2
        <3> DEFINE last == CHOOSE i \in ids : \A j \in ids : i >= j
        <3>3. last \in ids
            <4> HIDE DEF ids
            <4>1. \E i \in ids : \A j \in ids : i >= j
                BY <1>3, <3>1, GreatestNat
            <4>2. QED
                BY <4>1
        <3>4. last \in Nat /\ last < nextEvent
            <4> HIDE DEF last, ids
            <4>1. QED
                BY <1>3, <3>1, <3>3
        <3>5. first = 1 + last
            BY <3>2
        <3> HIDE DEF first, last, ids
        <3>6. first \in Nat /\ first <= nextEvent
            BY <1>3, <3>4, <3>5
        <3>7. QED
            BY <2>2, <3>6
    <2>3. CASE kept = {} /\ events = {}
        <3>1. first = 1
            BY <2>3
        <3> HIDE DEF first
        <3>2. first > 1
            BY <1>2
        <3>3. QED
            BY <3>1, <3>2
    <2>4. QED
        BY <2>1, <2>2, <2>3
<1> HIDE DEF first, ids, kept
<1>5. \A p \in Sightings : At(p, "commit") => pending[p].id \in 1..(nextEvent - 1)
    BY <1>1 DEF EventsInv, EventIds
<1>6. TypeOK'
    <2>1. first \in 0..(MaxEvent + 1)
        BY <1>3, <1>4
    <2>2. unseen' \in SUBSET (1..MaxEvent)
        <3>1. 1..(nextEvent - 1) \subseteq 1..MaxEvent
            BY <1>3
        <3>2. QED
            BY <1>2, <1>5, <3>1
    <2>3. QED
        BY <1>1, <1>2, <2>1, <2>2 DEF TypeOK, ClientsTypeOK, clientVars, eventVars
<1>7. ClientsInv'
    BY <1>1, <1>2, ClientsKept
<1>8. EventsInv'
    <2>1. EventIds'
        BY <1>1, <1>2 DEF EventsInv, EventIds, clientVars, eventVars, At
    <2>2. BoundaryHolds'
        <3>1. \A p \in Sightings : At(p, "commit") => pending[p].id \in unseen'
            BY <1>2
        <3>2. QED
            BY <1>2, <1>4, <3>1 DEF BoundaryHolds, clientVars, eventVars, At, InWindow
    <2>3. RollupCoversEvents'
        BY <1>1, <1>2 DEF EventsInv, RollupCoversEvents, eventVars
    <2>4. QED
        BY <2>1, <2>2, <2>3 DEF EventsInv
<1>9. QED
    BY <1>6, <1>7, <1>8 DEF IInv, ClientsInv, EventsInv

\* A batch is below the boundary.
LEMMA BatchBelow ==
    ASSUME TypeOK, NEW i \in Batch
    PROVE  i < firstKeptID
<1>1. firstKeptID \in Nat
    BY ClientsAssumption DEF TypeOK
<1>2. i \in 1..(firstKeptID - 1)
    BY DEF Batch
<1>3. QED
    BY <1>1, <1>2

\* The end of a pass, after its last batch or before it.
LEMMA PassEnds ==
    ASSUME TypeOK, EventsInv, events' \subseteq events,
           UNCHANGED <<sighting, now, pending, nextEvent, hourly>>,
           firstKeptID' = 0, unseen' = {}
    PROVE  EventsInv'
<1>1. IsFiniteSet(events')
    BY FS_Subset DEF EventsInv, EventIds
<1>2. EventIds'
    BY <1>1 DEF EventsInv, EventIds, At
<1>3. /\ nextEvent \in Nat /\ 0 <= nextEvent
      /\ \A e \in events : ~(e.id < 0)
      /\ \A p \in Sightings : ~(pending[p].id < 0)
    <2>1. nextEvent \in Nat
        BY DEF TypeOK, ClientsTypeOK
    <2>2. \A e \in EventRow : e.id \in Nat
        BY ClientsAssumption DEF EventRow
    <2>3. (\A e \in events : e \in EventRow) /\ \A p \in Sightings : pending[p] \in EventRow
        BY DEF TypeOK, ClientsTypeOK
    <2>4. QED
        BY <2>1, <2>2, <2>3
<1>4. BoundaryHolds'
    BY <1>3 DEF BoundaryHolds
<1>5. RollupCoversEvents'
    BY RollupFewer
<1>6. QED
    BY <1>2, <1>4, <1>5 DEF EventsInv

LEMMA PruneSteps ==
    ASSUME IInv, DeleteBatch \/ PassFails
    PROVE  IInv'
<1>1. TypeOK /\ ClientsInv /\ EventsInv
    BY DEF IInv, ClientsInv, EventsInv
<1>2. /\ events' \subseteq events
      /\ UNCHANGED <<clientVars, now, pending, nextEvent, hourly>>
      /\ UNCHANGED pruneVars \/ (firstKeptID' = 0 /\ unseen' = {})
    BY DEF DeleteBatch, PassFails, eventVars, clientVars, pruneVars
<1>3. TypeOK'
    <2>1. firstKeptID' \in 0..(MaxEvent + 1) /\ unseen' \in SUBSET (1..MaxEvent)
        <3>1. 0 \in 0..(MaxEvent + 1)
            BY ClientsAssumption
        <3>2. firstKeptID \in 0..(MaxEvent + 1) /\ unseen \in SUBSET (1..MaxEvent)
            BY <1>1 DEF TypeOK
        <3>3. CASE UNCHANGED pruneVars
            BY <3>2, <3>3 DEF pruneVars
        <3>4. CASE firstKeptID' = 0 /\ unseen' = {}
            BY <3>1, <3>4
        <3>5. QED
            BY <1>2, <3>3, <3>4
    <2>2. QED
        BY <1>1, <1>2, <2>1 DEF TypeOK, ClientsTypeOK, clientVars
<1>4. ClientsInv'
    BY <1>1, <1>2, ClientsKept
<1>5. EventsInv'
    <2>1. \A q \in Sightings : At(q, "commit")' => At(q, "commit")
        BY <1>2 DEF At, clientVars
    <2>2. CASE UNCHANGED pruneVars
        BY <1>1, <1>2, <2>1, <2>2, EventsFewer
    <2>3. CASE firstKeptID' = 0 /\ unseen' = {}
        BY <1>1, <1>2, <2>3, PassEnds DEF clientVars
    <2>4. QED
        BY <1>2, <2>2, <2>3
<1>6. QED
    BY <1>3, <1>4, <1>5 DEF IInv, ClientsInv, EventsInv

-----------------------------------------------------------------------------
(* The theorems.                                                           *)

\* The inductive invariant: the unique keys of updater_clients, what an
\* undisturbed sighting knows between its statements, the ids of the events and
\* the boundary of a pass.
THEOREM TelemetryInvariant == SafetySpec => []IInv
<1>1. Init => IInv
    <2> SUFFICES ASSUME Init PROVE IInv
        OBVIOUS
    <2>1. TypeOK
        <3>1. clients \in [ClientIds -> ClientRow] /\ pending \in [Sightings -> EventRow]
              /\ sighting \in [Sightings -> Local]
            BY NoRowTypes DEF Init, ClientsInit
        <3>2. QED
            BY <3>1, ClientsAssumption DEF Init, ClientsInit, TypeOK, ClientsTypeOK, Local, PCs
    <2>2. ClientsInv
        BY DEF Init, ClientsInit, ClientsInv, UniqueKeys, HasTarget, UndisturbedKnows, Knows, At,
               Idle, Live, NoClient
    <2>3. IsFiniteSet(events)
        BY FS_EmptySet DEF Init, ClientsInit
    <2>4. RollupCoversEvents
        <3>1. ASSUME NEW h \in 0..MaxHour
              PROVE  Cardinality({e \in events : e.hour = h}) <= hourly[h]
            <4>1. {e \in events : e.hour = h} = {} /\ hourly[h] = 0
                BY DEF Init, ClientsInit
            <4>2. QED
                BY <4>1, FS_EmptySet
        <3>2. QED
            BY <3>1 DEF RollupCoversEvents
    <2>5. EventsInv
        BY <2>3, <2>4 DEF Init, ClientsInit, EventsInv, EventIds, BoundaryHolds, At, Idle
    <2>6. QED
        BY <2>1, <2>2, <2>5 DEF IInv, ClientsInv, EventsInv
<1>2. IInv /\ [Next]_vars => IInv'
    <2> SUFFICES ASSUME IInv, [Next]_vars PROVE IInv'
        OBVIOUS
    <2>1. ASSUME NEW p \in Sightings, UNCHANGED pruneVars,
                 \/ \E q \in Requests : Sight(p, q)
                 \/ LookupHWID(p) \/ LookupName(p) \/ DeleteSquatters(p)
                 \/ UpdateClient(p) \/ InsertClient(p)
                 \/ InsertEvent(p) \/ CommitEvent(p) \/ SightingEnds(p)
          PROVE  IInv'
        <3>1. CASE SightingEnds(p)
            BY <2>1, <3>1, EndSteps DEF SightingEnds, pruneVars
        <3>2. QED
            BY <2>1, <3>1, SightSteps, LookupHWIDSteps, LookupNameSteps, DeleteSquattersSteps,
               UpdateClientSteps, InsertClientSteps, InsertEventSteps, CommitEventSteps
    <2>2. CASE Tick /\ UNCHANGED pruneVars
        BY <2>2, TickSteps
    <2>3. CASE UNCHANGED vars
        <3>1. UNCHANGED <<clientVars, eventVars, pruneVars>>
            BY <2>3 DEF vars
        <3>2. TypeOK /\ ClientsInv /\ EventsInv
            BY DEF IInv, ClientsInv, EventsInv
        <3>3. \A q \in Sightings : At(q, "commit")' => At(q, "commit")
            BY <3>1 DEF At, clientVars
        <3>4. TypeOK'
            BY <3>1, <3>2 DEF TypeOK, ClientsTypeOK, clientVars, eventVars, pruneVars
        <3>5. QED
            BY <3>1, <3>2, <3>3, <3>4, ClientsKept, EventsKept DEF IInv, ClientsInv, EventsInv
    <2>4. QED
        BY <2>1, <2>2, <2>3, FindBoundarySteps, PruneSteps DEF Next, SightingNext
<1>3. QED
    BY <1>1, <1>2, PTL DEF SafetySpec

\* A report leaves a row that tells of one session, whichever headers it carries.
LEMMA WrittenOneSession ==
    ASSUME NEW old \in ClientRow, OneSession(old), NEW q \in Requests
    PROVE  OneSession(Written(old, q))
<1>1. q.session \in {"silent", "nobody", "user", "active", "disconnected"}
    BY ClientsAssumption DEF Sessions
<1>2. old.user \in BOOLEAN /\ old.since \in BOOLEAN
    BY DEF ClientRow
<1>3. QED
    BY <1>1, <1>2 DEF OneSession, Written, Since

\* The three logged-user columns stay consistent, over any interleaving of
\* sightings (the exceptions for them in Upsert's UPDATE).
LEMMA SessionsInvariant == SafetySpec => []OneSessionEach
<1>1. Init => OneSessionEach
    BY DEF Init, ClientsInit, OneSessionEach, OneSession, NoClient
<1>2. IInv /\ OneSessionEach /\ [Next]_vars => OneSessionEach'
    <2> SUFFICES ASSUME IInv, OneSessionEach, [Next]_vars PROVE OneSessionEach'
        OBVIOUS
    <2>1. TypeOK /\ clients \in [ClientIds -> ClientRow] /\ HasTarget
        BY DEF IInv, TypeOK, ClientsTypeOK
    <2>2. OneSession(NoClient) /\ NoClient \in ClientRow
        BY NoRowTypes DEF OneSession, NoClient
    <2>3. ASSUME clients' = clients PROVE OneSessionEach'
        BY <2>3 DEF OneSessionEach
    <2>4. ASSUME NEW p \in Sightings, DeleteSquatters(p) PROVE OneSessionEach'
        <3>1. clients' = [i \in ClientIds |-> IF i \in Squatters(p) THEN NoClient ELSE clients[i]]
            BY <2>4 DEF DeleteSquatters
        <3>2. QED
            BY <2>2, <3>1 DEF OneSessionEach
    <2>5. ASSUME NEW p \in Sightings PROVE OneSession(NewRow(p))
        <3> DEFINE old == IF Target(p) = 0 THEN NoClient ELSE clients[Target(p)]
        <3>1. Target(p) \in 0..MaxClient /\ Req(p) \in Requests
            BY <2>1, SightingTypes
        <3>2. Target(p) # 0 => Target(p) \in ClientIds
            BY <3>1, ClientsAssumption DEF ClientIds
        <3>3. old \in ClientRow /\ OneSession(old)
            BY <2>1, <2>2, <3>2 DEF OneSessionEach
        <3>4. NewRow(p) = Written(old, Req(p))
            BY DEF NewRow
        <3> HIDE DEF old
        <3>5. QED
            BY <3>1, <3>3, <3>4, WrittenOneSession
    <2>6. ASSUME NEW p \in Sightings, NEW i, clients' = [clients EXCEPT ![i] = NewRow(p)]
          PROVE  OneSessionEach'
        <3>1. ASSUME NEW j \in ClientIds PROVE OneSession(clients'[j])
            <4>1. clients'[j] = NewRow(p) \/ clients'[j] = clients[j]
                BY <2>1, <2>6
            <4>2. OneSession(clients[j])
                BY DEF OneSessionEach
            <4>3. QED
                BY <2>5, <4>1, <4>2
        <3>2. QED
            BY <3>1 DEF OneSessionEach
    <2>7. ASSUME NEW p \in Sightings, UpdateClient(p) PROVE OneSessionEach'
        BY <2>3, <2>6, <2>7 DEF UpdateClient
    <2>8. ASSUME NEW p \in Sightings, InsertClient(p) PROVE OneSessionEach'
        BY <2>6, <2>8 DEF InsertClient
    <2>9. CASE UNCHANGED clients
        BY <2>3, <2>9
    <2>10. UNCHANGED clients \/ \E p \in Sightings : DeleteSquatters(p) \/ UpdateClient(p) \/ InsertClient(p)
        BY DEF Next, SightingNext, Sight, LookupHWID, LookupName, InsertEvent, CommitEvent,
               SightingEnds, Tick, FindBoundary, DeleteBatch, PassFails, vars, clientVars
    <2>11. QED
        BY <2>4, <2>7, <2>8, <2>9, <2>10
<1>3. QED
    BY <1>1, <1>2, TelemetryInvariant, PTL DEF SafetySpec

\* A sighting with a hostname that no other one writes into is stored: no unique
\* key refuses its row, and afterwards the row carries its hwid and its name and
\* tells of one session (Upsert, whatever rows the table held before).
THEOREM SightingStored == SafetySpec => []UndisturbedSightingStored
<1>1. IInv /\ OneSessionEach => UndisturbedSightingStored
    <2> SUFFICES ASSUME IInv, OneSessionEach, NEW p \in Sightings, Req(p).name # NoName, alone[p]
                 PROVE  /\ At(p, "write") => ~Refused(p)
                        /\ At(p, "event") =>
                            /\ Live(Target(p)) /\ clients[Target(p)].name = Req(p).name
                            /\ Req(p).hwid # NoHWID => clients[Target(p)].hwid = Req(p).hwid
                            /\ OneSession(clients[Target(p)])
        BY DEF UndisturbedSightingStored
    <2>1. TypeOK /\ UniqueKeys /\ Knows(p)
        BY DEF IInv, UndisturbedKnows
    <2>2. ASSUME At(p, "write") PROVE ~Refused(p)
        <3> DEFINE old == IF Target(p) = 0 THEN NoClient ELSE clients[Target(p)]
                   r == NewRow(p)
        <3>1. Found(p) /\ ByName(p) \subseteq {Target(p)}
            BY <2>1, <2>2 DEF Knows
        <3>2. Target(p) \in 0..MaxClient /\ Req(p) \in Requests
            BY <2>1, SightingTypes
        <3>3. Target(p) # 0 => Target(p) \in ClientIds /\ clients[Target(p)] \in ClientRow
            BY <2>1, <3>2, ClientsAssumption DEF ClientIds, TypeOK, ClientsTypeOK
        <3>4. old \in ClientRow
            BY <3>3, NoRowTypes
        <3>5. r = Written(old, Req(p))
            BY DEF NewRow
        <3> HIDE DEF old
        <3>6. /\ r.name = Req(p).name
              /\ Req(p).hwid # NoHWID => r.hwid = Req(p).hwid
              /\ Req(p).hwid = NoHWID => r.hwid = old.hwid
            BY <3>2, <3>4, <3>5, RowTypes
        <3> HIDE DEF r
        <3>7. ASSUME NEW j \in ClientIds \ {RowId(p)}, Live(j),
                     clients[j].name = r.name \/ (r.hwid # NoHWID /\ clients[j].hwid = r.hwid)
              PROVE  FALSE
            <4>0. j # Target(p)
                BY <3>7, ClientsAssumption DEF RowId, ClientIds
            <4>1. clients[j].name # r.name
                BY <3>1, <3>6, <3>7, <4>0 DEF ByName
            <4>2. CASE Req(p).hwid # NoHWID
                BY <3>1, <3>6, <3>7, <4>0, <4>1, <4>2 DEF Found, ByHWID
            <4>3. CASE Req(p).hwid = NoHWID
                <5>1. r.hwid = old.hwid /\ old.hwid # NoHWID /\ clients[j].hwid = old.hwid
                    BY <3>6, <3>7, <4>1, <4>3
                <5>2. Target(p) # 0 /\ old = clients[Target(p)]
                    BY <5>1 DEF old, NoClient
                <5>3. Live(Target(p))
                    BY <3>1, <5>2 DEF Found
                <5>4. QED
                    BY <2>1, <3>3, <3>7, <4>0, <5>1, <5>2, <5>3 DEF UniqueKeys
            <4>4. QED
                BY <4>2, <4>3
        <3>8. QED
            BY <3>7 DEF Refused, Collides, r
    <2>3. ASSUME At(p, "event") PROVE OneSession(clients[Target(p)])
        <3>1. Target(p) # 0 /\ Target(p) \in 0..MaxClient
            BY <2>1, <2>3, SightingTypes DEF Knows
        <3>2. Target(p) \in ClientIds
            BY <3>1, ClientsAssumption DEF ClientIds
        <3>3. QED
            BY <3>2 DEF OneSessionEach
    <2>4. QED
        BY <2>1, <2>2, <2>3 DEF Knows
<1>2. QED
    BY <1>1, TelemetryInvariant, SessionsInvariant, PTL

\* The rollup never counts fewer events than the raw table holds under an hour
\* (insertEvent's transaction, pruning and the cascade of deleted machines).
THEOREM RollupCovers == SafetySpec => []RollupCoversEvents
<1>1. IInv => RollupCoversEvents
    BY DEF IInv
<1>2. QED
    BY <1>1, TelemetryInvariant, PTL

\* A pass of eventprune deletes no committed event inside the retention window,
\* but those that were not yet visible when it looked for its boundary.
THEOREM PruneSpares == SafetySpec => PruneSparesTheWindow
<1>1. IInv /\ [Next]_vars =>
        [firstKeptID # 0 /\ UNCHANGED clientVars =>
            \A e \in events \ events' : ~InWindow(e) \/ e.id \in unseen]_vars
    <2> SUFFICES ASSUME IInv, Next, UNCHANGED clientVars, NEW e \in events \ events'
                 PROVE  ~InWindow(e) \/ e.id \in unseen
        BY DEF vars
    <2>1. CASE DeleteBatch
        <3>1. e.id \in Batch
            BY <2>1 DEF DeleteBatch
        <3>2. e.id < firstKeptID
            BY <3>1, BatchBelow DEF IInv
        <3>3. QED
            BY <3>2 DEF IInv, BoundaryHolds
    <2>2. CASE FindBoundary \/ PassFails
        BY <2>2 DEF FindBoundary, PassFails, eventVars
    <2>3. CASE SightingNext
        <3>1. ASSUME NEW p \in Sightings, DeleteSquatters(p) PROVE FALSE
            <4>1. sighting' = sighting
                BY DEF clientVars
            <4>2. sighting'[p].pc = "write" /\ sighting[p].pc = "squatters"
                <5>1. TypeOK /\ "write" \in PCs /\ Target(p) \in 0..MaxClient
                    BY SightingTypes DEF IInv, PCs
                <5>2. QED
                    BY <3>1, <5>1, MovesTypes DEF DeleteSquatters, At
            <4>3. QED
                BY <4>1, <4>2
        <3>2. QED
            BY <2>3, <3>1 DEF SightingNext, Sight, LookupHWID, LookupName, UpdateClient, InsertClient,
                  InsertEvent, CommitEvent, SightingEnds, Tick, eventVars
    <2>4. QED
        BY <2>1, <2>2, <2>3 DEF Next
<1>2. QED
    BY <1>1, TelemetryInvariant, PTL DEF SafetySpec, PruneSparesTheWindow
=============================================================================

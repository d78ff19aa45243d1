----------------------------- MODULE EventPrune -----------------------------
(***************************************************************************)
(* The retention of updater_events, internal/eventprune/eventprune.go,     *)
(* beside the sightings that insert them: one query finds the first id to  *)
(* keep, batches of deletes by primary key follow.                         *)
(***************************************************************************)
EXTENDS UpdaterClients

CONSTANTS
    Retention,          \* in hours, positive: pruning is on
    batchSize

ASSUME PruneAssumption == Retention \in Nat \ {0} /\ batchSize \in Nat \ {0}

VARIABLES
    firstKeptID,        \* of the pass that is running, 0 outside one
    unseen              \* history: events that were uncommitted when it was read

pruneVars == <<firstKeptID, unseen>>
vars == <<clientVars, eventVars, pruneVars>>

TypeOK ==
    /\ ClientsTypeOK
    /\ firstKeptID \in 0..(MaxEvent + 1)
    /\ unseen \in SUBSET (1..MaxEvent)

Init == ClientsInit /\ firstKeptID = 0 /\ unseen = {}

\* created_at >= cutoff.
InWindow(e) == e.hour + Retention >= now

\* Faulty variant: a table whose only row has the id 1 has nothing to prune.
FaultyWorthAPass(id) == id > 2

\* firstKeptID <= 1: return.
WorthAPass(id) == id > 1

\* Run: the oldest visible row inside the window, or one past the last row.
FindBoundary ==
    LET kept == {e \in events : InWindow(e)}
        ids == {e.id : e \in IF kept # {} THEN kept ELSE events}
        first == IF kept # {} THEN CHOOSE i \in ids : \A j \in ids : i <= j
                 ELSE IF events # {} THEN 1 + CHOOSE i \in ids : \A j \in ids : i >= j
                 ELSE 1
    IN  /\ firstKeptID = 0
        /\ WorthAPass(first)
        /\ firstKeptID' = first
        /\ unseen' = {pending[p].id : p \in {q \in Sightings : At(q, "commit")}}
        /\ UNCHANGED <<clientVars, eventVars>>

\* Faulty variant: the boundary is deleted too (<= for <).
FaultyBatch == {i \in 1..firstKeptID : \E e \in events : e.id = i}

\* The rows one DELETE ... WHERE id < ? LIMIT ? meets, in the order of the
\* primary key, uncommitted ones included.
Batch ==
    LET below == {i \in 1..(firstKeptID - 1) :
                    \/ \E e \in events : e.id = i
                    \/ \E p \in Sightings : pending[p].id = i}
    IN  {i \in below : Cardinality({j \in below : j < i}) < batchSize}

\* n < batchSize.
PassOver == Cardinality(Batch) < batchSize

\* Run: one batch.  It waits for the transaction that holds a row it meets.
DeleteBatch ==
    /\ firstKeptID # 0
    /\ \A p \in Sightings : pending[p].id \notin Batch
    /\ events' = {e \in events : e.id \notin Batch}
    /\ firstKeptID' = IF PassOver THEN 0 ELSE firstKeptID
    /\ unseen' = IF PassOver THEN {} ELSE unseen
    /\ UNCHANGED <<clientVars, now, pending, nextEvent, hourly>>

\* A statement fails, or the process stops between two batches.
PassFails ==
    /\ firstKeptID # 0
    /\ firstKeptID' = 0
    /\ unseen' = {}
    /\ UNCHANGED <<clientVars, eventVars>>

Next ==
    \/ SightingNext /\ UNCHANGED pruneVars
    \/ FindBoundary \/ DeleteBatch \/ PassFails

\* The hourly loop goes on and its statements do not fail for ever; a request
\* that has begun ends.
Fairness ==
    /\ WF_vars(Tick /\ UNCHANGED pruneVars)
    /\ SF_vars(FindBoundary)
    /\ SF_vars(DeleteBatch)
    /\ \A p \in Sightings : WF_vars(SightingEnds(p) /\ UNCHANGED pruneVars)

SafetySpec == Init /\ [][Next]_vars
Spec == SafetySpec /\ Fairness

-----------------------------------------------------------------------------
(* Properties.                                                             *)

\* A pass deletes only rows that are out of the window or that were not yet
\* committed when it looked for its boundary.
PruneSparesTheWindow ==
    [][firstKeptID # 0 /\ UNCHANGED clientVars =>
          \A e \in events \ events' : ~InWindow(e) \/ e.id \in unseen]_vars

\* An expired event does not stay: failed passes, full batches and new events
\* delay its deletion and do not prevent it.
ExpiredEventsGo ==
    \A i \in 1..MaxEvent :
        (\E e \in events : e.id = i /\ ~InWindow(e)) ~> (\A e \in events : e.id # i)

-----------------------------------------------------------------------------
\* What lies below the boundary of a pass is out of the window, or was not yet
\* committed when the boundary was found.
BoundaryHolds ==
    /\ firstKeptID <= nextEvent
    /\ \A e \in events : e.id < firstKeptID => ~InWindow(e) \/ e.id \in unseen
    /\ \A p \in Sightings : At(p, "commit") /\ pending[p].id < firstKeptID => pending[p].id \in unseen

\* The inductive invariant.
IInv ==
    /\ TypeOK
    /\ UniqueKeys
    /\ HasTarget
    /\ UndisturbedKnows
    /\ EventIds
    /\ BoundaryHolds
    /\ RollupCoversEvents
=============================================================================

------------------------------ MODULE TTLCache ------------------------------
(***************************************************************************)
(* internal/ttlcache: the memoizer in front of GET /v2/stats/summary and   *)
(* GET /v2/stats/events (internal/stats/stats.route.go), with caching on   *)
(* (a TTL of 0 makes Get call build and touch nothing).                    *)
(*                                                                         *)
(* Two kinds of mutex: Cache.mu covers only the lookup of an entry, one    *)
(* atomic step; entry.mu is held for a whole rebuild.  An entry that the   *)
(* map has dropped lives on as long as a caller points to it: entries are  *)
(* slots, allocated like objects of the heap and free again when nothing   *)
(* refers to them.  A payload is the moment its queries read the database. *)
(***************************************************************************)
EXTENDS Naturals, FiniteSets, TLC

CONSTANTS
    Callers,            \* concurrent requests
    Keys,               \* product|window, or bucket|product|type|from|to
    Slots,              \* heap objects of type entry
    maxEntries,
    TTL,
    MaxTime,            \* bound on the clock
    Nobody, NoKey, NoSlot

ASSUME CacheAssumption ==
    /\ maxEntries \in Nat \ {0}
    /\ TTL \in Nat \ {0}
    /\ MaxTime \in Nat \ {0}
    /\ Nobody \notin Callers /\ NoKey \notin Keys /\ NoSlot \notin Slots

VARIABLES
    now,
    entries,            \* Cache.entries: key -> slot
    lock,               \* slot -> the caller that holds entry.mu
    value,              \* slot -> entry.value
    expiresAt,          \* slot -> entry.expiresAt, 0 is the zero time
    pc,                 \* caller -> "idle" | "wait" (for entry.mu) | "build" | "built"
    key, slot,          \* caller -> the key and the entry of its call
    result,             \* caller -> the payload its build has read, 0 before
    latest,             \* history: key -> the newest payload returned since the last drop
    floor,              \* history: caller -> latest of its key when it called
    dropped             \* history: caller -> the map was dropped during its call

vars == <<now, entries, lock, value, expiresAt, pc, key, slot, result, latest, floor, dropped>>

Times == 0..MaxTime

TypeOK ==
    /\ now \in 1..MaxTime
    /\ entries \in [Keys -> Slots \cup {NoSlot}]
    /\ lock \in [Slots -> Callers \cup {Nobody}]
    /\ value \in [Slots -> Times]
    /\ expiresAt \in [Slots -> 0..(MaxTime + TTL)]
    /\ pc \in [Callers -> {"idle", "wait", "build", "built"}]
    /\ key \in [Callers -> Keys \cup {NoKey}]
    /\ slot \in [Callers -> Slots \cup {NoSlot}]
    /\ result \in [Callers -> Times]
    /\ latest \in [Keys -> Times]
    /\ floor \in [Callers -> Times]
    /\ dropped \in [Callers -> BOOLEAN]

Init ==
    /\ now = 1
    /\ entries = [k \in Keys |-> NoSlot]
    /\ lock = [s \in Slots |-> Nobody]
    /\ value = [s \in Slots |-> 0]
    /\ expiresAt = [s \in Slots |-> 0]
    /\ pc = [c \in Callers |-> "idle"]
    /\ key = [c \in Callers |-> NoKey]
    /\ slot = [c \in Callers |-> NoSlot]
    /\ result = [c \in Callers |-> 0]
    /\ latest = [k \in Keys |-> 0]
    /\ floor = [c \in Callers |-> 0]
    /\ dropped = [c \in Callers |-> FALSE]

-----------------------------------------------------------------------------
Full == Cardinality({k \in Keys : entries[k] # NoSlot}) >= maxEntries

\* A slot that neither the map (as it is after the drop) nor a caller refers to.
Unused(map, s) ==
    /\ \A k \in Keys : map[k] # s
    /\ \A c \in Callers : slot[c] # s

Fresh(map) == CHOOSE s \in Slots : Unused(map, s)

\* Faulty variant: an entry that was never built is taken for a missing one.
FaultyMissing(map, k) == map[k] = NoSlot \/ expiresAt[map[k]] = 0

Missing(map, k) == map[k] = NoSlot

\* Get, up to c.mu.Unlock: a full map is replaced before the key is looked up.
\* That an unused slot is left bounds the heap.
Lookup(c, k) ==
    LET map == IF Full THEN [x \in Keys |-> NoSlot] ELSE entries
        s   == IF Missing(map, k) THEN Fresh(map) ELSE map[k]
    IN  /\ pc[c] = "idle"
        /\ \E u \in Slots : Unused(map, u)
        /\ entries' = [map EXCEPT ![k] = s]
        /\ value' = IF Missing(map, k) THEN [value EXCEPT ![s] = 0] ELSE value
        /\ expiresAt' = IF Missing(map, k) THEN [expiresAt EXCEPT ![s] = 0] ELSE expiresAt
        /\ pc' = [pc EXCEPT ![c] = "wait"]
        /\ key' = [key EXCEPT ![c] = k]
        /\ slot' = [slot EXCEPT ![c] = s]
        /\ latest' = IF Full THEN [x \in Keys |-> 0] ELSE latest
        /\ floor' = [floor EXCEPT ![c] = latest'[k]]
        /\ dropped' = [x \in Callers |-> x # c /\ pc[x] # "idle" /\ (dropped[x] \/ Full)]
        /\ UNCHANGED <<now, lock, result>>

\* The deferred e.mu.Unlock and the return of Get.
Return(c, v, unlocked) ==
    /\ lock' = unlocked
    /\ result' = [result EXCEPT ![c] = 0]
    /\ floor' = [floor EXCEPT ![c] = 0]
    /\ dropped' = [dropped EXCEPT ![c] = FALSE]
    /\ latest' = IF dropped[c] \/ latest[key[c]] > v THEN latest ELSE [latest EXCEPT ![key[c]] = v]
    /\ pc' = [pc EXCEPT ![c] = "idle"]
    /\ key' = [key EXCEPT ![c] = NoKey]
    /\ slot' = [slot EXCEPT ![c] = NoSlot]

Valid(s) == expiresAt[s] # 0 /\ now < expiresAt[s]

\* e.mu.Lock and a valid entry: its value is returned.
Hit(c) ==
    /\ pc[c] = "wait"
    /\ lock[slot[c]] = Nobody
    /\ Valid(slot[c])
    /\ Return(c, value[slot[c]], lock)
    /\ UNCHANGED <<now, entries, value, expiresAt>>

\* Faulty variant: entry.mu is given back before build runs.
FaultyMiss(c) ==
    /\ pc[c] = "wait"
    /\ lock[slot[c]] = Nobody
    /\ ~Valid(slot[c])
    /\ pc' = [pc EXCEPT ![c] = "build"]
    /\ UNCHANGED <<now, entries, lock, value, expiresAt, key, slot, result, latest, floor, dropped>>

\* e.mu.Lock and a cold or an expired entry: build starts.
Miss(c) ==
    /\ pc[c] = "wait"
    /\ lock[slot[c]] = Nobody
    /\ ~Valid(slot[c])
    /\ lock' = [lock EXCEPT ![slot[c]] = c]
    /\ pc' = [pc EXCEPT ![c] = "build"]
    /\ UNCHANGED <<now, entries, value, expiresAt, key, slot, result, latest, floor, dropped>>

\* build (fetchStatsSummary, fetchStatsEvents) reads the database.
BuildReads(c) ==
    /\ pc[c] = "build"
    /\ pc' = [pc EXCEPT ![c] = "built"]
    /\ result' = [result EXCEPT ![c] = now]
    /\ UNCHANGED <<now, entries, lock, value, expiresAt, key, slot, latest, floor, dropped>>

BuildSucceeds(c) ==
    /\ pc[c] = "built"
    /\ value' = [value EXCEPT ![slot[c]] = result[c]]
    /\ expiresAt' = [expiresAt EXCEPT ![slot[c]] = now + TTL]
    /\ Return(c, result[c], [lock EXCEPT ![slot[c]] = Nobody])
    /\ UNCHANGED <<now, entries>>

\* Faulty variant: an error returns without the unlock.
FaultyBuildFails(c) ==
    /\ pc[c] \in {"build", "built"}
    /\ Return(c, 0, lock)
    /\ UNCHANGED <<now, entries, value, expiresAt>>

\* build returns an error, or the request that drives it is cancelled.
BuildFails(c) ==
    /\ pc[c] \in {"build", "built"}
    /\ Return(c, 0, [lock EXCEPT ![slot[c]] = Nobody])
    /\ UNCHANGED <<now, entries, value, expiresAt>>

Tick ==
    /\ now < MaxTime
    /\ now' = now + 1
    /\ UNCHANGED <<entries, lock, value, expiresAt, pc, key, slot, result, latest, floor, dropped>>

Finish(c) == Hit(c) \/ Miss(c) \/ BuildReads(c) \/ BuildSucceeds(c) \/ BuildFails(c)

Next ==
    \/ \E c \in Callers : (\E k \in Keys : Lookup(c, k)) \/ Finish(c)
    \/ Tick

\* A goroutine keeps running, a query ends (the router's 30 s timeout cancels
\* it), and sync.Mutex hands the lock to a waiter that has starved for 1 ms.
Fairness ==
    \A c \in Callers :
        /\ SF_vars(Hit(c))
        /\ SF_vars(Miss(c))
        /\ WF_vars(BuildReads(c) \/ BuildSucceeds(c) \/ BuildFails(c))

SafetySpec == Init /\ [][Next]_vars
Spec == SafetySpec /\ Fairness

-----------------------------------------------------------------------------
(* Properties.                                                             *)

\* Callers racing on one key share a single computation (the package's
\* promise), except when the full map was dropped under one of them.
SingleFlight ==
    \A c, d \in Callers :
        /\ c # d
        /\ pc[c] \in {"build", "built"} /\ pc[d] \in {"build", "built"}
        /\ key[c] = key[d]
        => dropped[c] \/ dropped[d]

\* A call never answers with older numbers than a call of the same key that
\* had returned before it began, unless the map was dropped meanwhile:
\* rebuilds of one entry are ordered by entry.mu, whatever fails in between.
ReadsNeverGoBack ==
    \A c \in Callers : ~dropped[c] =>
        /\ pc[c] = "built" => result[c] >= floor[c]
        /\ pc[c] = "wait" /\ lock[slot[c]] = Nobody /\ Valid(slot[c]) => value[slot[c]] >= floor[c]

\* Every call returns: no error, cancellation or dropped map leaves entry.mu
\* locked under the callers that wait for it.
EveryCallReturns == \A c \in Callers : pc[c] = "wait" ~> pc[c] = "idle"

-----------------------------------------------------------------------------
(* The inductive invariant of SingleFlight (StatsProofs).                  *)

\* entry.mu is held exactly by the caller that builds the entry.
LockHeld ==
    \A c \in Callers :
        /\ pc[c] \in {"build", "built"} => slot[c] \in Slots /\ lock[slot[c]] = c
        /\ pc[c] = "wait" => slot[c] \in Slots
        /\ pc[c] # "idle" => key[c] \in Keys

\* A caller under which the map was not dropped has the entry of the map.
PointsIntoMap ==
    \A c \in Callers : pc[c] # "idle" /\ ~dropped[c] => entries[key[c]] = slot[c]

IInv == TypeOK /\ LockHeld /\ PointsIntoMap

(* What ReadsNeverGoBack needs besides.                                    *)

\* An entry belongs to one key, and an entry that was dropped under a caller
\* does not come back into the map.
EntriesApart ==
    /\ \A k, j \in Keys : entries[k] = entries[j] /\ entries[k] # NoSlot => k = j
    /\ \A c \in Callers : pc[c] # "idle" /\ dropped[c] => \A k \in Keys : entries[k] # slot[c]

\* The entry in the map is at least as new as every answer given from it.
MapIsNewest ==
    \A k \in Keys : IF entries[k] = NoSlot THEN latest[k] = 0 ELSE latest[k] <= value[entries[k]]

\* A build reads after the payload that it replaces was read.
BuildsInOrder ==
    /\ \A s \in Slots : value[s] <= now
    /\ \A c \in Callers : pc[c] = "built" => value[slot[c]] <= result[c] /\ result[c] <= now

FloorBelow ==
    \A c \in Callers : pc[c] # "idle" /\ ~dropped[c] => floor[c] <= latest[key[c]]

ReadOrder == EntriesApart /\ MapIsNewest /\ BuildsInOrder /\ FloorBelow
=============================================================================

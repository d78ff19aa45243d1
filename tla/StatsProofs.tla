----------------------------- MODULE StatsProofs ----------------------------
(***************************************************************************)
(* The two read paths of the statistics.  The cache: SingleFlight and      *)
(* ReadsNeverGoBack for every number of callers, keys and entries.  The    *)
(* stream: StaleMeansOwed for every number of connections and events and   *)
(* every size of the buffers.                                              *)
(***************************************************************************)
EXTENDS TTLCache, StatsStream, SequenceTheorems, TLAPS

\* What a lookup leaves behind when the map is replaced and when it is not.
LEMMA LookupSteps ==
    ASSUME IInv, NEW c \in Callers, NEW k \in Keys, Lookup(c, k)
    PROVE  IInv'
<1> DEFINE map == IF Full THEN [x \in Keys |-> NoSlot] ELSE entries
           s == IF Missing(map, k) THEN Fresh(map) ELSE map[k]
<1>1. map \in [Keys -> Slots \cup {NoSlot}]
    BY DEF IInv, TypeOK
<1>2. Fresh(map) \in Slots
    BY DEF Lookup, Fresh
<1>3. s \in Slots
    BY <1>1, <1>2 DEF Missing
<1>4. /\ pc[c] = "idle"
      /\ entries' = [map EXCEPT ![k] = s]
      /\ value' = IF Missing(map, k) THEN [value EXCEPT ![s] = 0] ELSE value
      /\ expiresAt' = IF Missing(map, k) THEN [expiresAt EXCEPT ![s] = 0] ELSE expiresAt
      /\ pc' = [pc EXCEPT ![c] = "wait"]
      /\ key' = [key EXCEPT ![c] = k]
      /\ slot' = [slot EXCEPT ![c] = s]
      /\ latest' = IF Full THEN [x \in Keys |-> 0] ELSE latest
      /\ floor' = [floor EXCEPT ![c] = latest'[k]]
      /\ dropped' = [x \in Callers |-> x # c /\ pc[x] # "idle" /\ (dropped[x] \/ Full)]
      /\ UNCHANGED <<now, lock, result>>
    BY DEF Lookup
<1> HIDE DEF map, s
<1>5. TypeOK'
    <2>1. 0 \in Times /\ 0 \in 0..(MaxTime + TTL)
        BY CacheAssumption DEF Times
    <2>2. value' \in [Slots -> Times] /\ expiresAt' \in [Slots -> 0..(MaxTime + TTL)]
        BY <1>3, <1>4, <2>1 DEF IInv, TypeOK
    <2>3. latest' \in [Keys -> Times] /\ floor' \in [Callers -> Times]
        BY <1>4, <2>1 DEF IInv, TypeOK
    <2>4. dropped' \in [Callers -> BOOLEAN]
        BY <1>4 DEF IInv, TypeOK
    <2>5. entries' \in [Keys -> Slots \cup {NoSlot}] /\ slot' \in [Callers -> Slots \cup {NoSlot}]
        BY <1>1, <1>3, <1>4 DEF IInv, TypeOK
    <2>6. QED
        BY <1>4, <2>2, <2>3, <2>4, <2>5 DEF IInv, TypeOK
<1>6. LockHeld'
    BY <1>3, <1>4 DEF IInv, TypeOK, LockHeld
<1>7. PointsIntoMap'
    <2> SUFFICES ASSUME NEW x \in Callers, pc'[x] # "idle", ~dropped'[x]
                 PROVE  entries'[key'[x]] = slot'[x]
        BY DEF PointsIntoMap
    <2>1. CASE x = c
        BY <1>1, <1>4, <2>1 DEF IInv, TypeOK
    <2>2. CASE x # c
        <3>1. pc[x] # "idle" /\ ~dropped[x] /\ ~Full
            BY <1>4, <2>2 DEF IInv, TypeOK
        <3>2. map = entries /\ entries[key[x]] = slot[x] /\ slot[x] \in Slots /\ key[x] \in Keys
            BY <3>1 DEF map, IInv, TypeOK, LockHeld, PointsIntoMap
        <3>3. key[x] = k => s = slot[x]
            BY <3>2, CacheAssumption DEF s, Missing
        <3>4. QED
            BY <1>1, <1>4, <2>2, <3>2, <3>3 DEF IInv, TypeOK
    <2>3. QED
        BY <2>1, <2>2
<1>8. QED
    BY <1>5, <1>6, <1>7 DEF IInv

\* A call that returns gives up its entry and nothing else.
LEMMA ReturnSteps ==
    ASSUME IInv, NEW c \in Callers, NEW v \in Times, NEW l,
           pc[c] # "idle", Return(c, v, l), UNCHANGED <<now, entries>>,
           l \in [Slots -> Callers \cup {Nobody}],
           \A s \in Slots : l[s] = lock[s] \/ lock[s] = c,
           value' \in [Slots -> Times], expiresAt' \in [Slots -> 0..(MaxTime + TTL)]
    PROVE  IInv'
<1>1. TypeOK'
    BY CacheAssumption DEF IInv, TypeOK, LockHeld, Return, Times
<1>2. LockHeld'
    BY DEF IInv, TypeOK, LockHeld, Return
<1>3. PointsIntoMap'
    BY DEF IInv, TypeOK, PointsIntoMap, Return
<1>4. QED
    BY <1>1, <1>2, <1>3 DEF IInv

\* The inductive invariant: who builds holds entry.mu, and points into the
\* map unless it was dropped (Get).
THEOREM CacheInvariant == SafetySpec => []IInv
<1>1. Init => IInv
    BY CacheAssumption DEF Init, IInv, TypeOK, LockHeld, PointsIntoMap, Times
<1>2. IInv /\ [Next]_vars => IInv'
    <2> SUFFICES ASSUME IInv, [Next]_vars PROVE IInv'
        OBVIOUS
    <2>1. ASSUME NEW c \in Callers, NEW k \in Keys, Lookup(c, k) PROVE IInv'
        BY <2>1, LookupSteps
    <2>2. ASSUME NEW c \in Callers, Hit(c) PROVE IInv'
        <3>1. slot[c] \in Slots /\ value[slot[c]] \in Times
            BY <2>2 DEF Hit, IInv, TypeOK, LockHeld
        <3>2. QED
            BY <2>2, <3>1, ReturnSteps DEF Hit, IInv, TypeOK
    <2>3. ASSUME NEW c \in Callers, Miss(c) PROVE IInv'
        <3>1. slot[c] \in Slots
            BY <2>3 DEF Miss, IInv, LockHeld
        <3>2. TypeOK'
            BY <2>3, <3>1 DEF Miss, IInv, TypeOK
        <3>3. LockHeld'
            BY <2>3, <3>1, CacheAssumption DEF Miss, IInv, TypeOK, LockHeld
        <3>4. PointsIntoMap'
            BY <2>3 DEF Miss, IInv, TypeOK, PointsIntoMap
        <3>5. QED
            BY <3>2, <3>3, <3>4 DEF IInv
    <2>4. ASSUME NEW c \in Callers, BuildReads(c) PROVE IInv'
        <3>1. TypeOK'
            BY <2>4, CacheAssumption DEF BuildReads, IInv, TypeOK, Times
        <3>2. LockHeld' /\ PointsIntoMap'
            BY <2>4 DEF BuildReads, IInv, TypeOK, LockHeld, PointsIntoMap
        <3>3. QED
            BY <3>1, <3>2 DEF IInv
    <2>5. ASSUME NEW c \in Callers, BuildSucceeds(c) PROVE IInv'
        <3>1. slot[c] \in Slots /\ lock[slot[c]] = c /\ pc[c] # "idle"
            BY <2>5 DEF BuildSucceeds, IInv, LockHeld
        <3>2. result[c] \in Times /\ now + TTL \in 0..(MaxTime + TTL)
            BY CacheAssumption DEF IInv, TypeOK, Times
        <3>3. value' \in [Slots -> Times] /\ expiresAt' \in [Slots -> 0..(MaxTime + TTL)]
            BY <2>5, <3>1, <3>2 DEF BuildSucceeds, IInv, TypeOK
        <3> DEFINE l == [lock EXCEPT ![slot[c]] = Nobody]
        <3>4. l \in [Slots -> Callers \cup {Nobody}] /\ \A s \in Slots : l[s] = lock[s] \/ lock[s] = c
            BY <3>1 DEF IInv, TypeOK
        <3>5. Return(c, result[c], l) /\ UNCHANGED <<now, entries>>
            BY <2>5 DEF BuildSucceeds
        <3> HIDE DEF l
        <3>6. QED
            BY <3>1, <3>2, <3>3, <3>4, <3>5, ReturnSteps
    <2>6. ASSUME NEW c \in Callers, BuildFails(c) PROVE IInv'
        <3>1. slot[c] \in Slots /\ lock[slot[c]] = c /\ pc[c] # "idle"
            BY <2>6 DEF BuildFails, IInv, LockHeld
        <3>2. 0 \in Times
            BY CacheAssumption DEF Times
        <3>3. value' \in [Slots -> Times] /\ expiresAt' \in [Slots -> 0..(MaxTime + TTL)]
            BY <2>6 DEF BuildFails, IInv, TypeOK
        <3> DEFINE l == [lock EXCEPT ![slot[c]] = Nobody]
        <3>4. l \in [Slots -> Callers \cup {Nobody}] /\ \A s \in Slots : l[s] = lock[s] \/ lock[s] = c
            BY <3>1 DEF IInv, TypeOK
        <3>5. Return(c, 0, l) /\ UNCHANGED <<now, entries>>
            BY <2>6 DEF BuildFails
        <3> HIDE DEF l
        <3>6. QED
            BY <3>1, <3>2, <3>3, <3>4, <3>5, ReturnSteps
    <2>7. CASE Tick
        BY <2>7, CacheAssumption DEF Tick, IInv, TypeOK, LockHeld, PointsIntoMap
    <2>8. CASE UNCHANGED vars
        BY <2>8 DEF vars, IInv, TypeOK, LockHeld, PointsIntoMap
    <2>9. QED
        BY <2>1, <2>2, <2>3, <2>4, <2>5, <2>6, <2>7, <2>8 DEF Next, Finish
<1>3. QED
    BY <1>1, <1>2, PTL DEF SafetySpec

\* Callers racing on one key share a single computation, unless the map was
\* dropped under one of them (the package's promise, as far as Get keeps it).
THEOREM OneBuildPerKey == SafetySpec => []SingleFlight
<1>1. IInv => SingleFlight
    BY DEF IInv, LockHeld, PointsIntoMap, SingleFlight
<1>2. QED
    BY <1>1, CacheInvariant, PTL

\* A lookup adds an entry that nobody has, or replaces the map and with it
\* what was answered so far.
LEMMA LookupKeepsOrder ==
    ASSUME IInv, ReadOrder, NEW c \in Callers, NEW k \in Keys, Lookup(c, k)
    PROVE  ReadOrder'
<1> DEFINE map == IF Full THEN [x \in Keys |-> NoSlot] ELSE entries
           s == IF Missing(map, k) THEN Fresh(map) ELSE map[k]
           L == IF Full THEN [x \in Keys |-> 0] ELSE latest
<1>1. map \in [Keys -> Slots \cup {NoSlot}] /\ L \in [Keys -> Times] /\ NoSlot \notin Slots
    BY CacheAssumption DEF IInv, TypeOK, Times
<1>2. Fresh(map) \in Slots /\ Unused(map, Fresh(map))
    BY DEF Lookup, Fresh
<1>3. /\ pc[c] = "idle"
      /\ entries' = [map EXCEPT ![k] = s]
      /\ value' = IF Missing(map, k) THEN [value EXCEPT ![s] = 0] ELSE value
      /\ pc' = [pc EXCEPT ![c] = "wait"]
      /\ key' = [key EXCEPT ![c] = k]
      /\ slot' = [slot EXCEPT ![c] = s]
      /\ latest' = L
      /\ floor' = [floor EXCEPT ![c] = latest'[k]]
      /\ dropped' = [x \in Callers |-> x # c /\ pc[x] # "idle" /\ (dropped[x] \/ Full)]
      /\ UNCHANGED <<now, lock, result>>
    BY DEF Lookup
<1>4. /\ s \in Slots
      /\ Missing(map, k) => (\A j \in Keys : map[j] # s) /\ (\A x \in Callers : slot[x] # s)
      /\ ~Missing(map, k) => map[k] = s
    BY <1>1, <1>2 DEF Missing, Unused
<1>5. \A x \in Callers \ {c} :
          /\ pc'[x] = pc[x] /\ key'[x] = key[x] /\ slot'[x] = slot[x] /\ floor'[x] = floor[x]
          /\ dropped'[x] <=> pc[x] # "idle" /\ (dropped[x] \/ Full)
    BY <1>3 DEF IInv, TypeOK
<1>6. /\ pc'[c] = "wait" /\ key'[c] = k /\ slot'[c] = s /\ floor'[c] = L[k] /\ ~dropped'[c]
    BY <1>3 DEF IInv, TypeOK
<1>7. /\ \A j, l \in Keys : map[j] = map[l] /\ map[j] # NoSlot => j = l
      /\ \A x \in Callers : pc[x] # "idle" /\ (dropped[x] \/ Full) => \A j \in Keys : map[j] # slot[x]
      /\ \A j \in Keys : IF map[j] = NoSlot THEN L[j] = 0 ELSE L[j] <= value[map[j]]
    <2>1. CASE Full
        <3>1. \A j \in Keys : map[j] = NoSlot /\ L[j] = 0
            BY <2>1
        <3>2. \A x \in Callers : pc[x] # "idle" => slot[x] \in Slots
            BY DEF IInv, TypeOK, LockHeld
        <3>3. QED
            BY <1>1, <3>1, <3>2
    <2>2. CASE ~Full
        BY <2>2 DEF ReadOrder, EntriesApart, MapIsNewest
    <2>3. QED
        BY <2>1, <2>2
<1>8. ~Full => map = entries /\ L = latest
    OBVIOUS
<1>9. value' \in [Slots -> Times] /\ \A u \in Slots : value'[u] = value[u] \/ (Missing(map, k) /\ u = s /\ value'[u] = 0)
    BY <1>3, <1>4, CacheAssumption DEF IInv, TypeOK, Times
<1> HIDE DEF map, s, L
<1>10. \A j \in Keys : entries'[j] = IF j = k THEN s ELSE map[j]
    BY <1>1, <1>3
<1>11. EntriesApart'
    <2>1. \A j, l \in Keys : entries'[j] = entries'[l] /\ entries'[j] # NoSlot => j = l
        BY <1>4, <1>7, <1>10
    <2>2. ASSUME NEW x \in Callers, pc'[x] # "idle", dropped'[x], NEW j \in Keys
          PROVE  entries'[j] # slot'[x]
        <3>1. x # c /\ pc[x] # "idle" /\ (dropped[x] \/ Full) /\ slot'[x] = slot[x]
            BY <1>5, <1>6, <2>2
        <3>2. \A l \in Keys : map[l] # slot[x]
            BY <1>7, <3>1
        <3>3. s # slot[x]
            BY <1>4, <3>2
        <3>4. QED
            BY <1>10, <3>1, <3>2, <3>3
    <2>3. QED
        BY <2>1, <2>2 DEF EntriesApart
<1>12. MapIsNewest'
    <2>1. SUFFICES ASSUME NEW j \in Keys
                   PROVE  IF entries'[j] = NoSlot THEN L[j] = 0 ELSE L[j] <= value'[entries'[j]]
        BY <1>3 DEF MapIsNewest
    <2>2. CASE j = k /\ Missing(map, k)
        <3>1. map[j] = NoSlot /\ L[j] = 0 /\ entries'[j] = s
            BY <1>7, <1>10, <2>2 DEF Missing
        <3>2. value'[s] \in Nat
            BY <1>4, <1>9, CacheAssumption DEF Times
        <3>3. QED
            BY <1>1, <1>4, <3>1, <3>2
    <2>3. CASE ~(j = k /\ Missing(map, k))
        <3>1. entries'[j] = map[j]
            BY <1>4, <1>10, <2>3
        <3>2. map[j] # NoSlot => map[j] \in Slots /\ value'[map[j]] = value[map[j]]
            BY <1>1, <1>4, <1>9
        <3>3. QED
            BY <1>7, <3>1, <3>2
    <2>4. QED
        BY <2>2, <2>3
<1>13. BuildsInOrder'
    <2>1. now' = now /\ now \in Nat /\ \A u \in Slots : value[u] <= now
        BY <1>3, CacheAssumption DEF IInv, TypeOK, ReadOrder, BuildsInOrder
    <2>2. \A u \in Slots : value'[u] <= now'
        BY <1>9, <2>1
    <2>3. ASSUME NEW x \in Callers, pc'[x] = "built" PROVE value'[slot'[x]] <= result'[x] /\ result'[x] <= now'
        <3>1. x # c /\ pc[x] = "built" /\ slot'[x] = slot[x] /\ result'[x] = result[x]
            BY <1>3, <1>5, <1>6, <2>3
        <3>2. slot[x] \in Slots /\ value[slot[x]] <= result[x] /\ result[x] <= now
            BY <3>1 DEF IInv, LockHeld, ReadOrder, BuildsInOrder
        <3>3. value'[slot[x]] = value[slot[x]]
            BY <1>4, <1>9, <3>2
        <3>4. QED
            BY <2>1, <3>1, <3>2, <3>3
    <2>4. QED
        BY <2>2, <2>3 DEF BuildsInOrder
<1>14. FloorBelow'
    <2>1. SUFFICES ASSUME NEW x \in Callers, pc'[x] # "idle", ~dropped'[x]
                   PROVE  floor'[x] <= L[key'[x]]
        BY <1>3 DEF FloorBelow
    <2>2. CASE x = c
        <3>1. L[k] \in Nat
            BY <1>1, CacheAssumption DEF Times
        <3>2. QED
            BY <1>6, <2>2, <3>1
    <2>3. CASE x # c
        <3>1. pc[x] # "idle" /\ ~dropped[x] /\ ~Full
            BY <1>5, <2>1, <2>3
        <3>2. floor[x] <= latest[key[x]]
            BY <3>1 DEF ReadOrder, FloorBelow
        <3>3. QED
            BY <1>5, <1>8, <2>3, <3>1, <3>2
    <2>4. QED
        BY <2>2, <2>3
<1>15. QED
    BY <1>11, <1>12, <1>13, <1>14 DEF ReadOrder

\* A call that returns gives an answer from the map, which the map keeps.
LEMMA ReturnKeepsOrder ==
    ASSUME IInv, ReadOrder, NEW c \in Callers, NEW v \in Times, NEW l,
           pc[c] # "idle", Return(c, v, l), UNCHANGED <<now, entries>>,
           value' \in [Slots -> Times], \A s \in Slots : value'[s] <= now,
           \A s \in Slots : value'[s] = value[s] \/ (s = slot[c] /\ lock[s] = c /\ value[s] <= value'[s]),
           v <= value'[slot[c]]
    PROVE  ReadOrder'
<1>1. \A x \in Callers \ {c} :
          /\ pc'[x] = pc[x] /\ key'[x] = key[x] /\ slot'[x] = slot[x]
          /\ floor'[x] = floor[x] /\ dropped'[x] = dropped[x] /\ result'[x] = result[x]
    BY DEF Return, IInv, TypeOK
<1>2. pc'[c] = "idle" /\ key[c] \in Keys /\ slot[c] \in Slots
    BY DEF Return, IInv, TypeOK, LockHeld
<1>3. EntriesApart'
    BY <1>1, <1>2 DEF ReadOrder, EntriesApart
<1>4. \A k \in Keys : latest'[k] = latest[k] \/ (k = key[c] /\ ~dropped[c] /\ latest'[k] = v /\ latest[k] <= v)
    <2>1. \A k \in Keys : latest[k] \in Nat
        BY CacheAssumption DEF IInv, TypeOK, Times
    <2>2. latest' = IF dropped[c] \/ latest[key[c]] > v THEN latest ELSE [latest EXCEPT ![key[c]] = v]
        BY DEF Return
    <2>3. v \in Nat
        BY CacheAssumption DEF Times
    <2>4. QED
        BY <1>2, <2>1, <2>2, <2>3 DEF IInv, TypeOK
<1>5. MapIsNewest'
    <2>1. SUFFICES ASSUME NEW k \in Keys
                   PROVE  IF entries[k] = NoSlot THEN latest'[k] = 0 ELSE latest'[k] <= value'[entries[k]]
        BY DEF MapIsNewest
    <2>2. /\ entries[k] = NoSlot => latest[k] = 0
          /\ entries[k] # NoSlot => entries[k] \in Slots /\ latest[k] <= value[entries[k]]
                                    /\ value[entries[k]] <= value'[entries[k]]
                                    /\ value[entries[k]] \in Nat /\ value'[entries[k]] \in Nat
          /\ latest[k] \in Nat
        BY CacheAssumption DEF ReadOrder, MapIsNewest, IInv, TypeOK, Times
    <2>3. CASE latest'[k] = latest[k]
        BY <2>2, <2>3
    <2>4. CASE latest'[k] # latest[k]
        <3>1. k = key[c] /\ ~dropped[c] /\ latest'[k] = v
            BY <1>4, <2>4
        <3>2. entries[k] = slot[c]
            BY <3>1 DEF IInv, PointsIntoMap
        <3>3. QED
            BY <1>2, <3>1, <3>2, CacheAssumption
    <2>5. QED
        BY <2>3, <2>4
<1>6. BuildsInOrder'
    <2>1. ASSUME NEW x \in Callers, pc'[x] = "built" PROVE value'[slot'[x]] <= result'[x] /\ result'[x] <= now'
        <3>1. x # c /\ pc[x] = "built" /\ slot'[x] = slot[x] /\ result'[x] = result[x]
            BY <1>1, <1>2, <2>1
        <3>2. slot[x] \in Slots /\ lock[slot[x]] = x /\ value[slot[x]] <= result[x] /\ result[x] <= now
            BY <3>1 DEF IInv, LockHeld, ReadOrder, BuildsInOrder
        <3>3. QED
            BY <3>1, <3>2
    <2>2. QED
        BY <2>1 DEF BuildsInOrder
<1>7. FloorBelow'
    <2>1. SUFFICES ASSUME NEW x \in Callers, pc'[x] # "idle", ~dropped'[x]
                   PROVE  floor'[x] <= latest'[key'[x]]
        BY DEF FloorBelow
    <2>2. /\ x # c /\ floor'[x] = floor[x] /\ key'[x] = key[x] /\ key[x] \in Keys
          /\ floor[x] <= latest[key[x]] /\ floor[x] \in Nat /\ latest[key[x]] \in Nat /\ v \in Nat
        BY <1>1, <1>2, <2>1, CacheAssumption DEF ReadOrder, FloorBelow, IInv, TypeOK, LockHeld, Times
    <2>3. QED
        BY <1>4, <2>2
<1>8. QED
    BY <1>3, <1>5, <1>6, <1>7 DEF ReadOrder

\* The answers of one key and the payload of its entry only get newer, until
\* the map is dropped (Get).
THEOREM CacheReadOrder == SafetySpec => []ReadOrder
<1>1. Init => ReadOrder
    BY CacheAssumption DEF Init, ReadOrder, EntriesApart, MapIsNewest, BuildsInOrder, FloorBelow
<1>2. IInv /\ ReadOrder /\ [Next]_vars => ReadOrder'
    <2> SUFFICES ASSUME IInv, ReadOrder, [Next]_vars PROVE ReadOrder'
        OBVIOUS
    <2>0. \A s \in Slots : value[s] \in Nat /\ value[s] <= now /\ now \in Nat
        BY CacheAssumption DEF IInv, TypeOK, Times, ReadOrder, BuildsInOrder
    <2>1. ASSUME NEW c \in Callers, NEW k \in Keys, Lookup(c, k) PROVE ReadOrder'
        BY <2>1, LookupKeepsOrder
    <2>2. ASSUME NEW c \in Callers, Hit(c) PROVE ReadOrder'
        <3>1. /\ slot[c] \in Slots /\ value[slot[c]] \in Times /\ pc[c] # "idle"
              /\ Return(c, value[slot[c]], lock) /\ UNCHANGED <<now, entries, value>>
            BY <2>2 DEF Hit, IInv, TypeOK, LockHeld
        <3>2. /\ value' \in [Slots -> Times]
              /\ \A s \in Slots : value'[s] <= now /\ value'[s] = value[s]
              /\ value[slot[c]] <= value'[slot[c]]
            BY <2>0, <3>1 DEF IInv, TypeOK
        <3>3. QED
            BY <3>1, <3>2, ReturnKeepsOrder
    <2>3. ASSUME NEW c \in Callers, Miss(c) PROVE ReadOrder'
        BY <2>3 DEF Miss, IInv, TypeOK, ReadOrder, EntriesApart, MapIsNewest, BuildsInOrder, FloorBelow
    <2>4. ASSUME NEW c \in Callers, BuildReads(c) PROVE ReadOrder'
        <3>1. slot[c] \in Slots
            BY <2>4 DEF BuildReads, IInv, LockHeld
        <3>2. BuildsInOrder'
            BY <2>0, <2>4, <3>1 DEF BuildReads, IInv, TypeOK, ReadOrder, BuildsInOrder
        <3>3. EntriesApart' /\ MapIsNewest' /\ FloorBelow'
            BY <2>4 DEF BuildReads, IInv, TypeOK, ReadOrder, EntriesApart, MapIsNewest, FloorBelow
        <3>4. QED
            BY <3>2, <3>3 DEF ReadOrder
    <2>5. ASSUME NEW c \in Callers, BuildSucceeds(c) PROVE ReadOrder'
        <3>1. /\ slot[c] \in Slots /\ lock[slot[c]] = c /\ pc[c] # "idle" /\ result[c] \in Times
              /\ value[slot[c]] <= result[c]
              /\ Return(c, result[c], [lock EXCEPT ![slot[c]] = Nobody]) /\ UNCHANGED <<now, entries>>
              /\ value' = [value EXCEPT ![slot[c]] = result[c]]
            BY <2>5 DEF BuildSucceeds, IInv, TypeOK, LockHeld, ReadOrder, BuildsInOrder
        <3>2. result[c] <= now /\ result[c] \in Nat
            BY <2>5, CacheAssumption DEF BuildSucceeds, IInv, TypeOK, Times, ReadOrder, BuildsInOrder
        <3>3. /\ value' \in [Slots -> Times]
              /\ \A s \in Slots : value'[s] = IF s = slot[c] THEN result[c] ELSE value[s]
            BY <3>1 DEF IInv, TypeOK
        <3>4. /\ \A s \in Slots : value'[s] <= now
              /\ \A s \in Slots : value'[s] = value[s] \/ (s = slot[c] /\ lock[s] = c /\ value[s] <= value'[s])
              /\ result[c] <= value'[slot[c]]
            BY <2>0, <3>1, <3>2, <3>3
        <3>5. QED
            BY <3>1, <3>3, <3>4, ReturnKeepsOrder
    <2>6. ASSUME NEW c \in Callers, BuildFails(c) PROVE ReadOrder'
        <3>1. /\ slot[c] \in Slots /\ pc[c] # "idle"
              /\ Return(c, 0, [lock EXCEPT ![slot[c]] = Nobody]) /\ UNCHANGED <<now, entries, value>>
            BY <2>6 DEF BuildFails, IInv, LockHeld
        <3>2. /\ value' \in [Slots -> Times] /\ 0 \in Times
              /\ \A s \in Slots : value'[s] <= now /\ value'[s] = value[s]
              /\ 0 <= value'[slot[c]]
            BY <2>0, <3>1, CacheAssumption DEF IInv, TypeOK, Times
        <3>3. QED
            BY <3>1, <3>2, ReturnKeepsOrder
    <2>7. CASE Tick
        <3>a. now \in Nat /\ \A c \in Callers : result[c] \in Nat
            BY CacheAssumption DEF IInv, TypeOK, Times
        <3>1. /\ now' = now + 1 /\ \A s \in Slots : value[s] <= now'
              /\ \A c \in Callers : result[c] <= now => result[c] <= now'
            BY <2>0, <2>7, <3>a DEF Tick
        <3>2. QED
            BY <2>7, <3>1 DEF Tick, ReadOrder, EntriesApart, MapIsNewest, BuildsInOrder, FloorBelow
    <2>8. CASE UNCHANGED vars
        BY <2>8 DEF vars, ReadOrder, EntriesApart, MapIsNewest, BuildsInOrder, FloorBelow
    <2>9. QED
        BY <2>1, <2>2, <2>3, <2>4, <2>5, <2>6, <2>7, <2>8 DEF Next, Finish
<1>3. QED
    BY <1>1, <1>2, CacheInvariant, PTL DEF SafetySpec

\* A call never answers with older numbers than a call of the same key that had
\* returned before it began, unless the map was dropped meanwhile.
THEOREM AnswersInOrder == SafetySpec => []ReadsNeverGoBack
<1>1. IInv /\ ReadOrder => ReadsNeverGoBack
    <2> SUFFICES ASSUME IInv, ReadOrder, NEW c \in Callers, ~dropped[c], pc[c] \in {"wait", "built"}
                 PROVE  /\ pc[c] = "built" => result[c] >= floor[c]
                        /\ value[slot[c]] >= floor[c]
        BY DEF ReadsNeverGoBack
    <2>1. key[c] \in Keys /\ slot[c] \in Slots /\ entries[key[c]] = slot[c] /\ NoSlot \notin Slots
        BY CacheAssumption DEF IInv, LockHeld, PointsIntoMap
    <2>2. floor[c] <= latest[key[c]] /\ latest[key[c]] <= value[slot[c]]
        BY <2>1 DEF ReadOrder, FloorBelow, MapIsNewest
    <2>3. floor[c] \in Nat /\ latest[key[c]] \in Nat /\ value[slot[c]] \in Nat /\ result[c] \in Nat
        BY <2>1, CacheAssumption DEF IInv, TypeOK, Times
    <2>4. pc[c] = "built" => value[slot[c]] <= result[c]
        BY DEF ReadOrder, BuildsInOrder
    <2>5. QED
        BY <2>2, <2>3, <2>4
<1>2. QED
    BY <1>1, CacheInvariant, CacheReadOrder, PTL

-----------------------------------------------------------------------------
(* The stream: each event is followed from its INSERT to what the client   *)
(* sees.  One lemma per action.                                            *)

\* A step that leaves the connection d as it is.
SameConn(d) ==
    /\ d \in subs' <=> d \in subs
    /\ buf'[d] = buf[d] /\ sub'[d] = sub[d] /\ fits'[d] = fits[d] /\ pending'[d] = pending[d]
    /\ reader'[d] = reader[d] /\ loop'[d] = loop[d]
    /\ view'[d] = view[d] /\ lost'[d] = lost[d]

\* The types of one connection.
LEMMA ConnTypes ==
    ASSUME StreamIInv, NEW c \in Conns
    PROVE  /\ buf[c] \in Seq(0..MaxEvents) /\ ingested \in Nat /\ MaxEvents \in Nat /\ ingested <= MaxEvents
           /\ sub[c] \subseteq Channels /\ fits[c] \subseteq Ingests
           /\ pending[c] \in Pending /\ pending[c].marks \subseteq Channels /\ pending[c].row \in Nat
           /\ reader[c] \in Reader /\ reader[c].todo \subseteq Channels /\ reader[c].val \in Nat
           /\ loop[c] \in Loop /\ loop[c].work \subseteq Channels /\ loop[c].row \in Nat /\ loop[c].val \in Nat
           /\ view[c] \in [Channels -> 0..MaxEvents] /\ \A ch \in Channels : view[c][ch] \in Nat
           /\ lost[c] \in BOOLEAN
<1>1. ingested \in Nat /\ MaxEvents \in Nat /\ ingested <= MaxEvents
    BY StreamAssumption DEF StreamIInv, StreamTypeOK
<1>2. buf[c] \in Seq(0..MaxEvents) /\ sub[c] \subseteq Channels /\ fits[c] \subseteq Ingests /\ lost[c] \in BOOLEAN
    BY DEF StreamIInv, StreamTypeOK
<1>3. pending[c] \in Pending /\ reader[c] \in Reader /\ loop[c] \in Loop
    BY DEF StreamIInv, StreamTypeOK
<1>4. view[c] \in [Channels -> 0..MaxEvents]
    BY DEF StreamIInv, StreamTypeOK
<1>5. \A ch \in Channels : view[c][ch] \in Nat
    BY <1>1, <1>4
<1>6. pending[c].marks \subseteq Channels /\ pending[c].row \in Nat
    BY <1>1, <1>3 DEF Pending
<1>7. reader[c].todo \subseteq Channels /\ reader[c].val \in Nat
    BY <1>1, <1>3 DEF Reader
<1>8. loop[c].work \subseteq Channels /\ loop[c].row \in Nat /\ loop[c].val \in Nat
    BY <1>1, <1>3 DEF Loop
<1>9. QED
    BY <1>1, <1>2, <1>3, <1>4, <1>5, <1>6, <1>7, <1>8

\* A step of one connection disturbs that one only.
LEMMA OneConnection ==
    ASSUME StreamIInv, NEW c \in Conns, UNCHANGED <<ingested, ingest>>,
           \A d \in Conns \ {c} : SameConn(d),
           StreamTypeOK', NothingAhead(c)', LoopOfConnection(c)', EveryEventComing(c)'
    PROVE  StreamIInv'
<1>1. IngestsInOrder'
    BY DEF StreamIInv, IngestsInOrder
<1>2. ASSUME NEW d \in Conns, d # c
      PROVE  NothingAhead(d)' /\ LoopOfConnection(d)' /\ EveryEventComing(d)'
    <2>1. SameConn(d) /\ NothingAhead(d) /\ LoopOfConnection(d) /\ EveryEventComing(d)
        BY <1>2 DEF StreamIInv
    <2>2. NothingAhead(d)'
        BY <2>1 DEF SameConn, NothingAhead
    <2>3. LoopOfConnection(d)'
        BY <2>1 DEF SameConn, LoopOfConnection, Connected
    <2>4. EveryEventComing(d)'
        <3>1. \A ch, i : Awaited(d, ch, i)' <=> Awaited(d, ch, i)
            BY <2>1 DEF SameConn, Awaited
        <3>2. \A ch \in sub[d], i \in 1..ingested : Coming(d, ch, i) => Coming(d, ch, i)'
            BY <2>1 DEF SameConn, Coming, Awaited, InSnapshot, InHub, Noted, InFlush
        <3>3. QED
            BY <2>1, <3>1, <3>2 DEF SameConn, EveryEventComing, Connected
    <2>5. QED
        BY <2>2, <2>3, <2>4
<1>3. QED
    BY <1>1, <1>2 DEF StreamIInv

\* The reader's steps before and after the connection's life, and the end of the ping loop.
LEMMA OpenSteps ==
    ASSUME StreamIInv, NEW c \in Conns, Open(c)
    PROVE  StreamIInv'
<1>1. \A d \in Conns \ {c} : SameConn(d)
    BY DEF Open, SameConn, StreamIInv, StreamTypeOK, hubVars
<1>2. /\ reader'[c] = Resting("read") /\ loop'[c] = Selecting("start")
      /\ sub'[c] = {} /\ pending'[c] = NoPending
      /\ UNCHANGED <<subs, buf, ingested, ingest, view, lost>>
    BY DEF Open, StreamIInv, StreamTypeOK, hubVars
<1>3. StreamTypeOK'
    <2>1. Resting("read") \in Reader /\ Selecting("start") \in Loop /\ NoPending \in Pending
        BY StreamAssumption DEF Resting, MkReader, Reader, Selecting, MkLoop, Loop, NoPending, Pending, Channels
    <2>2. fits' \in [Conns -> SUBSET Ingests]
        BY DEF Open, StreamIInv, StreamTypeOK
    <2>3. QED
        BY <2>1, <2>2 DEF Open, StreamIInv, StreamTypeOK, hubVars
<1>4. NothingAhead(c)'
    BY <1>2, ConnTypes DEF StreamIInv, NothingAhead, Resting, MkReader, Selecting, MkLoop, NoPending
<1>5. LoopOfConnection(c)'
    BY <1>2 DEF Open, StreamIInv, LoopOfConnection, Resting, MkReader, Selecting, MkLoop
<1>6. EveryEventComing(c)'
    BY <1>2 DEF EveryEventComing
<1>7. QED
    BY <1>1, <1>2, <1>3, <1>4, <1>5, <1>6, OneConnection

LEMMA CloseSteps ==
    ASSUME StreamIInv, NEW c \in Conns, Close(c)
    PROVE  StreamIInv'
<1>1. \A d \in Conns \ {c} : SameConn(d)
    BY DEF Close, SameConn, StreamIInv, StreamTypeOK, hubVars
<1>2. /\ reader'[c] = Resting("closed") /\ loop[c].pc = "done"
      /\ sub'[c] = {} /\ pending'[c] = NoPending
      /\ UNCHANGED <<subs, buf, ingested, ingest, view, loop, lost>>
    BY DEF Close, StreamIInv, StreamTypeOK, hubVars
<1>3. StreamTypeOK'
    <2>1. Resting("closed") \in Reader /\ NoPending \in Pending
        BY StreamAssumption DEF Resting, MkReader, Reader, NoPending, Pending, Channels
    <2>2. QED
        BY <2>1 DEF Close, StreamIInv, StreamTypeOK, hubVars
<1>4. NothingAhead(c)'
    BY <1>2, ConnTypes DEF StreamIInv, NothingAhead, Resting, MkReader, NoPending
<1>5. LoopOfConnection(c)'
    BY <1>2 DEF StreamIInv, LoopOfConnection, Resting, MkReader, Connected
<1>6. EveryEventComing(c)'
    BY <1>2 DEF EveryEventComing
<1>7. QED
    BY <1>1, <1>2, <1>3, <1>4, <1>5, <1>6, OneConnection

LEMMA ReadLoopReturnsSteps ==
    ASSUME StreamIInv, NEW c \in Conns, ReadLoopReturns(c)
    PROVE  StreamIInv'
<1>1. \A d \in Conns \ {c} : SameConn(d)
    BY DEF ReadLoopReturns, SameConn, StreamIInv, StreamTypeOK, hubVars
<1>2. /\ reader'[c] = Resting("wait") /\ view'[c] = NoView
      /\ UNCHANGED <<subs, buf, ingested, ingest, sub, fits, pending, loop>>
    BY DEF ReadLoopReturns, StreamIInv, StreamTypeOK, hubVars
<1>3. StreamTypeOK'
    <2>1. Resting("wait") \in Reader /\ NoView \in [Channels -> 0..MaxEvents]
        BY StreamAssumption DEF Resting, MkReader, Reader, NoView, Channels
    <2>2. QED
        BY <2>1 DEF ReadLoopReturns, StreamIInv, StreamTypeOK, hubVars
<1>4. NothingAhead(c)'
    BY <1>2, ConnTypes DEF StreamIInv, NothingAhead, Resting, MkReader, NoView
<1>5. LoopOfConnection(c)'
    BY <1>2 DEF StreamIInv, LoopOfConnection, Resting, MkReader, Connected
<1>6. EveryEventComing(c)'
    BY <1>2 DEF EveryEventComing, Connected, Resting, MkReader
<1>7. QED
    BY <1>1, <1>2, <1>3, <1>4, <1>5, <1>6, OneConnection

LEMMA PingLoopReturnsSteps ==
    ASSUME StreamIInv, NEW c \in Conns, PingLoopReturns(c)
    PROVE  StreamIInv'
<1>1. UNCHANGED <<subs, buf, ingested, ingest, sub, fits, pending, reader, loop, view, lost>>
    BY DEF PingLoopReturns, hubVars
<1>2. StreamTypeOK'
    BY DEF PingLoopReturns, StreamIInv, StreamTypeOK, hubVars
<1>3. \A d \in Conns \ {c} : SameConn(d)
    BY <1>1 DEF SameConn
<1>4. NothingAhead(c)' /\ LoopOfConnection(c)'
    BY <1>1 DEF StreamIInv, NothingAhead, LoopOfConnection, Connected
<1>5. EveryEventComing(c)'
    BY <1>1 DEF StreamIInv, EveryEventComing, Connected, Awaited, Coming, Awaited, InSnapshot, InHub, Noted, InFlush
<1>6. QED
    BY <1>1, <1>2, <1>3, <1>4, <1>5, OneConnection

\* What is coming to a connection that the step leaves subscribed stays coming if
\* only the reader has moved: handleSubscribe, which owes snapshots of everything
\* it adds ...
LEMMA HandleSubscribeSteps ==
    ASSUME StreamIInv, NEW c \in Conns, NEW chs \in Asks, HandleSubscribe(c, chs)
    PROVE  StreamIInv'
<1>1. \A d \in Conns \ {c} : SameConn(d)
    BY DEF HandleSubscribe, SameConn, StreamIInv, StreamTypeOK, hubVars
<1>2. /\ reader'[c] = [reader[c] EXCEPT !.todo = chs] /\ reader[c] \in Reader
      /\ reader[c].pc = "read" /\ reader[c].todo = {}
      /\ sub'[c] = sub[c] \cup chs
      /\ UNCHANGED <<subs, buf, ingested, ingest, fits, pending, loop, view, lost>>
    BY DEF HandleSubscribe, StreamIInv, StreamTypeOK, hubVars
<1>3. /\ reader'[c].pc = "read" /\ reader'[c].todo = chs /\ reader'[c].val = reader[c].val
      /\ chs \subseteq Channels
    BY <1>2, StreamAssumption DEF Reader
<1>4. StreamTypeOK'
    <2>1. reader' \in [Conns -> Reader]
        <3>1. [reader[c] EXCEPT !.todo = chs] \in Reader
            BY <1>2, <1>3 DEF Reader
        <3>2. QED
            BY <3>1 DEF HandleSubscribe, StreamIInv, StreamTypeOK
    <2>2. sub' \in [Conns -> SUBSET Channels]
        BY <1>3 DEF HandleSubscribe, StreamIInv, StreamTypeOK
    <2>3. QED
        BY <2>1, <2>2 DEF HandleSubscribe, StreamIInv, StreamTypeOK, hubVars
<1>5. NothingAhead(c)' /\ LoopOfConnection(c)'
    BY <1>2, <1>3 DEF StreamIInv, NothingAhead, LoopOfConnection, Connected
<1>6. EveryEventComing(c)'
    <2>1. SUFFICES ASSUME Connected(c)', ~lost'[c], NEW ch \in sub'[c], NEW i \in 1..ingested',
                          Awaited(c, ch, i)'
                   PROVE  Coming(c, ch, i)'
        BY DEF EveryEventComing
    <2>2. CASE ch \in chs
        BY <1>3, <2>2 DEF Coming, InSnapshot
    <2>3. CASE ch \notin chs
        <3>1. Coming(c, ch, i) /\ ~InSnapshot(c, ch, i)
            BY <1>2, <2>1, <2>3 DEF StreamIInv, EveryEventComing, Connected, Awaited, InSnapshot
        <3>2. QED
            BY <1>2, <3>1 DEF Coming, Awaited, InHub, Noted, InFlush
    <2>4. QED
        BY <2>2, <2>3
<1>7. QED
    BY <1>1, <1>2, <1>4, <1>5, <1>6, OneConnection

LEMMA ChangeParamsSteps ==
    ASSUME StreamIInv, NEW c \in Conns, NEW chs \in Asks, NEW f \in SUBSET Ingests, ChangeParams(c, chs, f)
    PROVE  StreamIInv'
<1> DEFINE seen == [ch \in Channels |-> IF ch \in Filtered THEN 0 ELSE view[c][ch]]
           left == [loop[c] EXCEPT !.old = (loop[c].work # {}),
                                   !.val = IF loop[c].ch \in Filtered THEN 0 ELSE @]
<1>1. \A d \in Conns \ {c} : SameConn(d)
    BY DEF ChangeParams, SameConn, StreamIInv, StreamTypeOK, hubVars
<1>2. /\ reader'[c] = [reader[c] EXCEPT !.todo = chs] /\ reader[c] \in Reader
      /\ reader[c].pc = "read" /\ reader[c].todo = {} /\ sub'[c] = sub[c] \cup chs
      /\ loop'[c] = left /\ loop[c] \in Loop
      /\ view'[c] = seen /\ lost'[c] = (lost[c] \/ (Filtered \cap sub[c]) \ chs # {})
      /\ UNCHANGED <<subs, buf, ingested, ingest, pending>>
    BY DEF ChangeParams, StreamIInv, StreamTypeOK, hubVars
<1>3. /\ reader'[c].pc = "read" /\ reader'[c].todo = chs /\ reader'[c].val = reader[c].val
      /\ chs \subseteq Channels
      /\ loop'[c].pc = loop[c].pc /\ loop'[c].row = loop[c].row /\ loop'[c].work = loop[c].work
      /\ loop'[c].ch = loop[c].ch /\ loop'[c].val \in {0, loop[c].val}
      /\ loop[c].ch \notin Filtered => loop'[c].val = loop[c].val
    BY <1>2, StreamAssumption DEF Reader, Loop
<1>4. StreamTypeOK'
    <2>1. reader' \in [Conns -> Reader]
        <3>1. [reader[c] EXCEPT !.todo = chs] \in Reader
            BY <1>2, <1>3 DEF Reader
        <3>2. QED
            BY <3>1 DEF ChangeParams, StreamIInv, StreamTypeOK
    <2>2. loop' \in [Conns -> Loop]
        <3>1. 0 \in 0..MaxEvents
            BY StreamAssumption
        <3>2. left \in Loop
            BY <1>2, <3>1 DEF Loop
        <3>3. loop' = [loop EXCEPT ![c] = left]
            BY DEF ChangeParams, StreamIInv, StreamTypeOK
        <3>4. QED
            BY <3>2, <3>3 DEF StreamIInv, StreamTypeOK
    <2>3. sub' \in [Conns -> SUBSET Channels]
        BY <1>3 DEF ChangeParams, StreamIInv, StreamTypeOK
    <2>4. view' \in [Conns -> [Channels -> 0..MaxEvents]]
        <3>1. seen \in [Channels -> 0..MaxEvents]
            BY ConnTypes
        <3>2. QED
            BY <3>1 DEF ChangeParams, StreamIInv, StreamTypeOK
    <2>5. fits' \in [Conns -> SUBSET Ingests]
        BY DEF ChangeParams, StreamIInv, StreamTypeOK
    <2>6. lost' \in [Conns -> BOOLEAN]
        BY DEF ChangeParams, StreamIInv, StreamTypeOK
    <2>7. QED
        BY <2>1, <2>2, <2>3, <2>4, <2>5, <2>6 DEF ChangeParams, StreamIInv, StreamTypeOK, hubVars
<1> HIDE DEF left
<1>5. NothingAhead(c)'
    <2>1. ingested \in Nat /\ \A ch \in Channels : seen[ch] <= ingested
        BY ConnTypes DEF StreamIInv, NothingAhead
    <2> HIDE DEF seen
    <2>2. QED
        BY <1>2, <1>3, <2>1 DEF StreamIInv, NothingAhead
<1>6. LoopOfConnection(c)'
    BY <1>2, <1>3 DEF StreamIInv, LoopOfConnection
<1>7. EveryEventComing(c)'
    <2>1. SUFFICES ASSUME Connected(c)', ~lost'[c], NEW ch \in sub'[c], NEW i \in 1..ingested',
                          Awaited(c, ch, i)'
                   PROVE  Coming(c, ch, i)'
        BY DEF EveryEventComing
    <2>2. CASE ch \in chs
        BY <1>3, <2>2 DEF Coming, InSnapshot
    <2>3. CASE ch \notin chs
        <3>1. ch \in sub[c] /\ ch = "clients" /\ ch \notin Filtered
            BY <1>2, <2>1, <2>3, ConnTypes DEF Channels, Filtered
        <3>2. Coming(c, ch, i) /\ ~InSnapshot(c, ch, i)
            BY <1>2, <2>1, <3>1 DEF StreamIInv, EveryEventComing, Connected, Awaited, InSnapshot
        <3>3. view'[c][ch] = view[c][ch]
            BY <1>2, <3>1 DEF Channels
        <3>4. InHub(c, ch, i) => InHub(c, ch, i)'
            BY <1>2, <3>1 DEF InHub, Awaited
        <3>5. InFlush(c, ch, i) => InFlush(c, ch, i)'
            BY <1>3, <3>1 DEF InFlush
        <3>6. QED
            BY <1>2, <3>2, <3>3, <3>4, <3>5 DEF Coming, Noted
    <2>4. QED
        BY <2>2, <2>3
<1>8. QED
    BY <1>1, <1>2, <1>4, <1>5, <1>6, <1>7, OneConnection

LEMMA HandleUnsubscribeSteps ==
    ASSUME StreamIInv, NEW c \in Conns, NEW chs \in Asks, HandleUnsubscribe(c, chs)
    PROVE  StreamIInv'
<1> DEFINE seen == [ch \in Channels |-> IF ch \in chs THEN 0 ELSE view[c][ch]]
<1>1. \A d \in Conns \ {c} : SameConn(d)
    BY DEF HandleUnsubscribe, SameConn, StreamIInv, StreamTypeOK, hubVars
<1>2. /\ sub'[c] = sub[c] \ chs
      /\ view'[c] = seen
      /\ UNCHANGED <<subs, buf, ingested, ingest, fits, pending, reader, loop, lost>>
    BY DEF HandleUnsubscribe, StreamIInv, StreamTypeOK, hubVars
<1>3. seen \in [Channels -> 0..MaxEvents] /\ \A ch \in Channels : seen[ch] <= ingested
    BY ConnTypes DEF StreamIInv, NothingAhead
<1>4. StreamTypeOK'
    <2>1. view' \in [Conns -> [Channels -> 0..MaxEvents]]
        BY <1>3 DEF HandleUnsubscribe, StreamIInv, StreamTypeOK
    <2>2. QED
        BY <2>1 DEF HandleUnsubscribe, StreamIInv, StreamTypeOK, hubVars
<1>5. NothingAhead(c)' /\ LoopOfConnection(c)'
    <2> HIDE DEF seen
    <2> QED
        BY <1>2, <1>3 DEF StreamIInv, NothingAhead, LoopOfConnection, Connected
<1>6. EveryEventComing(c)'
    <2>1. SUFFICES ASSUME Connected(c)', ~lost'[c], NEW ch \in sub'[c], NEW i \in 1..ingested',
                          Awaited(c, ch, i)'
                   PROVE  Coming(c, ch, i)'
        BY DEF EveryEventComing
    <2>2. Coming(c, ch, i) /\ ch \in Channels \ chs
        BY <1>2, <2>1, ConnTypes DEF StreamIInv, EveryEventComing, Connected, Awaited
    <2>3. view'[c][ch] = view[c][ch]
        BY <1>2, <2>2
    <2>4. QED
        BY <1>2, <2>2, <2>3 DEF Coming, Awaited, InSnapshot, InHub, Noted, InFlush
<1>7. QED
    BY <1>1, <1>2, <1>4, <1>5, <1>6, OneConnection

\* ... sendSnapshot's query, which reads every event there is, its failure ...
LEMMA SnapshotFetchSteps ==
    ASSUME StreamIInv, NEW c \in Conns, NEW ch \in Channels, SnapshotFetch(c, ch)
    PROVE  StreamIInv'
<1>1. \A d \in Conns \ {c} : SameConn(d)
    BY DEF SnapshotFetch, SameConn, StreamIInv, StreamTypeOK, hubVars
<1>2. /\ reader'[c] = MkReader("send", reader[c].todo \ {ch}, ch, ingested)
      /\ reader[c].pc = "read"
      /\ UNCHANGED <<subs, buf, ingested, ingest, sub, fits, pending, loop, view, lost>>
    BY DEF SnapshotFetch, StreamIInv, StreamTypeOK, hubVars
<1>3. /\ reader'[c].pc = "send" /\ reader'[c].todo = reader[c].todo \ {ch}
      /\ reader'[c].ch = ch /\ reader'[c].val = ingested /\ ingested \in 0..MaxEvents
    BY <1>2 DEF MkReader, StreamIInv, StreamTypeOK
<1>4. StreamTypeOK'
    <2>1. MkReader("send", reader[c].todo \ {ch}, ch, ingested) \in Reader
        BY <1>3, ConnTypes DEF MkReader, Reader
    <2>2. QED
        BY <2>1 DEF SnapshotFetch, StreamIInv, StreamTypeOK, hubVars
<1>5. NothingAhead(c)' /\ LoopOfConnection(c)'
    BY <1>2, <1>3 DEF StreamIInv, NothingAhead, LoopOfConnection, Connected
<1>6. EveryEventComing(c)'
    <2>1. SUFFICES ASSUME Connected(c)', ~lost'[c], NEW x \in sub'[c], NEW i \in 1..ingested',
                          Awaited(c, x, i)'
                   PROVE  Coming(c, x, i)'
        BY DEF EveryEventComing
    <2>2. Coming(c, x, i)
        BY <1>2, <2>1 DEF StreamIInv, EveryEventComing, Connected, Awaited
    <2>3. InSnapshot(c, x, i) => InSnapshot(c, x, i)'
        BY <1>2, <1>3 DEF InSnapshot
    <2>4. QED
        BY <1>2, <2>2, <2>3 DEF Coming, Awaited, InHub, Noted, InFlush
<1>7. QED
    BY <1>1, <1>2, <1>4, <1>5, <1>6, OneConnection

LEMMA SnapshotFailsSteps ==
    ASSUME StreamIInv, NEW c \in Conns, NEW ch \in Channels, SnapshotFails(c, ch)
    PROVE  StreamIInv'
<1>1. \A d \in Conns \ {c} : SameConn(d)
    BY DEF SnapshotFails, SameConn, StreamIInv, StreamTypeOK, hubVars
<1>2. /\ reader'[c] = [reader[c] EXCEPT !.todo = @ \ {ch}] /\ reader[c] \in Reader
      /\ reader[c].pc = "read" /\ lost'[c] = TRUE
      /\ UNCHANGED <<subs, buf, ingested, ingest, sub, fits, pending, loop, view>>
    BY DEF SnapshotFails, StreamIInv, StreamTypeOK, hubVars
<1>3. reader'[c].pc = "read" /\ reader'[c].val = reader[c].val
    BY <1>2 DEF Reader
<1>4. StreamTypeOK'
    <2>1. [reader[c] EXCEPT !.todo = @ \ {ch}] \in Reader
        BY <1>2 DEF Reader
    <2>2. QED
        BY <2>1 DEF SnapshotFails, StreamIInv, StreamTypeOK, hubVars
<1>5. NothingAhead(c)' /\ LoopOfConnection(c)' /\ EveryEventComing(c)'
    BY <1>2, <1>3 DEF StreamIInv, NothingAhead, LoopOfConnection, EveryEventComing
<1>6. QED
    BY <1>1, <1>2, <1>4, <1>5, OneConnection

\* What Deliver makes of the view: it never goes down without counting as a loss.
LEMMA DeliverKeeps ==
    ASSUME StreamIInv, NEW c \in Conns, NEW ch \in Channels, NEW val \in 0..MaxEvents,
           val <= ingested, Deliver(c, ch, val)
    PROVE  /\ view' \in [Conns -> [Channels -> 0..MaxEvents]] /\ lost' \in [Conns -> BOOLEAN]
           /\ \A d \in Conns \ {c} : view'[d] = view[d] /\ lost'[d] = lost[d]
           /\ \A x \in Channels : view'[c][x] <= ingested
           /\ lost[c] => lost'[c]
           /\ ~lost'[c] => \A x \in Channels : view[c][x] <= view'[c][x]
           /\ Connected(c) /\ ch \in sub[c] => view'[c][ch] = val
<1> DEFINE heard == Connected(c) /\ ch \in sub[c]
<1>1. /\ view' = [view EXCEPT ![c] = [view[c] EXCEPT ![ch] = IF heard THEN val ELSE view[c][ch]]]
      /\ lost' = [lost EXCEPT ![c] = lost[c] \/ (heard /\ val < view[c][ch])]
    BY DEF Deliver, StreamIInv, StreamTypeOK
<1>2. /\ view \in [Conns -> [Channels -> 0..MaxEvents]] /\ lost \in [Conns -> BOOLEAN]
      /\ \A x \in Channels : view[c][x] <= ingested /\ view[c][x] \in Nat
    BY ConnTypes DEF StreamIInv, StreamTypeOK, NothingAhead
<1> HIDE DEF heard
<1>3. /\ view'[c] = [view[c] EXCEPT ![ch] = IF heard THEN val ELSE view[c][ch]]
      /\ lost'[c] = (lost[c] \/ (heard /\ val < view[c][ch]))
      /\ \A d \in Conns \ {c} : view'[d] = view[d] /\ lost'[d] = lost[d]
    BY <1>1, <1>2
<1>4. view'[c] \in [Channels -> 0..MaxEvents]
    BY <1>2, <1>3
<1>5. view' \in [Conns -> [Channels -> 0..MaxEvents]] /\ lost' \in [Conns -> BOOLEAN]
    BY <1>1, <1>2, <1>3, <1>4
<1>6. /\ view'[c][ch] = IF heard THEN val ELSE view[c][ch]
      /\ \A x \in Channels \ {ch} : view'[c][x] = view[c][x]
    BY <1>2, <1>3
<1>7. val \in Nat
    BY ConnTypes
<1>8. \A x \in Channels : view'[c][x] <= ingested
    BY <1>2, <1>6
<1>9. ~lost'[c] => \A x \in Channels : view[c][x] <= view'[c][x]
    <2>1. SUFFICES ASSUME ~lost'[c], NEW x \in Channels PROVE view[c][x] <= view'[c][x]
        OBVIOUS
    <2>2. heard => ~(val < view[c][ch])
        BY <1>3, <2>1
    <2>3. CASE x = ch
        BY <1>2, <1>6, <1>7, <2>2, <2>3
    <2>4. CASE x # ch
        BY <1>2, <1>6, <2>4
    <2>5. QED
        BY <2>3, <2>4
<1>10. QED
    BY <1>3, <1>5, <1>6, <1>8, <1>9 DEF heard

\* ... and its send.
LEMMA SnapshotSendSteps ==
    ASSUME StreamIInv, NEW c \in Conns, SnapshotSend(c)
    PROVE  StreamIInv'
<1> DEFINE ch == reader[c].ch
           val == reader[c].val
<1>1. ch \in Channels /\ val \in 0..MaxEvents /\ val <= ingested /\ Deliver(c, ch, val) /\ val \in Nat
    BY ConnTypes DEF SnapshotSend, StreamIInv, NothingAhead, Reader
<1>2. /\ view' \in [Conns -> [Channels -> 0..MaxEvents]] /\ lost' \in [Conns -> BOOLEAN]
      /\ \A d \in Conns \ {c} : view'[d] = view[d] /\ lost'[d] = lost[d]
      /\ \A x \in Channels : view'[c][x] <= ingested
      /\ lost[c] => lost'[c]
      /\ ~lost'[c] => \A x \in Channels : view[c][x] <= view'[c][x]
      /\ Connected(c) /\ ch \in sub[c] => view'[c][ch] = val
    BY <1>1, DeliverKeeps
<1>3. /\ reader'[c] = MkReader("read", reader[c].todo, "summary", 0)
      /\ reader[c].pc = "send" /\ \A d \in Conns \ {c} : reader'[d] = reader[d]
      /\ UNCHANGED <<subs, buf, ingested, ingest, sub, fits, pending, loop>>
    BY DEF SnapshotSend, StreamIInv, StreamTypeOK, hubVars
<1>4. reader'[c].pc = "read" /\ reader'[c].todo = reader[c].todo /\ reader'[c].val = 0 /\ ingested \in Nat
    BY <1>3, ConnTypes DEF MkReader
<1>5. StreamTypeOK'
    <2>1. MkReader("read", reader[c].todo, "summary", 0) \in Reader
        BY ConnTypes, StreamAssumption DEF MkReader, Reader, Channels
    <2>2. QED
        BY <1>2, <2>1 DEF SnapshotSend, StreamIInv, StreamTypeOK, hubVars
<1>6. \A d \in Conns \ {c} : SameConn(d)
    BY <1>2, <1>3 DEF SameConn
<1>7. NothingAhead(c)' /\ LoopOfConnection(c)'
    BY <1>2, <1>3, <1>4 DEF StreamIInv, NothingAhead, LoopOfConnection, Connected
<1>8. EveryEventComing(c)'
    <2>1. SUFFICES ASSUME Connected(c)', ~lost'[c], NEW x \in sub'[c], NEW i \in 1..ingested',
                          Awaited(c, x, i)'
                   PROVE  Coming(c, x, i)'
        BY DEF EveryEventComing
    <2>2. Connected(c) /\ Coming(c, x, i) /\ x \in sub[c] /\ x \in Channels /\ i \in Nat
        BY <1>2, <1>3, <2>1, ConnTypes DEF StreamIInv, EveryEventComing, Connected, Awaited
    <2>3. view[c][x] \in Nat /\ view'[c][x] \in Nat /\ view[c][x] <= view'[c][x]
        BY <1>2, <2>1, <2>2, ConnTypes
    <2>4. InSnapshot(c, x, i) => InSnapshot(c, x, i)' \/ i <= view'[c][x]
        BY <1>2, <1>3, <1>4, <2>2 DEF InSnapshot
    <2>5. QED
        BY <1>3, <2>2, <2>3, <2>4 DEF Coming, Awaited, InHub, Noted, InFlush
<1>9. QED
    BY <1>3, <1>5, <1>6, <1>7, <1>8, OneConnection

\* The event loop: it subscribes with an empty channel ...
LEMMA LoopSubscribeSteps ==
    ASSUME StreamIInv, NEW c \in Conns, LoopSubscribe(c)
    PROVE  StreamIInv'
<1>1. /\ loop[c].pc = "start" /\ loop'[c] = Selecting("select")
      /\ subs' = subs \cup {c} /\ buf'[c] = <<>>
      /\ \A d \in Conns \ {c} : buf'[d] = buf[d] /\ loop'[d] = loop[d]
      /\ UNCHANGED <<ingested, ingest, sub, fits, pending, reader, view, lost>>
    BY DEF LoopSubscribe, Subscribe, StreamIInv, StreamTypeOK
<1>2. buf[c] = <<>> /\ loop[c].work = {} /\ reader[c].pc # "closed"
    BY <1>1 DEF StreamIInv, LoopOfConnection
<1>3. /\ loop'[c].pc = "select" /\ loop'[c].work = {} /\ loop'[c].row = 0 /\ loop'[c].val = 0
      /\ loop'[c].old = FALSE /\ ingested \in Nat
    BY <1>1, ConnTypes DEF Selecting, MkLoop
<1>4. StreamTypeOK'
    <2>1. Selecting("select") \in Loop /\ <<>> \in Seq(0..MaxEvents) /\ Len(<<>>) <= subscriberBuffer
        BY StreamAssumption, HubAssumption DEF Selecting, MkLoop, Loop, Channels
    <2>2. loop' \in [Conns -> Loop] /\ buf' \in [Conns -> Seq(0..MaxEvents)]
        BY <2>1 DEF LoopSubscribe, Subscribe, StreamIInv, StreamTypeOK
    <2>3. \A d \in Conns : Len(buf'[d]) <= subscriberBuffer
        BY <1>1, <2>1 DEF StreamIInv, StreamTypeOK
    <2>4. QED
        BY <1>1, <2>2, <2>3 DEF LoopSubscribe, StreamIInv, StreamTypeOK
<1>5. \A d \in Conns \ {c} : SameConn(d)
    BY <1>1 DEF SameConn
<1>6. NothingAhead(c)' /\ LoopOfConnection(c)'
    BY <1>1, <1>2, <1>3 DEF StreamIInv, NothingAhead, LoopOfConnection, Connected
<1>7. EveryEventComing(c)'
    <2>1. SUFFICES ASSUME Connected(c)', ~lost'[c], NEW x \in sub'[c], NEW i \in 1..ingested',
                          Awaited(c, x, i)'
                   PROVE  Coming(c, x, i)'
        BY DEF EveryEventComing
    <2>2. Coming(c, x, i) /\ ~InFlush(c, x, i)
        BY <1>1, <1>2, <2>1 DEF StreamIInv, EveryEventComing, Connected, Awaited, InFlush
    <2>3. QED
        BY <1>1, <1>2, <2>2 DEF Coming, Awaited, InSnapshot, InHub, Noted
<1>8. QED
    BY <1>1, <1>4, <1>5, <1>6, <1>7, OneConnection

LEMMA LoopReturnsSteps ==
    ASSUME StreamIInv, NEW c \in Conns, LoopReturns(c)
    PROVE  StreamIInv'
<1>1. /\ loop'[c] = Selecting("done") /\ ~Connected(c)
      /\ subs' = subs \ {c} /\ buf'[c] = <<>>
      /\ \A d \in Conns \ {c} : buf'[d] = buf[d] /\ loop'[d] = loop[d]
      /\ UNCHANGED <<ingested, ingest, sub, fits, pending, reader, view, lost>>
    BY DEF LoopReturns, Unsubscribe, Cancelled, StreamIInv, StreamTypeOK
<1>2. /\ loop'[c].pc = "done" /\ loop'[c].work = {} /\ loop'[c].row = 0 /\ loop'[c].val = 0
      /\ ingested \in Nat
    BY <1>1, ConnTypes DEF Selecting, MkLoop
<1>3. StreamTypeOK'
    <2>1. Selecting("done") \in Loop /\ <<>> \in Seq(0..MaxEvents) /\ Len(<<>>) <= subscriberBuffer
        BY StreamAssumption, HubAssumption DEF Selecting, MkLoop, Loop, Channels
    <2>2. loop' \in [Conns -> Loop] /\ buf' \in [Conns -> Seq(0..MaxEvents)]
        BY <2>1 DEF LoopReturns, Unsubscribe, StreamIInv, StreamTypeOK
    <2>3. \A d \in Conns : Len(buf'[d]) <= subscriberBuffer
        BY <1>1, <2>1 DEF StreamIInv, StreamTypeOK
    <2>4. QED
        BY <1>1, <2>2, <2>3 DEF LoopReturns, StreamIInv, StreamTypeOK
<1>4. \A d \in Conns \ {c} : SameConn(d)
    BY <1>1 DEF SameConn
<1>5. NothingAhead(c)' /\ LoopOfConnection(c)' /\ EveryEventComing(c)'
    BY <1>1, <1>2 DEF StreamIInv, NothingAhead, LoopOfConnection, EveryEventComing, Connected
<1>6. QED
    BY <1>1, <1>3, <1>4, <1>5, OneConnection

\* The types of an ingest, and of what a channel holds.
LEMMA IngestTypes ==
    ASSUME StreamIInv, NEW i \in Ingests
    PROVE  /\ i \in Nat /\ i >= 1 /\ i <= MaxEvents
           /\ ingested \in Nat /\ ingested <= MaxEvents /\ MaxEvents \in Nat
           /\ ingest \in [Ingests -> [pc : {"new", "check", "publish", "done"}, row : 0..MaxEvents]]
           /\ ingest[i].row \in 0..MaxEvents /\ ingest[i].row \in Nat
           /\ ingest[i].pc = "new" <=> i > ingested
           /\ ingest[i].row <= ingested
           /\ ingest[i].pc = "publish" => i <= ingest[i].row
<1>1. MaxEvents \in Nat /\ ingested \in 0..MaxEvents /\ i \in 1..MaxEvents
    BY StreamAssumption DEF StreamIInv, StreamTypeOK, Ingests
<1>2. ingest \in [Ingests -> [pc : {"new", "check", "publish", "done"}, row : 0..MaxEvents]]
    BY DEF StreamIInv, StreamTypeOK
<1>3. ingest[i].row \in 0..MaxEvents
    BY <1>2
<1>4. QED
    BY <1>1, <1>2, <1>3 DEF StreamIInv, IngestsInOrder

LEMMA BufferedEvents ==
    ASSUME StreamIInv, NEW c \in Conns, NEW k \in 1..Len(buf[c]), buf[c][k] # EventKindTick
    PROVE  buf[c][k] \in Ingests
<1>1. buf[c][k] \in 0..MaxEvents
    BY ConnTypes
<1>2. QED
    BY <1>1, StreamAssumption DEF Ingests, EventKindTick

\* The head and the tail of a channel that is not empty.
LEMMA HeadAndTail ==
    ASSUME NEW S, NEW q \in Seq(S), q # <<>>
    PROVE  /\ Head(q) = q[1] /\ Head(q) \in S /\ Tail(q) \in Seq(S)
           /\ Len(q) \in Nat /\ Len(Tail(q)) = Len(q) - 1 /\ 1 \in 1..Len(q)
           /\ \A k \in 1..Len(Tail(q)) : Tail(q)[k] = q[k + 1] /\ k + 1 \in 1..Len(q)
           /\ \A k \in 1..Len(q) : k # 1 => k - 1 \in 1..Len(Tail(q)) /\ Tail(q)[k - 1] = q[k]
<1>1. Len(q) \in Nat /\ Len(q) > 0 /\ Head(q) = q[1] /\ Head(q) \in S
    <2>1. Len(q) \in Nat \ {0}
        BY EmptySeq
    <2>2. Head(q) = q[1]
        OBVIOUS
    <2>3. Head(q) \in S
        BY HeadTailProperties
    <2>4. QED
        BY <2>1, <2>2, <2>3
<1>2. Tail(q) \in Seq(S) /\ Len(Tail(q)) = Len(q) - 1
    BY HeadTailProperties
<1>3. \A k \in 1..(Len(q) - 1) : Tail(q)[k] = q[k + 1]
    OBVIOUS
<1>4. \A k \in 1..Len(q) : k # 1 => k - 1 \in 1..(Len(q) - 1) /\ (k - 1) + 1 = k
    BY <1>1
<1>5. \A k \in 1..Len(q) : k # 1 => Tail(q)[k - 1] = q[k]
    BY <1>3, <1>4
<1>6. QED
    BY <1>1, <1>2, <1>3, <1>4, <1>5

\* ... notes what an event makes stale ...
LEMMA LoopReceiveSteps ==
    ASSUME StreamIInv, NEW c \in Conns, LoopReceive(c)
    PROVE  StreamIInv'
<1> DEFINE q == buf[c]
           ev == Head(q)
           p == pending[c]
           n == NoteHubEvent(c, ev)
<1>1. /\ q # <<>> /\ q \in Seq(0..MaxEvents) /\ Len(q) <= subscriberBuffer
      /\ loop[c].pc = "select"
      /\ buf'[c] = Tail(q) /\ pending'[c] = n
      /\ lost'[c] = (lost[c] \/ (Connected(c) /\ n.row < p.row))
      /\ \A d \in Conns \ {c} : buf'[d] = buf[d] /\ pending'[d] = pending[d] /\ lost'[d] = lost[d]
      /\ UNCHANGED <<subs, ingested, ingest, sub, fits, reader, loop, view>>
    BY DEF LoopReceive, StreamIInv, StreamTypeOK
<1> HIDE DEF q
<1>2. /\ ev = q[1] /\ ev \in 0..MaxEvents /\ Tail(q) \in Seq(0..MaxEvents)
      /\ Len(q) \in Nat /\ Len(Tail(q)) = Len(q) - 1 /\ 1 \in 1..Len(q)
      /\ \A k \in 1..Len(Tail(q)) : Tail(q)[k] = q[k + 1] /\ k + 1 \in 1..Len(q)
      /\ \A k \in 1..Len(q) : k # 1 => k - 1 \in 1..Len(Tail(q)) /\ Tail(q)[k - 1] = q[k]
    BY <1>1, HeadAndTail
<1>3. /\ ingested \in Nat /\ MaxEvents \in Nat /\ p \in Pending /\ p.row \in Nat /\ p.row <= ingested
      /\ ingested <= MaxEvents /\ p.row \in 0..MaxEvents /\ p.marks \subseteq Channels
    BY ConnTypes DEF StreamIInv, NothingAhead, Pending
<1> HIDE DEF ev
<1>4. /\ n \in Pending /\ n.row \in Nat /\ n.row <= ingested /\ p.marks \subseteq n.marks
      /\ ev # 0 /\ "clients" \in sub[c] => n.row = ingest[ev].row
      /\ \A x \in Filtered \cap sub[c] : ev # 0 /\ Awaited(c, x, ev) => x \in n.marks
    <2>1. n.marks = p.marks \cup Outdated(c, ev) /\ n.row = RowAfter(c, ev)
          /\ n = [marks |-> n.marks, row |-> n.row]
        BY DEF NoteHubEvent
    <2>2. Outdated(c, ev) \subseteq Channels
        BY ConnTypes DEF Outdated
    <2>3. ev # 0 => ingest[ev].row \in 0..MaxEvents /\ ingest[ev].row <= ingested
        BY <1>2, <1>3, IngestTypes DEF Ingests
    <2>4. RowAfter(c, ev) \in 0..MaxEvents /\ RowAfter(c, ev) <= ingested
        BY <1>3, <2>3 DEF RowAfter, EventKindTick
    <2>5. ev # 0 /\ "clients" \in sub[c] => RowAfter(c, ev) = ingest[ev].row
        BY DEF RowAfter, EventKindTick
    <2>6. \A x \in Filtered \cap sub[c] : ev # 0 /\ Awaited(c, x, ev) => x \in Outdated(c, ev)
        BY DEF Outdated, Awaited, Filtered, EventKindTick
    <2>7. n \in Pending
        BY <1>3, <2>1, <2>2, <2>4 DEF Pending
    <2>8. QED
        BY <1>3, <2>1, <2>4, <2>5, <2>6, <2>7
<1> HIDE DEF n, p
<1>5. StreamTypeOK'
    <2>1. buf' \in [Conns -> Seq(0..MaxEvents)] /\ pending' \in [Conns -> Pending]
        BY <1>2, <1>4 DEF LoopReceive, StreamIInv, StreamTypeOK, q, n, ev
    <2>2. lost' \in [Conns -> BOOLEAN]
        BY DEF LoopReceive, StreamIInv, StreamTypeOK
    <2>3. \A d \in Conns : Len(buf'[d]) <= subscriberBuffer
        <3>1. Len(Tail(q)) <= subscriberBuffer
            BY <1>1, <1>2, HubAssumption
        <3>2. QED
            BY <1>1, <3>1 DEF StreamIInv, StreamTypeOK
    <2>4. QED
        BY <2>1, <2>2, <2>3 DEF LoopReceive, StreamIInv, StreamTypeOK
<1>6. \A d \in Conns \ {c} : SameConn(d)
    BY <1>1 DEF SameConn
<1>7. NothingAhead(c)'
    BY <1>1, <1>4 DEF StreamIInv, NothingAhead
<1>8. LoopOfConnection(c)'
    BY <1>1 DEF StreamIInv, LoopOfConnection, Connected, q
<1>9. EveryEventComing(c)'
    <2>1. SUFFICES ASSUME Connected(c)', ~lost'[c], NEW x \in sub'[c], NEW i \in 1..ingested',
                          Awaited(c, x, i)'
                   PROVE  Coming(c, x, i)'
        BY DEF EveryEventComing
    <2>2. /\ x \in sub[c] /\ x \in Filtered \cup {"clients"} /\ i \in Nat /\ i >= 1
          /\ Connected(c) /\ Coming(c, x, i) /\ n.row >= p.row
        <3>1. x \in Channels
            BY <1>1, <2>1, ConnTypes
        <3>2. Connected(c) /\ ~lost[c] /\ x \in sub[c] /\ i \in 1..ingested
            BY <1>1, <2>1 DEF Connected
        <3>3. Coming(c, x, i)
            BY <1>1, <2>1, <3>2 DEF StreamIInv, EveryEventComing, Awaited
        <3>4. ~(n.row < p.row)
            BY <1>1, <2>1, <3>2
        <3>5. i \in Nat /\ i >= 1
            BY <1>3, <3>2
        <3>6. QED
            BY <1>3, <1>4, <3>1, <3>2, <3>3, <3>4, <3>5 DEF Channels, Filtered
    <2>3. CASE InHub(c, x, i)
        <3>1. CASE ingest[i].pc \in {"check", "publish"}
            BY <1>1, <3>1 DEF Coming, InHub
        <3>2. CASE \E k \in 1..Len(buf[c]) :
                     buf[c][k] # EventKindTick /\ Awaited(c, x, buf[c][k]) /\ i <= ingest[buf[c][k]].row
            <4>1. PICK k \in 1..Len(q) : q[k] # 0 /\ Awaited(c, x, q[k]) /\ i <= ingest[q[k]].row
                BY <3>2 DEF q, EventKindTick
            <4>2. CASE k = 1
                <5>1. ev # 0 /\ Awaited(c, x, ev) /\ i <= ingest[ev].row
                    BY <1>2, <4>1, <4>2
                <5>2. Noted(c, x, i)'
                    BY <1>1, <1>4, <2>2, <5>1 DEF Noted
                <5>3. QED
                    BY <5>2 DEF Coming
            <4>3. CASE k # 1
                <5>1. \E m \in 1..Len(buf'[c]) : buf'[c][m] = q[k]
                    <6>1. k - 1 \in 1..Len(Tail(q)) /\ Tail(q)[k - 1] = q[k]
                        BY <1>2, <4>3
                    <6>2. \E m \in 1..Len(Tail(q)) : Tail(q)[m] = q[k]
                        BY ONLY <6>1
                    <6>3. QED
                        BY <1>1, <6>2
                <5>2. InHub(c, x, i)'
                    BY <1>1, <4>1, <5>1 DEF InHub, Awaited, EventKindTick
                <5>3. QED
                    BY <5>2 DEF Coming
            <4>4. QED
                BY <4>2, <4>3
        <3>3. QED
            BY <2>3, <3>1, <3>2 DEF InHub
    <2>4. CASE Noted(c, x, i)
        <3>1. CASE x \in p.marks
            BY <1>1, <1>4, <3>1 DEF Coming, Noted
        <3>2. CASE x = "clients" /\ i <= p.row
            BY <1>1, <1>3, <1>4, <2>2, <3>2 DEF Coming, Noted
        <3>3. QED
            BY <2>4, <3>1, <3>2 DEF Noted, p
    <2>5. CASE i <= view[c][x] \/ InSnapshot(c, x, i) \/ InFlush(c, x, i)
        BY <1>1, <2>5 DEF Coming, InSnapshot, InFlush
    <2>6. QED
        BY <2>2, <2>3, <2>4, <2>5 DEF Coming
<1>10. QED
    BY <1>1, <1>5, <1>6, <1>7, <1>8, <1>9, OneConnection

\* ... takes all that is noted into a flush ...
LEMMA TakePendingSteps ==
    ASSUME StreamIInv, NEW c \in Conns, TakePending(c)
    PROVE  StreamIInv'
<1> DEFINE p == pending[c]
           work == p.marks \cup (IF p.row # 0 THEN {"clients"} ELSE {})
           row == IF "clients" \in p.marks THEN 0 ELSE p.row
           taken == MkLoop("flush", work, row, FALSE, "summary", 0)
<1>1. /\ loop[c].pc = "select" /\ loop'[c] = taken /\ pending'[c] = NoPending
      /\ \A d \in Conns \ {c} : pending'[d] = pending[d] /\ loop'[d] = loop[d]
      /\ UNCHANGED <<subs, buf, ingested, ingest, sub, fits, reader, view, lost>>
    BY DEF TakePending, StreamIInv, StreamTypeOK, hubVars
<1>2. /\ p \in Pending /\ p.marks \subseteq Channels /\ p.row \in 0..MaxEvents /\ p.row <= ingested
      /\ ingested \in Nat /\ MaxEvents \in Nat /\ loop[c].work = {} /\ c \in Conns
    BY <1>1, ConnTypes DEF Pending, StreamIInv, NothingAhead, LoopOfConnection
<1>3. /\ loop'[c].pc = "flush" /\ loop'[c].work = work /\ loop'[c].row = row
      /\ loop'[c].old = FALSE /\ loop'[c].val = 0
      /\ pending'[c].row = 0
    BY <1>1 DEF MkLoop, NoPending
<1>4. StreamTypeOK'
    <2>1. NoPending \in Pending /\ taken \in Loop
        BY <1>2 DEF NoPending, Pending, MkLoop, Loop, Channels
    <2>2. loop' = [loop EXCEPT ![c] = taken] /\ pending' = [pending EXCEPT ![c] = NoPending]
        BY DEF TakePending
    <2> HIDE DEF p, work, row, taken
    <2>3. loop' \in [Conns -> Loop] /\ pending' \in [Conns -> Pending]
        BY <2>1, <2>2 DEF StreamIInv, StreamTypeOK
    <2>4. QED
        BY <1>1, <2>3 DEF TakePending, StreamIInv, StreamTypeOK
<1>5. \A d \in Conns \ {c} : SameConn(d)
    BY <1>1 DEF SameConn
<1>6. NothingAhead(c)'
    <2>1. row <= ingested /\ 0 <= ingested
        BY <1>2
    <2> HIDE DEF row
    <2>2. QED
        BY <1>1, <1>3, <2>1 DEF StreamIInv, NothingAhead
<1>7. LoopOfConnection(c)'
    BY <1>1, <1>3 DEF StreamIInv, LoopOfConnection, Connected
<1>8. EveryEventComing(c)'
    <2>1. SUFFICES ASSUME Connected(c)', ~lost'[c], NEW x \in sub'[c], NEW i \in 1..ingested',
                          Awaited(c, x, i)'
                   PROVE  Coming(c, x, i)'
        BY DEF EveryEventComing
    <2>2. Coming(c, x, i) /\ ~InFlush(c, x, i) /\ i \in Nat /\ i >= 1
        BY <1>1, <1>2, <2>1 DEF StreamIInv, EveryEventComing, Connected, Awaited, InFlush
    <2>3. Noted(c, x, i) => InFlush(c, x, i)'
        BY <1>2, <1>3, <2>2 DEF Noted, InFlush
    <2>4. QED
        BY <1>1, <2>2, <2>3 DEF Coming, Awaited, InSnapshot, InHub
<1>9. QED
    BY <1>1, <1>4, <1>5, <1>6, <1>7, <1>8, OneConnection

\* ... fetches each channel, all events in it unless it is a row that was noted ...
LEMMA FlushFetchSteps ==
    ASSUME StreamIInv, NEW c \in Conns, NEW ch \in Channels, FlushFetch(c, ch)
    PROVE  StreamIInv'
<1> DEFINE l == loop[c]
           val == CASE ch = "clients" /\ l.row # 0 -> l.row
                    [] ch \in Filtered /\ l.old -> 0
                    [] OTHER -> ingested
           fetched == MkLoop("send", l.work, l.row, l.old, ch, val)
<1>1. /\ l.pc = "flush" /\ Connected(c) /\ loop'[c] = fetched
      /\ \A d \in Conns \ {c} : loop'[d] = loop[d]
      /\ UNCHANGED <<subs, buf, ingested, ingest, sub, fits, pending, reader, view, lost>>
    BY DEF FlushFetch, Cancelled, StreamIInv, StreamTypeOK, hubVars
<1>2. /\ l \in Loop /\ l.row \in Nat /\ l.row <= ingested /\ ingested \in Nat
      /\ ingested <= MaxEvents /\ MaxEvents \in Nat
    BY ConnTypes DEF StreamIInv, NothingAhead
<1>3. /\ val \in 0..MaxEvents /\ val <= ingested
      /\ ch = "clients" /\ l.row # 0 => val = l.row
      /\ ~(ch = "clients" /\ l.row # 0) /\ ~(ch \in Filtered /\ l.old) => val = ingested
    <2>1. CASE ch = "clients" /\ l.row # 0
        <3>1. ch \notin Filtered
            BY <2>1 DEF Filtered
        <3>2. QED
            BY <1>2, <2>1, <3>1
    <2>2. CASE ~(ch = "clients" /\ l.row # 0) /\ ch \in Filtered /\ l.old
        BY <1>2, <2>2
    <2>3. CASE ~(ch = "clients" /\ l.row # 0) /\ ~(ch \in Filtered /\ l.old)
        BY <1>2, <2>3
    <2>4. QED
        BY <2>1, <2>2, <2>3
<1> HIDE DEF val
<1>4. /\ loop'[c].pc = "send" /\ loop'[c].work = l.work /\ loop'[c].row = l.row
      /\ loop'[c].old = l.old /\ loop'[c].ch = ch /\ loop'[c].val = val
    BY <1>1 DEF MkLoop
<1>5. StreamTypeOK'
    <2>1. fetched \in Loop
        BY <1>2, <1>3 DEF MkLoop, Loop
    <2>2. loop' = [loop EXCEPT ![c] = fetched]
        BY DEF FlushFetch, val, StreamIInv, StreamTypeOK
    <2> HIDE DEF fetched
    <2>3. QED
        BY <2>1, <2>2 DEF FlushFetch, StreamIInv, StreamTypeOK, hubVars
<1>6. \A d \in Conns \ {c} : SameConn(d)
    BY <1>1 DEF SameConn
<1>7. NothingAhead(c)' /\ LoopOfConnection(c)'
    BY <1>1, <1>3, <1>4 DEF StreamIInv, NothingAhead, LoopOfConnection, Connected
<1>8. EveryEventComing(c)'
    <2>1. SUFFICES ASSUME Connected(c)', ~lost'[c], NEW x \in sub'[c], NEW i \in 1..ingested',
                          Awaited(c, x, i)'
                   PROVE  Coming(c, x, i)'
        BY DEF EveryEventComing
    <2>2. Coming(c, x, i)
        BY <1>1, <2>1 DEF StreamIInv, EveryEventComing, Awaited
    <2>3. InFlush(c, x, i) => InFlush(c, x, i)'
        <3>1. SUFFICES ASSUME InFlush(c, x, i) PROVE InFlush(c, x, i)'
            OBVIOUS
        <3>2. /\ x \in l.work /\ (x = "clients" /\ l.row # 0 => i <= l.row)
              /\ x \in Filtered => ~l.old
            BY <1>1, <3>1 DEF InFlush
        <3>3. x = ch => i <= val
            BY <1>1, <1>3, <2>1, <3>2
        <3>4. QED
            BY <1>4, <3>2, <3>3 DEF InFlush
    <2>4. QED
        BY <1>1, <2>2, <2>3 DEF Coming, Awaited, InSnapshot, InHub, Noted
<1>9. QED
    BY <1>1, <1>5, <1>6, <1>7, <1>8, OneConnection

\* What is left of a flush when it is done with a channel.
LEMMA FlushedRestProps ==
    ASSUME StreamIInv, NEW c \in Conns, NEW ch \in Channels
    PROVE  LET f == FlushedRest(c, ch) IN
           /\ f \in Loop
           /\ f.pc \in {"select", "flush"} /\ f.work = loop[c].work \ {ch}
           /\ f.pc = "select" => f.work = {}
           /\ f.work # {} => f.row = loop[c].row
           /\ f.row <= ingested /\ f.val = 0
           /\ f.old => loop[c].old
<1>1. loop[c] \in Loop /\ MaxEvents \in Nat /\ ingested \in Nat /\ loop[c].row <= ingested
    BY ConnTypes DEF StreamIInv, NothingAhead
<1>2. CASE loop[c].work \ {ch} = {}
    BY <1>1, <1>2 DEF FlushedRest, Selecting, MkLoop, Loop, Channels
<1>3. CASE loop[c].work \ {ch} # {}
    BY <1>1, <1>3 DEF FlushedRest, MkLoop, Loop, Channels
<1>4. QED
    BY <1>2, <1>3

LEMMA FlushFailsSteps ==
    ASSUME StreamIInv, NEW c \in Conns, NEW ch \in Channels, FlushFails(c, ch)
    PROVE  StreamIInv'
<1> DEFINE f == FlushedRest(c, ch)
<1>1. /\ loop[c].pc = "flush" /\ loop'[c] = f /\ lost'[c] = Connected(c)
      /\ \A d \in Conns \ {c} : loop'[d] = loop[d] /\ lost'[d] = lost[d]
      /\ UNCHANGED <<subs, buf, ingested, ingest, sub, fits, pending, reader, view>>
    BY DEF FlushFails, StreamIInv, StreamTypeOK, hubVars
<1>2. /\ f \in Loop /\ f.pc \in {"select", "flush"} /\ (f.pc = "select" => f.work = {})
      /\ f.row <= ingested /\ f.val = 0 /\ ingested \in Nat
    BY FlushedRestProps, ConnTypes
<1> HIDE DEF f
<1>3. StreamTypeOK'
    <2>1. loop' \in [Conns -> Loop]
        BY <1>2 DEF FlushFails, f, StreamIInv, StreamTypeOK
    <2>2. lost' \in [Conns -> BOOLEAN]
        BY DEF FlushFails, StreamIInv, StreamTypeOK, Connected
    <2>3. QED
        BY <2>1, <2>2 DEF FlushFails, StreamIInv, StreamTypeOK, hubVars
<1>4. \A d \in Conns \ {c} : SameConn(d)
    BY <1>1 DEF SameConn
<1>5. NothingAhead(c)'
    BY <1>1, <1>2 DEF StreamIInv, NothingAhead
<1>6. LoopOfConnection(c)' /\ EveryEventComing(c)'
    BY <1>1, <1>2 DEF StreamIInv, LoopOfConnection, EveryEventComing, Connected
<1>7. QED
    BY <1>1, <1>3, <1>4, <1>5, <1>6, OneConnection

\* ... and sends it.
LEMMA FlushSendSteps ==
    ASSUME StreamIInv, NEW c \in Conns, FlushSend(c)
    PROVE  StreamIInv'
<1> DEFINE ch == loop[c].ch
           val == loop[c].val
           f == FlushedRest(c, ch)
<1>1. ch \in Channels /\ val \in 0..MaxEvents /\ val <= ingested /\ Deliver(c, ch, val) /\ val \in Nat
    BY ConnTypes DEF FlushSend, StreamIInv, NothingAhead, Loop
<1>2. /\ view' \in [Conns -> [Channels -> 0..MaxEvents]] /\ lost' \in [Conns -> BOOLEAN]
      /\ \A d \in Conns \ {c} : view'[d] = view[d] /\ lost'[d] = lost[d]
      /\ \A x \in Channels : view'[c][x] <= ingested
      /\ lost[c] => lost'[c]
      /\ ~lost'[c] => \A x \in Channels : view[c][x] <= view'[c][x]
      /\ Connected(c) /\ ch \in sub[c] => view'[c][ch] = val
    BY <1>1, DeliverKeeps
<1>3. /\ loop[c].pc = "send" /\ loop'[c] = f /\ \A d \in Conns \ {c} : loop'[d] = loop[d]
      /\ UNCHANGED <<subs, buf, ingested, ingest, sub, fits, pending, reader>>
    BY DEF FlushSend, StreamIInv, StreamTypeOK, hubVars
<1>4. /\ f \in Loop /\ f.pc \in {"select", "flush"} /\ f.work = loop[c].work \ {ch}
      /\ f.pc = "select" => f.work = {}
      /\ f.work # {} => f.row = loop[c].row
      /\ f.row <= ingested /\ f.val = 0 /\ ingested \in Nat
      /\ f.old => loop[c].old
    BY <1>1, FlushedRestProps, ConnTypes
<1> HIDE DEF f
<1>5. StreamTypeOK'
    <2>1. loop' \in [Conns -> Loop]
        BY <1>4 DEF FlushSend, f, StreamIInv, StreamTypeOK
    <2>2. QED
        BY <1>2, <2>1 DEF FlushSend, StreamIInv, StreamTypeOK, hubVars
<1>6. \A d \in Conns \ {c} : SameConn(d)
    BY <1>2, <1>3 DEF SameConn
<1>7. NothingAhead(c)'
    BY <1>2, <1>3, <1>4 DEF StreamIInv, NothingAhead
<1>8. LoopOfConnection(c)'
    BY <1>2, <1>3, <1>4 DEF StreamIInv, LoopOfConnection, Connected
<1>9. EveryEventComing(c)'
    <2>1. SUFFICES ASSUME Connected(c)', ~lost'[c], NEW x \in sub'[c], NEW i \in 1..ingested',
                          Awaited(c, x, i)'
                   PROVE  Coming(c, x, i)'
        BY DEF EveryEventComing
    <2>2. Connected(c) /\ Coming(c, x, i) /\ x \in sub[c] /\ x \in Channels /\ i \in Nat
        BY <1>2, <1>3, <1>4, <2>1, ConnTypes DEF StreamIInv, EveryEventComing, Connected, Awaited
    <2>3. view[c][x] \in Nat /\ view'[c][x] \in Nat /\ view[c][x] <= view'[c][x]
        BY <1>2, <2>1, <2>2, ConnTypes
    <2>4. InFlush(c, x, i) => InFlush(c, x, i)' \/ i <= view'[c][x]
        <3>1. CASE x = ch
            BY <1>2, <1>3, <2>2, <3>1 DEF InFlush
        <3>2. CASE x # ch
            BY <1>3, <1>4, <3>2 DEF InFlush
        <3>3. QED
            BY <3>1, <3>2
    <2>5. QED
        BY <1>3, <2>2, <2>3, <2>4 DEF Coming, Awaited, InSnapshot, InHub, Noted
<1>10. QED
    BY <1>3, <1>5, <1>6, <1>7, <1>8, <1>9, OneConnection

\* Publish: a subscriber's channel keeps what it holds and gets the event unless it is full.
LEMMA PublishKeeps ==
    ASSUME StreamIInv, NEW ev \in 0..MaxEvents, Publish(ev)
    PROVE  /\ buf' \in [Conns -> Seq(0..MaxEvents)] /\ subs' = subs
           /\ \A c \in Conns :
                /\ Len(buf'[c]) <= subscriberBuffer
                /\ \A k \in 1..Len(buf[c]) : k \in 1..Len(buf'[c]) /\ buf'[c][k] = buf[c][k]
                /\ c \notin subs => buf'[c] = buf[c]
                /\ c \in subs /\ ~BufferFull(c) => \E k \in 1..Len(buf'[c]) : buf'[c][k] = ev
<1> DEFINE S == 0..MaxEvents
<1>1. buf \in [Conns -> Seq(S)] /\ \A c \in Conns : Len(buf[c]) <= subscriberBuffer /\ Len(buf[c]) \in Nat
    BY DEF StreamIInv, StreamTypeOK
<1>2. /\ buf' = [c \in Conns |-> IF c \in subs /\ ~BufferFull(c) THEN Append(buf[c], ev) ELSE buf[c]]
      /\ subs' = subs
    BY DEF Publish
<1>3. ev \in S
    OBVIOUS
<1> HIDE DEF S
<1>4. ASSUME NEW c \in Conns
      PROVE  /\ Append(buf[c], ev) \in Seq(S) /\ Len(Append(buf[c], ev)) = Len(buf[c]) + 1
             /\ \A k \in 1..Len(buf[c]) : Append(buf[c], ev)[k] = buf[c][k]
             /\ Append(buf[c], ev)[Len(buf[c]) + 1] = ev
    BY <1>1, <1>3, AppendProperties
<1>5. buf' \in [Conns -> Seq(S)]
    BY <1>1, <1>2, <1>4
<1>6. ASSUME NEW c \in Conns
      PROVE  /\ Len(buf'[c]) <= subscriberBuffer
             /\ \A k \in 1..Len(buf[c]) : k \in 1..Len(buf'[c]) /\ buf'[c][k] = buf[c][k]
             /\ c \notin subs => buf'[c] = buf[c]
             /\ c \in subs /\ ~BufferFull(c) => \E k \in 1..Len(buf'[c]) : buf'[c][k] = ev
    <2>1. CASE c \in subs /\ ~BufferFull(c)
        <3>1. buf'[c] = Append(buf[c], ev) /\ Len(buf'[c]) = Len(buf[c]) + 1 /\ Len(buf[c]) \in Nat
            BY <1>1, <1>2, <1>4, <2>1
        <3>2. Len(buf'[c]) <= subscriberBuffer
            BY <2>1, <3>1, HubAssumption DEF BufferFull
        <3>3. /\ \A k \in 1..Len(buf[c]) : k \in 1..Len(buf'[c]) /\ buf'[c][k] = buf[c][k]
              /\ Len(buf[c]) + 1 \in 1..Len(buf'[c]) /\ buf'[c][Len(buf[c]) + 1] = ev
            BY <1>4, <3>1
        <3>4. QED
            BY <2>1, <3>2, <3>3
    <2>2. CASE ~(c \in subs /\ ~BufferFull(c))
        <3>1. buf'[c] = buf[c]
            BY <1>2, <2>2
        <3>2. QED
            BY <1>1, <2>2, <3>1
    <2>3. QED
        BY <2>1, <2>2
<1>7. QED
    BY <1>2, <1>5, <1>6 DEF S

LEMMA HubTickSteps ==
    ASSUME StreamIInv, HubTick
    PROVE  StreamIInv'
<1>1. /\ buf' \in [Conns -> Seq(0..MaxEvents)] /\ subs' = subs
      /\ \A c \in Conns :
            /\ Len(buf'[c]) <= subscriberBuffer
            /\ \A k \in 1..Len(buf[c]) : k \in 1..Len(buf'[c]) /\ buf'[c][k] = buf[c][k]
            /\ c \notin subs => buf'[c] = buf[c]
    <2>1. 0 \in 0..MaxEvents /\ Publish(0)
        BY StreamAssumption DEF HubTick, RunTick, EventKindTick
    <2>2. QED
        BY <2>1, PublishKeeps
<1>2. UNCHANGED <<ingested, ingest, sub, fits, pending, reader, loop, ping, view, lost, changed>>
    BY DEF HubTick, connVars
<1>3. StreamTypeOK'
    BY <1>1, <1>2 DEF StreamIInv, StreamTypeOK
<1>4. IngestsInOrder'
    BY <1>2 DEF StreamIInv, IngestsInOrder
<1>5. ASSUME NEW c \in Conns
      PROVE  NothingAhead(c)' /\ LoopOfConnection(c)' /\ EveryEventComing(c)'
    <2>1. NothingAhead(c)' /\ LoopOfConnection(c)'
        BY <1>1, <1>2 DEF StreamIInv, NothingAhead, LoopOfConnection, Connected
    <2>2. ASSUME NEW x \in sub[c], NEW i \in 1..ingested, Coming(c, x, i) PROVE Coming(c, x, i)'
        <3>1. InHub(c, x, i) => InHub(c, x, i)'
            BY <1>1, <1>2 DEF InHub, Awaited
        <3>2. QED
            BY <1>2, <2>2, <3>1 DEF Coming, InSnapshot, Noted, InFlush
    <2>3. EveryEventComing(c)'
        BY <1>2, <2>2 DEF StreamIInv, EveryEventComing, Connected, Awaited
    <2>4. QED
        BY <2>1, <2>3
<1>6. QED
    BY <1>3, <1>4, <1>5 DEF StreamIInv

\* The ingest.  An event is in the hub's care from its INSERT on ...
LEMMA InsertSteps ==
    ASSUME StreamIInv, NEW i \in Ingests, Insert(i)
    PROVE  StreamIInv'
<1>1. /\ i = ingested + 1 /\ ingested' = i
      /\ ingest'[i] = [ingest[i] EXCEPT !.pc = "check"]
      /\ \A j \in Ingests \ {i} : ingest'[j] = ingest[j]
      /\ UNCHANGED <<subs, buf, sub, fits, pending, reader, loop, ping, view, lost, changed>>
    BY IngestTypes DEF Insert, hubVars, connVars
<1>2. ingested \in Nat /\ i \in Nat /\ i <= MaxEvents /\ i \in 0..MaxEvents
    BY IngestTypes
<1>3. ingest'[i].pc = "check" /\ ingest'[i].row = ingest[i].row
    BY <1>1, IngestTypes
<1>4. StreamTypeOK'
    <2>1. ingest' \in [Ingests -> [pc : {"new", "check", "publish", "done"}, row : 0..MaxEvents]]
        BY IngestTypes DEF Insert
    <2>2. QED
        BY <1>1, <1>2, <2>1 DEF StreamIInv, StreamTypeOK
<1>5. IngestsInOrder'
    <2>1. ASSUME NEW j \in Ingests
          PROVE  /\ ingest'[j].pc = "new" <=> j > ingested'
                 /\ ingest'[j].row <= ingested'
                 /\ ingest'[j].pc = "publish" => j <= ingest'[j].row
        <3>1. CASE j = i
            BY <1>1, <1>2, <1>3, <3>1, IngestTypes
        <3>2. CASE j # i
            BY <1>1, <1>2, <3>2, IngestTypes
        <3>3. QED
            BY <3>1, <3>2
    <2>2. QED
        BY <2>1 DEF IngestsInOrder
<1>6. ASSUME NEW c \in Conns
      PROVE  NothingAhead(c)' /\ LoopOfConnection(c)' /\ EveryEventComing(c)'
    <2>1. NothingAhead(c)'
        <3>1. NothingAhead(c)
            BY DEF StreamIInv
        <3>2. \A n \in Nat : n <= ingested => n <= ingested'
            BY <1>1, <1>2
        <3>3. QED
            BY <1>1, <3>1, <3>2, ConnTypes DEF NothingAhead
    <2>2. LoopOfConnection(c)'
        BY <1>1 DEF StreamIInv, LoopOfConnection, Connected
    <2>3. ASSUME NEW x \in sub[c], NEW j \in 1..ingested, Coming(c, x, j) PROVE Coming(c, x, j)'
        <3>1. j \in Ingests /\ j # i
            BY <1>1, <1>2, IngestTypes DEF Ingests
        <3>2. InHub(c, x, j) => InHub(c, x, j)'
            <4>1. \A m \in Ingests : ingest'[m].row = ingest[m].row
                BY <1>1, <1>3
            <4>2. QED
                BY <1>1, <3>1, <4>1, BufferedEvents DEF InHub, Awaited
        <3>3. QED
            BY <1>1, <2>3, <3>2 DEF Coming, InSnapshot, Noted, InFlush
    <2>4. ASSUME NEW x \in sub[c] PROVE Coming(c, x, i)'
        BY <1>3 DEF Coming, InHub
    <2>5. \A j \in 1..ingested' : j \in 1..ingested \/ j = i
        BY <1>1, <1>2
    <2>6. EveryEventComing(c)'
        BY <1>1, <2>3, <2>4, <2>5 DEF StreamIInv, EveryEventComing, Connected, Awaited
    <2>7. QED
        BY <2>1, <2>2, <2>6
<1>7. QED
    BY <1>4, <1>5, <1>6 DEF StreamIInv

\* ... through the fetch of a row that includes it ...
LEMMA FetchRowSteps ==
    ASSUME StreamIInv, NEW i \in Ingests, FetchRow(i)
    PROVE  StreamIInv'
<1>1. /\ ingest[i].pc = "check"
      /\ ingest'[i].pc = "publish" /\ ingest'[i].row = ingested
      /\ \A j \in Ingests \ {i} : ingest'[j] = ingest[j]
      /\ UNCHANGED <<subs, buf, ingested, sub, fits, pending, reader, loop, ping, view, lost, changed>>
    BY IngestTypes DEF FetchRow, hubVars, connVars
<1>2. StreamTypeOK'
    <2>1. ingest' \in [Ingests -> [pc : {"new", "check", "publish", "done"}, row : 0..MaxEvents]]
        BY IngestTypes DEF FetchRow
    <2>2. QED
        BY <1>1, <2>1 DEF StreamIInv, StreamTypeOK
<1>3. IngestsInOrder'
    <2>1. ASSUME NEW j \in Ingests
          PROVE  /\ ingest'[j].pc = "new" <=> j > ingested
                 /\ ingest'[j].row <= ingested
                 /\ ingest'[j].pc = "publish" => j <= ingest'[j].row
        <3>1. CASE j = i
            BY <1>1, <3>1, IngestTypes
        <3>2. CASE j # i
            BY <1>1, <3>2, IngestTypes
        <3>3. QED
            BY <3>1, <3>2
    <2>2. QED
        BY <1>1, <2>1 DEF IngestsInOrder
<1>4. ASSUME NEW c \in Conns
      PROVE  NothingAhead(c)' /\ LoopOfConnection(c)' /\ EveryEventComing(c)'
    <2>1. NothingAhead(c)' /\ LoopOfConnection(c)'
        BY <1>1 DEF StreamIInv, NothingAhead, LoopOfConnection, Connected
    <2>2. ASSUME NEW x \in sub[c], NEW j \in 1..ingested, Coming(c, x, j) PROVE Coming(c, x, j)'
        <3>1. j \in Ingests
            BY IngestTypes DEF Ingests
        <3>2. InHub(c, x, j) => InHub(c, x, j)'
            <4>1. \A m \in Ingests : j <= ingest[m].row => j <= ingest'[m].row
                BY <1>1, <3>1, IngestTypes
            <4>2. QED
                BY <1>1, <3>1, <4>1, BufferedEvents DEF InHub, Awaited
        <3>3. QED
            BY <1>1, <2>2, <3>2 DEF Coming, InSnapshot, Noted, InFlush
    <2>3. EveryEventComing(c)'
        BY <1>1, <2>2 DEF StreamIInv, EveryEventComing, Connected, Awaited
    <2>4. QED
        BY <2>1, <2>3
<1>5. QED
    BY <1>2, <1>3, <1>4 DEF StreamIInv

\* An event that leaves the hub's care: the others stay in it, and the connections that
\* do not hold it count it as lost.
LEMMA EventLeaves ==
    ASSUME StreamIInv, NEW i \in Ingests, i <= ingested, StreamTypeOK',
           ingest'[i].pc = "done", ingest'[i].row = ingest[i].row,
           \A j \in Ingests \ {i} : ingest'[j] = ingest[j],
           UNCHANGED <<subs, ingested, sub, fits, pending, reader, loop, view>>,
           \A c \in Conns :
                /\ \A k \in 1..Len(buf[c]) : k \in 1..Len(buf'[c]) /\ buf'[c][k] = buf[c][k]
                /\ c \notin subs => buf'[c] = buf[c]
                /\ lost[c] => lost'[c]
                /\ Connected(c) /\ ~lost'[c] =>
                        i <= ingest[i].row /\ \E k \in 1..Len(buf'[c]) : buf'[c][k] = i
    PROVE  StreamIInv'
<1>1. IngestsInOrder'
    <2>1. ASSUME NEW j \in Ingests
          PROVE  /\ ingest'[j].pc = "new" <=> j > ingested
                 /\ ingest'[j].row <= ingested
                 /\ ingest'[j].pc = "publish" => j <= ingest'[j].row
        <3>1. CASE j = i
            BY <3>1, IngestTypes
        <3>2. CASE j # i
            BY <3>2, IngestTypes
        <3>3. QED
            BY <3>1, <3>2
    <2>2. QED
        BY <2>1 DEF IngestsInOrder
<1>2. ASSUME NEW c \in Conns
      PROVE  NothingAhead(c)' /\ LoopOfConnection(c)' /\ EveryEventComing(c)'
    <2>1. NothingAhead(c)'
        BY DEF StreamIInv, NothingAhead
    <2>2. LoopOfConnection(c)'
        BY DEF StreamIInv, LoopOfConnection, Connected
    <2>3. ASSUME Connected(c)', ~lost'[c], NEW x \in sub'[c], NEW j \in 1..ingested',
                 Awaited(c, x, j)'
          PROVE  Coming(c, x, j)'
        <3>1. Connected(c) /\ ~lost[c] /\ Coming(c, x, j)
            BY <2>3 DEF Connected, StreamIInv, EveryEventComing, Awaited
        <3>2. j \in Ingests
            BY IngestTypes DEF Ingests
        <3>3. CASE InHub(c, x, j)
            <4>1. \A m \in Ingests : ingest'[m].row = ingest[m].row
                OBVIOUS
            <4>2. CASE j = i
                <5>1. PICK k \in 1..Len(buf'[c]) : buf'[c][k] = i
                    BY <2>3, <3>1
                <5>2. i <= ingest'[i].row /\ i # EventKindTick
                    BY <2>3, <3>1, IngestTypes DEF EventKindTick
                <5>3. InHub(c, x, j)'
                    BY <2>3, <4>2, <5>1, <5>2 DEF InHub
                <5>4. QED
                    BY <5>3 DEF Coming
            <4>3. CASE j # i
                <5>1. CASE ingest[j].pc \in {"check", "publish"}
                    BY <3>2, <4>3, <5>1 DEF Coming, InHub
                <5>2. CASE \E k \in 1..Len(buf[c]) :
                             /\ buf[c][k] # EventKindTick /\ Awaited(c, x, buf[c][k])
                             /\ j <= ingest[buf[c][k]].row
                    <6>1. PICK k \in 1..Len(buf[c]) :
                             /\ buf[c][k] # EventKindTick /\ Awaited(c, x, buf[c][k])
                             /\ j <= ingest[buf[c][k]].row
                        BY <5>2
                    <6>2. k \in 1..Len(buf'[c]) /\ buf'[c][k] = buf[c][k] /\ buf[c][k] \in Ingests
                        BY <6>1, BufferedEvents
                    <6>3. j <= ingest'[buf[c][k]].row
                        BY <4>1, <6>1, <6>2
                    <6>4. InHub(c, x, j)'
                        BY <6>1, <6>2, <6>3 DEF InHub, Awaited
                    <6>5. QED
                        BY <6>4 DEF Coming
                <5>3. QED
                    BY <3>3, <5>1, <5>2 DEF InHub
            <4>4. QED
                BY <4>2, <4>3
        <3>4. CASE ~InHub(c, x, j)
            BY <3>1, <3>4 DEF Coming, InSnapshot, Noted, InFlush
        <3>5. QED
            BY <3>3, <3>4
    <2>4. EveryEventComing(c)'
        BY <2>3 DEF EveryEventComing
    <2>5. QED
        BY <2>1, <2>2, <2>4
<1>3. QED
    BY <1>1, <1>2 DEF StreamIInv

\* ... to a publish that is skipped ...
LEMMA SkipPublishSteps ==
    ASSUME StreamIInv, NEW i \in Ingests, SkipPublish(i)
    PROVE  StreamIInv'
<1>1. /\ ingest[i].pc = "check" /\ ingest'[i].pc = "done" /\ ingest'[i].row = ingest[i].row
      /\ \A j \in Ingests \ {i} : ingest'[j] = ingest[j]
      /\ lost' = [c \in Conns |-> lost[c] \/ Connected(c)]
      /\ UNCHANGED <<subs, buf, ingested, sub, fits, pending, reader, loop, ping, view, changed>>
    BY IngestTypes DEF SkipPublish, hubVars
<1>2. StreamTypeOK'
    <2>1. ingest' \in [Ingests -> [pc : {"new", "check", "publish", "done"}, row : 0..MaxEvents]]
        BY IngestTypes DEF SkipPublish
    <2>2. lost' \in [Conns -> BOOLEAN]
        BY <1>1 DEF Connected
    <2>3. QED
        BY <1>1, <2>1, <2>2 DEF StreamIInv, StreamTypeOK
<1>3. i <= ingested
    BY <1>1, IngestTypes
<1>4. \A c \in Conns :
        /\ \A k \in 1..Len(buf[c]) : k \in 1..Len(buf'[c]) /\ buf'[c][k] = buf[c][k]
        /\ c \notin subs => buf'[c] = buf[c]
        /\ lost[c] => lost'[c]
        /\ Connected(c) => lost'[c]
    BY <1>1 DEF StreamIInv, NothingAhead
<1>5. QED
    BY <1>1, <1>2, <1>3, <1>4, EventLeaves

\* ... or that puts the event into every channel that has room.
LEMMA PublishRowSteps ==
    ASSUME StreamIInv, NEW i \in Ingests, PublishRow(i)
    PROVE  StreamIInv'
<1>1. /\ ingest[i].pc = "publish" /\ ingest'[i].pc = "done" /\ ingest'[i].row = ingest[i].row
      /\ \A j \in Ingests \ {i} : ingest'[j] = ingest[j]
      /\ lost' = [c \in Conns |-> lost[c] \/ (Connected(c) /\ (c \notin subs \/ BufferFull(c)))]
      /\ UNCHANGED <<ingested, sub, fits, pending, reader, loop, ping, view, changed>>
    BY IngestTypes DEF PublishRow
<1>2. i \in 0..MaxEvents /\ i <= ingested /\ i <= ingest[i].row
    BY <1>1, IngestTypes
<1>3. /\ buf' \in [Conns -> Seq(0..MaxEvents)] /\ subs' = subs
      /\ \A c \in Conns :
            /\ Len(buf'[c]) <= subscriberBuffer
            /\ \A k \in 1..Len(buf[c]) : k \in 1..Len(buf'[c]) /\ buf'[c][k] = buf[c][k]
            /\ c \notin subs => buf'[c] = buf[c]
            /\ c \in subs /\ ~BufferFull(c) => \E k \in 1..Len(buf'[c]) : buf'[c][k] = i
    <2>1. Publish(i)
        BY DEF PublishRow
    <2>2. QED
        BY <1>2, <2>1, PublishKeeps
<1>4. StreamTypeOK'
    <2>1. ingest' \in [Ingests -> [pc : {"new", "check", "publish", "done"}, row : 0..MaxEvents]]
        BY IngestTypes DEF PublishRow
    <2>2. lost' \in [Conns -> BOOLEAN]
        BY <1>1 DEF Connected, StreamIInv, StreamTypeOK
    <2>3. QED
        BY <1>1, <1>3, <2>1, <2>2 DEF StreamIInv, StreamTypeOK
<1>5. ASSUME NEW c \in Conns
      PROVE  /\ lost[c] => lost'[c]
             /\ Connected(c) /\ ~lost'[c] => \E k \in 1..Len(buf'[c]) : buf'[c][k] = i
    BY <1>1, <1>2, <1>3
<1>6. QED
    BY <1>1, <1>2, <1>3, <1>4, <1>5, EventLeaves

\* The inductive invariant of the stream holds in every state the code can reach.
THEOREM StreamInvariant == StreamSafety => []StreamIInv
<1>1. StreamInit => StreamIInv
    <2>1. SUFFICES ASSUME StreamInit PROVE StreamIInv
        OBVIOUS
    <2>2. MaxEvents \in Nat /\ subs = {} /\ ingested = 0 /\ buf = [c \in Conns |-> <<>>]
        BY <2>1, StreamAssumption DEF StreamInit, HubInit
    <2>3. StreamTypeOK
        <3>1. Resting("closed") \in Reader /\ Selecting("done") \in Loop /\ NoPending \in Pending
            BY <2>2 DEF Resting, MkReader, Reader, Selecting, MkLoop, Loop, NoPending, Pending, Channels
        <3>2. NoView \in [Channels -> 0..MaxEvents]
            BY <2>2 DEF NoView
        <3>3. buf \in [Conns -> Seq(0..MaxEvents)] /\ \A c \in Conns : Len(buf[c]) <= subscriberBuffer
            BY <2>2, HubAssumption
        <3>4. QED
            BY <2>1, <2>2, <3>1, <3>2, <3>3 DEF StreamInit, StreamTypeOK
    <2>4. IngestsInOrder
        BY <2>1, <2>2 DEF StreamInit, IngestsInOrder, Ingests
    <2>5. ASSUME NEW c \in Conns
          PROVE  NothingAhead(c) /\ LoopOfConnection(c) /\ EveryEventComing(c)
        <3>1. /\ buf[c] = <<>> /\ pending[c] = NoPending /\ reader[c] = Resting("closed")
              /\ loop[c] = Selecting("done") /\ view[c] = NoView /\ sub[c] = {}
            BY <2>1, <2>2 DEF StreamInit
        <3>2. NothingAhead(c)
            BY <2>2, <3>1 DEF NothingAhead, NoPending, Resting, MkReader, Selecting, MkLoop, NoView
        <3>3. LoopOfConnection(c)
            BY <2>2, <3>1 DEF LoopOfConnection, Connected, Resting, MkReader, Selecting, MkLoop
        <3>4. EveryEventComing(c)
            BY <3>1 DEF EveryEventComing
        <3>5. QED
            BY <3>2, <3>3, <3>4
    <2>6. QED
        BY <2>3, <2>4, <2>5 DEF StreamIInv
<1>2. StreamIInv /\ [StreamNext]_streamVars => StreamIInv'
    <2> SUFFICES ASSUME StreamIInv, [StreamNext]_streamVars PROVE StreamIInv'
        OBVIOUS
    <2>1. CASE HubTick
        BY <2>1, HubTickSteps
    <2>2. ASSUME NEW i \in Ingests, Insert(i) \/ FetchRow(i) \/ SkipPublish(i) \/ PublishRow(i)
          PROVE  StreamIInv'
        BY <2>2, InsertSteps, FetchRowSteps, SkipPublishSteps, PublishRowSteps
    <2>3. ASSUME NEW c \in Conns, Open(c) \/ ReadLoopReturns(c) \/ Close(c) \/ PingLoopReturns(c)
          PROVE  StreamIInv'
        BY <2>3, OpenSteps, ReadLoopReturnsSteps, CloseSteps, PingLoopReturnsSteps
    <2>4. ASSUME NEW c \in Conns, NEW chs \in Asks,
                 \/ HandleSubscribe(c, chs) \/ HandleUnsubscribe(c, chs)
                 \/ \E f \in SUBSET Ingests : ChangeParams(c, chs, f)
          PROVE  StreamIInv'
        BY <2>4, HandleSubscribeSteps, ChangeParamsSteps, HandleUnsubscribeSteps
    <2>5. ASSUME NEW c \in Conns, NEW ch \in Channels, SnapshotFetch(c, ch) \/ SnapshotFails(c, ch)
          PROVE  StreamIInv'
        BY <2>5, SnapshotFetchSteps, SnapshotFailsSteps
    <2>6. ASSUME NEW c \in Conns, SnapshotSend(c) \/ LoopReceive(c) \/ TakePending(c) \/ LoopReturns(c)
          PROVE  StreamIInv'
        BY <2>6, SnapshotSendSteps, LoopReceiveSteps, TakePendingSteps, LoopReturnsSteps
    <2>7. ASSUME NEW c \in Conns, LoopGoesOn(c) PROVE StreamIInv'
        <3>1. CASE LoopSubscribe(c) \/ FlushSend(c)
            BY <3>1, LoopSubscribeSteps, FlushSendSteps
        <3>2. ASSUME NEW ch \in Channels, FlushFetch(c, ch) \/ FlushFails(c, ch) PROVE StreamIInv'
            BY <3>2, FlushFetchSteps, FlushFailsSteps
        <3>3. QED
            BY <2>7, <3>1, <3>2 DEF LoopGoesOn
    <2>8. CASE UNCHANGED streamVars
        <3>1. UNCHANGED <<subs, buf, ingested, ingest, sub, fits, pending, reader, loop, ping, view, lost, changed>>
            BY <2>8 DEF streamVars, hubVars, connVars
        <3>2. StreamTypeOK' /\ IngestsInOrder'
            BY <3>1 DEF StreamIInv, StreamTypeOK, IngestsInOrder
        <3>3. ASSUME NEW c \in Conns
              PROVE  NothingAhead(c)' /\ LoopOfConnection(c)' /\ EveryEventComing(c)'
            BY <3>1 DEF StreamIInv, NothingAhead, LoopOfConnection, EveryEventComing, Connected,
                        Coming, Awaited, InSnapshot, InHub, Noted, InFlush
        <3>4. QED
            BY <3>2, <3>3 DEF StreamIInv
    <2>9. QED
        BY <2>1, <2>2, <2>3, <2>4, <2>5, <2>6, <2>7, <2>8 DEF StreamNext
<1>3. QED
    BY <1>1, <1>2, PTL DEF StreamSafety

\* A channel that a client has subscribed to shows every event, and the events channel
\* every event of its filter, or has a refresh under way, unless one was lost
\* (noteHubEvent, takePending, flush, handleSubscribe): for every number of
\* connections, of events and of filters, and every buffer.
THEOREM StaleIsOwed == StreamSafety => []StaleMeansOwed
<1>1. StreamIInv => StaleMeansOwed
    <2>1. SUFFICES ASSUME StreamIInv, NEW c \in Conns, ~lost[c], NEW ch \in Channels, Stale(c, ch)
                   PROVE  Owed(c, ch)
        BY DEF StaleMeansOwed
    <2>2. PICK n \in 1..ingested : Awaited(c, ch, n) /\ n > view[c][ch]
        BY <2>1 DEF Stale
    <2>3. n \in Ingests /\ n >= 1 /\ ~(n <= view[c][ch])
        BY <2>1, <2>2, ConnTypes DEF Ingests
    <2>4. Coming(c, ch, n)
        BY <2>1, <2>2 DEF Stale, StreamIInv, EveryEventComing
    <2>5. CASE InSnapshot(c, ch, n)
        BY <2>5 DEF InSnapshot, Owed
    <2>6. CASE InHub(c, ch, n)
        BY <2>2, <2>3, <2>6 DEF InHub, Owed
    <2>7. CASE Noted(c, ch, n)
        BY <2>3, <2>7 DEF Noted, Owed
    <2>8. CASE InFlush(c, ch, n)
        BY <2>8 DEF InFlush, Owed
    <2>9. QED
        BY <2>3, <2>4, <2>5, <2>6, <2>7, <2>8 DEF Coming
<1>2. QED
    BY <1>1, StreamInvariant, PTL
=============================================================================

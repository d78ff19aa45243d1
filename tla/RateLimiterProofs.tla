------------------------- MODULE RateLimiterProofs --------------------------
(***************************************************************************)
(* The bound on what the limiter lets through, for every number of         *)
(* requests, every limit, window and ban.                                  *)
(***************************************************************************)
EXTENDS RateLimiter, TLAPS

\* The parts of the invariant that speak of the counters alone.
Counters == PassedGrows /\ WindowCounted /\ OneWindowBefore /\ NothingSinceSeen

LEMMA CapBounds ==
    ASSUME NEW m \in Nat, NEW max \in Nat
    PROVE  /\ Cap(m, max) \in 0..max /\ Cap(m, max) \in Nat
           /\ m <= max => Cap(m, max) = m
           /\ m > max => Cap(m, max) = max
BY DEF Cap

\* The types of one tier.
LEMMA TierTypes ==
    ASSUME IInv, NEW t \in Tiers
    PROVE  /\ Window[t] \in Nat \ {0} /\ MaxReqs[t] \in Nat \ {0} /\ MaxFails[t] \in Nat \ {0}
           /\ Window[t] - 1 \in 0..(Window[t] - 1) /\ 0 \in 0..(Window[t] - 1)
           /\ known[t] \in BOOLEAN
           /\ count[t] \in 0..(MaxReqs[t] + 1) /\ count[t] \in Nat
           /\ age[t] \in 0..Window[t] /\ age[t] \in Nat
           /\ failures[t] \in 0..MaxFails[t] /\ failures[t] \in Nat
           /\ idle[t] \in 0..(2 * Window[t] + 1) /\ idle[t] \in Nat
           /\ DOMAIN passed[t] = 0..(Window[t] - 1)
           /\ \A n \in 0..(Window[t] - 1) : passed[t][n] \in Nat
<1>1. Window[t] \in Nat \ {0} /\ MaxReqs[t] \in Nat \ {0} /\ MaxFails[t] \in Nat \ {0}
    BY LimitAssumption
<1>2. Window[t] - 1 \in 0..(Window[t] - 1) /\ 0 \in 0..(Window[t] - 1)
    BY <1>1
<1>3. /\ known[t] \in BOOLEAN
      /\ count[t] \in 0..(MaxReqs[t] + 1) /\ age[t] \in 0..Window[t]
      /\ failures[t] \in 0..MaxFails[t] /\ idle[t] \in 0..(2 * Window[t] + 1)
      /\ passed[t] \in [0..(Window[t] - 1) -> Nat]
    BY DEF IInv, TypeOK
<1>4. count[t] \in Nat /\ age[t] \in Nat /\ failures[t] \in Nat /\ idle[t] \in Nat
    BY DEF IInv, TypeOK
<1>5. DOMAIN passed[t] = 0..(Window[t] - 1)
    BY <1>3
<1>6. \A n \in 0..(Window[t] - 1) : passed[t][n] \in Nat
    BY <1>3
<1>7. QED
    BY <1>1, <1>2, <1>3, <1>4, <1>5, <1>6

\* A step that leaves the counters and the history alone.
LEMMA CountersKept ==
    ASSUME IInv, UNCHANGED <<visitors, passed>>
    PROVE  Counters'
BY DEF IInv, Counters, visitors, PassedGrows, WindowCounted, OneWindowBefore, NothingSinceSeen

\* record opens a window, or counts in the one that is open.
LEMMA RecordSteps ==
    ASSUME IInv, NEW h \in Handlers, Record(h)
    PROVE  IInv'
<1> DEFINE t == tier[h]
           expired == known[t] /\ age[t] >= Window[t]
           n == IF known[t] /\ ~expired THEN count[t] + 1 ELSE 1
           f == IF known[t] THEN failures[t] ELSE 0
           W == Window[t] - 1
<1>1. /\ t \in Tiers /\ Window[t] \in Nat \ {0} /\ MaxReqs[t] \in Nat \ {0} /\ MaxFails[t] \in Nat \ {0}
      /\ W \in 0..W /\ 0 \in 0..W
    <2>1. t \in Tiers
        BY DEF IInv, TypeOK
    <2>2. QED
        BY <2>1, TierTypes
<1>2. /\ known' = [known EXCEPT ![t] = TRUE]
      /\ idle' = [idle EXCEPT ![t] = 0]
      /\ age' = [age EXCEPT ![t] = IF expired \/ ~known[t] THEN 0 ELSE age[t]]
      /\ count' = [count EXCEPT ![t] = Cap(n, MaxReqs[t] + 1)]
      /\ UNCHANGED <<banLeft, cleaner, tier>>
    BY DEF Record, WindowAge
<1>3. \/ n > MaxReqs[t] /\ UNCHANGED passed
      \/ n <= MaxReqs[t] /\ passed' = [passed EXCEPT ![t] = [k \in DOMAIN @ |-> @[k] + 1]]
    <2>1. n \in Nat
        BY <1>1, TierTypes
    <2>2. QED
        BY <1>1, <2>1 DEF Record, Exceeds
<1> HIDE DEF W
<1>4. /\ failures' = [failures EXCEPT ![t] = IF Exceeds(t, n) THEN Cap(f + 1, MaxFails[t]) ELSE 0]
      /\ pc' \in [Handlers -> {"idle", "unban", "record", "ban"}]
    BY DEF Record, IInv, TypeOK
<1>5. DOMAIN passed[t] = 0..W /\ \A k \in 0..W : passed[t][k] \in Nat
    BY <1>1, TierTypes DEF W
<1>6. n \in Nat \ {0} /\ Cap(n, MaxReqs[t] + 1) \in 0..(MaxReqs[t] + 1) /\ Cap(n, MaxReqs[t] + 1) \in Nat
    <2>1. n \in Nat \ {0} /\ MaxReqs[t] + 1 \in Nat
        <3>1. count[t] \in Nat /\ MaxReqs[t] \in Nat
            BY <1>1, TierTypes
        <3>2. QED
            BY <3>1
    <2> HIDE DEF n, t
    <2>2. QED
        BY <2>1, CapBounds
<1>7. Cap(f + 1, MaxFails[t]) \in 0..MaxFails[t] /\ Cap(f + 1, MaxFails[t]) \in Nat
    <2>1. f + 1 \in Nat /\ MaxFails[t] \in Nat
        BY <1>1, TierTypes
    <2> HIDE DEF f, t
    <2>2. QED
        BY <2>1, CapBounds
<1> HIDE DEF n, f
<1>8. TypeOK'
    <2>1. passed'[t] \in [0..W -> Nat] /\ DOMAIN passed' = Tiers
          /\ \A u \in Tiers \ {t} : passed'[u] = passed[u]
        <3>1. DOMAIN passed = Tiers
            BY DEF IInv, TypeOK
        <3>2. CASE UNCHANGED passed
            BY <1>1, <1>5, <3>1, <3>2 DEF IInv, TypeOK, W
        <3>3. CASE passed' = [passed EXCEPT ![t] = [k \in DOMAIN @ |-> @[k] + 1]]
            <4>1. passed'[t] = [k \in 0..W |-> passed[t][k] + 1]
                BY <1>1, <1>5, <3>1, <3>3
            <4>2. QED
                BY <1>5, <3>1, <3>3, <4>1
        <3>4. QED
            BY <1>3, <3>2, <3>3
    <2>2. known' \in [Tiers -> BOOLEAN] /\ count' \in [Tiers -> Nat] /\ age' \in [Tiers -> Nat]
          /\ idle' \in [Tiers -> Nat] /\ failures' \in [Tiers -> Nat]
        <3>1. (IF expired \/ ~known[t] THEN 0 ELSE age[t]) \in Nat
            BY <1>1, TierTypes
        <3>2. (IF Exceeds(t, n) THEN Cap(f + 1, MaxFails[t]) ELSE 0) \in Nat
            BY <1>7
        <3>3. QED
            BY <1>1, <1>2, <1>4, <1>6, <3>1, <3>2 DEF IInv, TypeOK
    <2>3. ASSUME NEW u \in Tiers
          PROVE  /\ count'[u] \in 0..(MaxReqs[u] + 1) /\ age'[u] \in 0..Window[u]
                 /\ failures'[u] \in 0..MaxFails[u] /\ idle'[u] \in 0..(2 * Window[u] + 1)
                 /\ passed'[u] \in [0..(Window[u] - 1) -> Nat]
        <3>1. CASE u = t
            <4>1. /\ count'[t] = Cap(n, MaxReqs[t] + 1) /\ idle'[t] = 0
                  /\ age'[t] = (IF expired \/ ~known[t] THEN 0 ELSE age[t])
                  /\ failures'[t] = (IF Exceeds(t, n) THEN Cap(f + 1, MaxFails[t]) ELSE 0)
                BY <1>1, <1>2, <1>4 DEF IInv, TypeOK
            <4>2. (IF expired \/ ~known[t] THEN 0 ELSE age[t]) \in 0..Window[t]
                BY <1>1, TierTypes
            <4>3. (IF Exceeds(t, n) THEN Cap(f + 1, MaxFails[t]) ELSE 0) \in 0..MaxFails[t]
                BY <1>1, <1>7
            <4>4. 0 \in 0..(2 * Window[t] + 1)
                BY <1>1
            <4>5. QED
                BY <3>1, <1>6, <2>1, <4>1, <4>2, <4>3, <4>4 DEF W
        <3>2. CASE u # t
            BY <3>2, <1>2, <1>4, <2>1 DEF IInv, TypeOK
        <3>3. QED
            BY <3>1, <3>2
    <2>4. QED
        BY <1>2, <1>4, <2>1, <2>2, <2>3 DEF IInv, TypeOK
<1>9. ASSUME NEW u \in Tiers \ {t}
      PROVE  /\ known'[u] = known[u] /\ idle'[u] = idle[u] /\ age'[u] = age[u]
             /\ count'[u] = count[u] /\ passed'[u] = passed[u]
    BY <1>2, <1>3 DEF IInv, TypeOK
<1>10. /\ known'[t] = TRUE /\ idle'[t] = 0 /\ count'[t] = Cap(n, MaxReqs[t] + 1)
       /\ age'[t] = IF expired \/ ~known[t] THEN 0 ELSE age[t]
    BY <1>1, <1>2 DEF IInv, TypeOK
<1>11. \/ n > MaxReqs[t] /\ \A k \in 0..W : passed'[t][k] = passed[t][k]
       \/ n <= MaxReqs[t] /\ \A k \in 0..W : passed'[t][k] = passed[t][k] + 1
    BY <1>1, <1>3, <1>5 DEF IInv, TypeOK
<1>12. /\ \A j, k \in 0..W : j <= k => passed[t][j] <= passed[t][k]
       /\ known[t] /\ age[t] < Window[t] => age[t] \in 0..W /\ passed[t][age[t]] <= count[t]
             /\ passed[t][age[t]] <= MaxReqs[t]
             /\ passed[t][W] <= passed[t][age[t]] + MaxReqs[t]
       /\ known[t] /\ ~(age[t] < Window[t]) => passed[t][W] <= MaxReqs[t] /\ passed[t][0] = 0
       /\ ~known[t] => passed[t][W] = 0 /\ passed[t][0] = 0
       /\ count[t] \in Nat /\ age[t] \in 0..Window[t]
    <2>1. \A j, k \in 0..W : j <= k => passed[t][j] <= passed[t][k]
        BY <1>1 DEF IInv, PassedGrows, W
    <2>2. count[t] \in Nat /\ age[t] \in 0..Window[t] /\ known[t] \in BOOLEAN
        BY <1>1, TierTypes
    <2>3. ~known[t] => passed[t][W] = 0 /\ passed[t][0] = 0
        BY <1>1 DEF IInv, NothingSinceSeen, W
    <2>4. known[t] /\ age[t] < Window[t] =>
             /\ age[t] \in 0..W /\ passed[t][age[t]] <= count[t] /\ passed[t][age[t]] <= MaxReqs[t]
             /\ passed[t][W] <= passed[t][age[t]] + MaxReqs[t]
        BY <1>1, <2>2 DEF IInv, WindowCounted, OneWindowBefore, W
    <2>5. known[t] /\ ~(age[t] < Window[t]) => passed[t][W] <= MaxReqs[t] /\ passed[t][0] = 0
        BY <1>1, <2>2 DEF IInv, OneWindowBefore, W
    <2>6. QED
        BY <2>1, <2>2, <2>3, <2>4, <2>5
<1> HIDE DEF t
<1>13. PassedGrows'
    <2>1. \A j, k \in 0..W : j <= k => passed'[t][j] <= passed'[t][k]
        BY <1>5, <1>11, <1>12
    <2>2. QED
        BY <1>9, <2>1 DEF IInv, PassedGrows, W
<1>14. /\ age'[t] < Window[t] => age'[t] \in 0..W /\ passed'[t][age'[t]] <= count'[t]
             /\ passed'[t][age'[t]] <= MaxReqs[t]
             /\ passed'[t][W] <= passed'[t][age'[t]] + MaxReqs[t]
       /\ age'[t] < Window[t]
    <2>1. CASE known[t] /\ age[t] < Window[t]
        <3>1. age'[t] = age[t] /\ n = count[t] + 1
            BY <1>1, <1>10, <1>12, <2>1 DEF n
        <3>2. QED
            <4> DEFINE p == passed[t][age[t]]
                       q == passed[t][W]
            <4>1. /\ age[t] \in 0..W /\ p <= count[t] /\ p <= MaxReqs[t] /\ q <= p + MaxReqs[t]
                  /\ count[t] \in Nat
                BY <1>12, <2>1
            <4>2. p \in Nat /\ q \in Nat /\ MaxReqs[t] \in Nat
                BY <1>1, <1>5, <4>1
            <4>3. \/ n > MaxReqs[t] /\ passed'[t][age[t]] = p /\ passed'[t][W] = q
                  \/ n <= MaxReqs[t] /\ passed'[t][age[t]] = p + 1 /\ passed'[t][W] = q + 1
                BY <1>1, <1>11, <4>1
            <4> HIDE DEF p, q
            <4>4. count'[t] = IF count[t] + 1 > MaxReqs[t] + 1 THEN MaxReqs[t] + 1 ELSE count[t] + 1
                BY <1>10, <3>1 DEF Cap
            <4>5. /\ passed'[t][age[t]] <= count'[t] /\ passed'[t][age[t]] <= MaxReqs[t]
                  /\ passed'[t][W] <= passed'[t][age[t]] + MaxReqs[t]
                BY <3>1, <4>1, <4>2, <4>3, <4>4
            <4>6. QED
                BY <2>1, <3>1, <4>1, <4>5
    <2>2. CASE ~(known[t] /\ age[t] < Window[t])
        <3>1. age'[t] = 0 /\ n = 1 /\ passed[t][W] <= MaxReqs[t] /\ passed[t][0] = 0
            BY <1>1, <1>10, <1>12, <2>2 DEF n
        <3>2. QED
            <4>1. count'[t] = 1
                BY <1>1, <1>10, <3>1 DEF Cap
            <4>2. passed'[t][0] = 1 /\ passed'[t][W] = passed[t][W] + 1
                BY <1>1, <1>11, <3>1
            <4>3. QED
                BY <1>1, <1>5, <3>1, <4>1, <4>2
    <2>3. QED
        BY <2>1, <2>2
<1>15. WindowCounted' /\ OneWindowBefore'
    BY <1>1, <1>9, <1>14 DEF IInv, WindowCounted, OneWindowBefore, W
<1>16. NothingSinceSeen'
    BY <1>1, <1>9, <1>10 DEF IInv, NothingSinceSeen, W
<1>17. QED
    BY <1>8, <1>13, <1>15, <1>16 DEF IInv

\* The cleanup forgets an address only when nothing it was served is as young
\* as a window.
LEMMA CleanVisitorsSteps ==
    ASSUME IInv, CleanVisitors
    PROVE  IInv'
<1>1. ASSUME NEW t \in Tiers
      PROVE  /\ Window[t] \in Nat \ {0} /\ MaxReqs[t] \in Nat \ {0}
             /\ Stale(t) => /\ ~known'[t] /\ count'[t] = 0 /\ age'[t] = 0 /\ failures'[t] = 0 /\ idle'[t] = 0
                            /\ \A n \in 0..(Window[t] - 1) : passed[t][n] = 0
             /\ ~Stale(t) => /\ known'[t] = known[t] /\ count'[t] = count[t] /\ age'[t] = age[t]
                             /\ failures'[t] = failures[t] /\ idle'[t] = idle[t]
    <2>1. Window[t] \in Nat \ {0} /\ MaxReqs[t] \in Nat \ {0}
        BY LimitAssumption
    <2>2. Stale(t) => \A n \in 0..(Window[t] - 1) : n < idle[t]
        BY <2>1 DEF Stale, IInv, TypeOK
    <2>3. QED
        BY <2>1, <2>2 DEF CleanVisitors, IInv, TypeOK, NothingSinceSeen
<1>2. TypeOK'
    <2>1. known' \in [Tiers -> BOOLEAN]
        BY DEF CleanVisitors, IInv, TypeOK
    <2>2. /\ count' \in [Tiers -> Nat] /\ age' \in [Tiers -> Nat]
          /\ failures' \in [Tiers -> Nat] /\ idle' \in [Tiers -> Nat]
        BY DEF CleanVisitors, IInv, TypeOK
    <2>3. ASSUME NEW t \in Tiers
          PROVE  /\ count'[t] \in 0..(MaxReqs[t] + 1) /\ age'[t] \in 0..Window[t]
                 /\ failures'[t] \in 0..MaxFails[t] /\ idle'[t] \in 0..(2 * Window[t] + 1)
        <3>1. /\ count[t] \in 0..(MaxReqs[t] + 1) /\ age[t] \in 0..Window[t]
              /\ failures[t] \in 0..MaxFails[t] /\ idle[t] \in 0..(2 * Window[t] + 1)
            BY TierTypes
        <3>2. /\ 0 \in 0..(MaxReqs[t] + 1) /\ 0 \in 0..Window[t]
              /\ 0 \in 0..MaxFails[t] /\ 0 \in 0..(2 * Window[t] + 1)
            BY LimitAssumption
        <3>3. CASE Stale(t)
            BY <1>1, <3>2, <3>3
        <3>4. CASE ~Stale(t)
            BY <1>1, <3>1, <3>4
        <3>5. QED
            BY <3>3, <3>4
    <2>4. QED
        BY <2>1, <2>2, <2>3 DEF CleanVisitors, IInv, TypeOK
<1>3. Counters'
    BY <1>1 DEF CleanVisitors, Counters, IInv, TypeOK, PassedGrows, WindowCounted, OneWindowBefore, NothingSinceSeen
<1>4. QED
    BY <1>2, <1>3 DEF IInv, Counters

\* The relative clocks stay within the range in which the code tells them apart.
LEMMA AgesIn ==
    ASSUME IInv, Tick, NEW t \in Tiers
    PROVE  /\ age'[t] \in 0..Window[t] /\ idle'[t] \in 0..(2 * Window[t] + 1)
           /\ age'[t] \in Nat /\ idle'[t] \in Nat
<1>1. /\ age'[t] = IF known[t] THEN Cap(age[t] + 1, Window[t]) ELSE 0
      /\ idle'[t] = IF known[t] THEN Cap(idle[t] + 1, 2 * Window[t] + 1) ELSE 0
    BY DEF Tick
<1>2. /\ age[t] + 1 \in Nat /\ Window[t] \in Nat
      /\ idle[t] + 1 \in Nat /\ 2 * Window[t] + 1 \in Nat
    BY TierTypes
<1>3. Cap(age[t] + 1, Window[t]) \in 0..Window[t] /\ Cap(age[t] + 1, Window[t]) \in Nat
    BY <1>2, CapBounds
<1>4. /\ Cap(idle[t] + 1, 2 * Window[t] + 1) \in 0..(2 * Window[t] + 1)
      /\ Cap(idle[t] + 1, 2 * Window[t] + 1) \in Nat
    BY <1>2, CapBounds
<1>5. 0 \in 0..Window[t] /\ 0 \in 0..(2 * Window[t] + 1)
    BY <1>2
<1>6. QED
    BY <1>1, <1>3, <1>4, <1>5

\* With a tick every window is one older, and what was served one further away.
LEMMA TickSteps ==
    ASSUME IInv, Tick
    PROVE  IInv'
<1>1. ASSUME NEW t \in Tiers
      PROVE  /\ Window[t] \in Nat \ {0} /\ MaxReqs[t] \in Nat \ {0}
             /\ known'[t] = known[t] /\ count'[t] = count[t] /\ failures'[t] = failures[t]
             /\ age'[t] = IF known[t] THEN Cap(age[t] + 1, Window[t]) ELSE 0
             /\ idle'[t] = IF known[t] THEN Cap(idle[t] + 1, 2 * Window[t] + 1) ELSE 0
             /\ DOMAIN passed'[t] = 0..(Window[t] - 1)
             /\ passed'[t][0] = 0
             /\ \A n \in 1..(Window[t] - 1) :
                    passed'[t][n] = passed[t][n - 1] /\ n - 1 \in 0..(Window[t] - 1)
             /\ \A n \in 0..(Window[t] - 1) : passed[t][n] \in Nat
             /\ count[t] \in Nat
             /\ age[t] \in 0..Window[t] /\ idle[t] \in 0..(2 * Window[t] + 1)
    <2>1. /\ known'[t] = known[t] /\ count'[t] = count[t] /\ failures'[t] = failures[t]
          /\ age'[t] = IF known[t] THEN Cap(age[t] + 1, Window[t]) ELSE 0
          /\ idle'[t] = IF known[t] THEN Cap(idle[t] + 1, 2 * Window[t] + 1) ELSE 0
          /\ passed'[t] = [n \in 0..(Window[t] - 1) |-> IF n = 0 THEN 0 ELSE passed[t][n - 1]]
        BY DEF Tick
    <2>2. \A n \in 1..(Window[t] - 1) : n - 1 \in 0..(Window[t] - 1) /\ n \in 0..(Window[t] - 1) /\ n # 0
        BY TierTypes
    <2>3. QED
        BY <2>1, <2>2, TierTypes
<1>2. TypeOK'
    <2>1. banLeft' \in BanLefts
        <3>1. CASE banLeft <= Past
            BY <3>1 DEF Tick, IInv, TypeOK
        <3>2. CASE ~(banLeft <= Past)
            <4>1. PICK t \in Tiers : banLeft \in 0..BanDur[t]
                BY <3>2 DEF IInv, TypeOK, BanLefts, Past, NoBan
            <4>2. banLeft' = banLeft - 1 /\ banLeft' \in {Past} \cup 0..BanDur[t]
                BY <3>2, <4>1, LimitAssumption DEF Tick, Past
            <4>3. QED
                BY <4>2 DEF BanLefts
        <3>3. QED
            BY <3>1, <3>2
    <2>2. age' \in [Tiers -> Nat] /\ idle' \in [Tiers -> Nat]
        <3>1. \A t \in Tiers : age'[t] \in Nat /\ idle'[t] \in Nat
            BY AgesIn
        <3>2. DOMAIN age' = Tiers /\ DOMAIN idle' = Tiers
            BY DEF Tick
        <3>3. age' = [t \in Tiers |-> age'[t]] /\ idle' = [t \in Tiers |-> idle'[t]]
            BY DEF Tick
        <3>4. QED
            BY <3>1, <3>3
    <2>3. ASSUME NEW t \in Tiers
          PROVE  /\ age'[t] \in 0..Window[t] /\ idle'[t] \in 0..(2 * Window[t] + 1)
                 /\ passed'[t] \in [0..(Window[t] - 1) -> Nat]
        <3>1. age'[t] \in 0..Window[t] /\ idle'[t] \in 0..(2 * Window[t] + 1)
            BY AgesIn
        <3>2. passed'[t] = [n \in 0..(Window[t] - 1) |-> IF n = 0 THEN 0 ELSE passed[t][n - 1]]
            BY DEF Tick
        <3>3. \A n \in 0..(Window[t] - 1) : (IF n = 0 THEN 0 ELSE passed[t][n - 1]) \in Nat
            <4>1. \A n \in 0..(Window[t] - 1) : n # 0 => n - 1 \in 0..(Window[t] - 1)
                BY TierTypes
            <4>2. QED
                BY <1>1, <4>1
        <3>4. QED
            BY <3>1, <3>2, <3>3
    <2>4. QED
        BY <2>1, <2>2, <2>3 DEF Tick, IInv, TypeOK
<1>3. PassedGrows'
    <2>1. SUFFICES ASSUME NEW t \in Tiers, NEW m \in 0..(Window[t] - 1), NEW n \in 0..(Window[t] - 1), m <= n
                   PROVE  passed'[t][m] <= passed'[t][n]
        BY DEF PassedGrows
    <2>2. CASE m = 0
        <3>1. n # 0 => n \in 1..(Window[t] - 1)
            BY TierTypes
        <3>2. passed'[t][0] = 0
            BY <1>1
        <3>3. n # 0 => passed'[t][n] = passed[t][n - 1] /\ passed[t][n - 1] \in Nat
            BY <1>1, <3>1
        <3>4. QED
            BY <2>2, <3>2, <3>3
    <2>3. CASE m # 0
        <3>1. m \in 1..(Window[t] - 1) /\ n \in 1..(Window[t] - 1) /\ m - 1 <= n - 1
            BY <2>1, <2>3, TierTypes
        <3>2. QED
            BY <1>1, <3>1 DEF IInv, PassedGrows
    <2>4. QED
        BY <2>2, <2>3
<1>4. ASSUME NEW t \in Tiers, known[t]
      PROVE  /\ age'[t] < Window[t] =>
                   /\ passed'[t][age'[t]] <= count[t] /\ passed'[t][age'[t]] <= MaxReqs[t]
                   /\ passed'[t][Window[t] - 1] <= passed'[t][age'[t]] + MaxReqs[t]
             /\ age'[t] = Window[t] => passed'[t][Window[t] - 1] <= MaxReqs[t] /\ passed'[t][0] = 0
    <2> DEFINE W == Window[t] - 1
               a == age[t]
    <2>1. /\ a < Window[t] => passed[t][a] <= count[t] /\ passed[t][a] <= MaxReqs[t]
                              /\ passed[t][W] <= passed[t][a] + MaxReqs[t]
          /\ a = Window[t] => passed[t][W] <= MaxReqs[t]
          /\ \A m, n \in 0..W : m <= n => passed[t][m] <= passed[t][n]
        BY <1>1, <1>4 DEF IInv, WindowCounted, OneWindowBefore, PassedGrows
    <2>2. passed'[t][W] <= passed[t][W] /\ passed[t][W] \in Nat /\ passed'[t][W] \in Nat
        <3>1. CASE W = 0
            BY <1>1, <3>1
        <3>2. CASE W # 0
            <4>1. W \in 1..W /\ W - 1 \in 0..W /\ W - 1 <= W /\ W \in 0..W
                BY <1>1, <3>2
            <4>2. QED
                BY <1>1, <2>1, <4>1
        <3>3. QED
            BY <3>1, <3>2
    <2>3. CASE a + 1 < Window[t]
        <3>1. age'[t] = a + 1 /\ a + 1 \in 1..W /\ a \in 0..W
            BY <1>1, <1>4, <2>3 DEF Cap
        <3>2. passed'[t][a + 1] = passed[t][a] /\ passed[t][a] \in Nat
            BY <1>1, <3>1
        <3>3. QED
            <4>1. passed[t][a] <= count[t] /\ passed[t][a] <= MaxReqs[t]
                  /\ passed[t][W] <= passed[t][a] + MaxReqs[t]
                BY <1>1, <2>1, <2>3
            <4>2. age'[t] # Window[t] /\ MaxReqs[t] \in Nat
                BY <1>1, <2>3, <3>1
            <4> HIDE DEF W, a
            <4>3. QED
                BY <2>2, <3>1, <3>2, <4>1, <4>2 DEF W
    <2>4. CASE ~(a + 1 < Window[t])
        <3>1. age'[t] = Window[t]
            BY <1>1, <1>4, <2>4 DEF Cap
        <3>2. passed[t][W] <= MaxReqs[t]
            BY <1>1, <2>1, <2>4
        <3>3. QED
            BY <1>1, <2>2, <3>1, <3>2
    <2>5. QED
        BY <2>3, <2>4
<1>5. WindowCounted' /\ OneWindowBefore'
    BY <1>1, <1>4 DEF WindowCounted, OneWindowBefore
<1>6. NothingSinceSeen'
    <2>1. SUFFICES ASSUME NEW t \in Tiers, NEW n \in 0..(Window[t] - 1), ~known[t] \/ n < idle'[t]
                   PROVE  passed'[t][n] = 0
        BY <1>1 DEF NothingSinceSeen
    <2>2. CASE n = 0
        BY <1>1, <2>2
    <2>3. CASE n # 0
        <3>1. n - 1 \in 0..(Window[t] - 1) /\ passed'[t][n] = passed[t][n - 1]
            BY <1>1, <2>3
        <3>2. ~known[t] \/ n - 1 < idle[t]
            BY <1>1, <2>1 DEF Cap
        <3>3. QED
            BY <3>1, <3>2 DEF IInv, NothingSinceSeen
    <2>4. QED
        BY <2>2, <2>3
<1>7. QED
    BY <1>2, <1>3, <1>5, <1>6 DEF IInv

\* The invariant behind the bound: the counter covers the window, a window is
\* preceded by at most one other, an idle address has been served nothing
\* (record, cleanupLoop).
THEOREM LimiterInvariant == SafetySpec => []IInv
<1>1. Init => IInv
    <2> SUFFICES ASSUME Init PROVE IInv
        OBVIOUS
    <2>1. (CHOOSE t \in Tiers : TRUE) \in Tiers
        BY LimitAssumption
    <2>2. TypeOK
        <3>1. ASSUME NEW t \in Tiers
              PROVE  /\ 0 \in 0..(MaxReqs[t] + 1) /\ 0 \in 0..Window[t] /\ 0 \in 0..MaxFails[t]
                     /\ 0 \in 0..(2 * Window[t] + 1)
            BY LimitAssumption
        <3>2. QED
            BY <2>1, <3>1 DEF Init, TypeOK, BanLefts
    <2>3. QED
        BY <2>2, LimitAssumption
           DEF Init, IInv, PassedGrows, WindowCounted, OneWindowBefore, NothingSinceSeen
<1>2. IInv /\ [Next]_vars => IInv'
    <2> SUFFICES ASSUME IInv, [Next]_vars PROVE IInv'
        OBVIOUS
    <2>1. ASSUME NEW h \in Handlers, NEW t \in Tiers, Load(h, t) PROVE IInv'
        BY <2>1, CountersKept DEF Load, IInv, Counters, TypeOK, visitors
    <2>2. ASSUME NEW h \in Handlers, Unban(h) PROVE IInv'
        BY <2>2, CountersKept DEF Unban, IInv, Counters, TypeOK, visitors, BanLefts
    <2>3. ASSUME NEW h \in Handlers, Record(h) PROVE IInv'
        BY <2>3, RecordSteps
    <2>4. ASSUME NEW h \in Handlers, Ban(h) PROVE IInv'
        <3>1. BanDur[tier[h]] \in BanLefts
            BY LimitAssumption DEF IInv, TypeOK, BanLefts
        <3>2. QED
            BY <2>4, <3>1, CountersKept DEF Ban, IInv, Counters, TypeOK, visitors
    <2>5. CASE CleanVisitors
        BY <2>5, CleanVisitorsSteps
    <2>6. CASE CleanBans \/ CleanDelete
        BY <2>6, CountersKept DEF CleanBans, CleanDelete, IInv, Counters, TypeOK, visitors, BanLefts
    <2>7. CASE Tick
        BY <2>7, TickSteps
    <2>8. CASE UNCHANGED vars
        BY <2>8, CountersKept DEF vars, IInv, Counters, TypeOK, visitors
    <2>9. QED
        BY <2>1, <2>2, <2>3, <2>4, <2>5, <2>6, <2>7, <2>8 DEF Next, Step
<1>3. QED
    BY <1>1, <1>2, PTL DEF SafetySpec

\* In any stretch of time as long as a window at most twice the limit is let
\* through, for every limit and window and any number of requests at once.
THEOREM SlidingBound == SafetySpec => []AtMostTwiceTheLimit
<1>1. IInv => AtMostTwiceTheLimit
    <2> SUFFICES ASSUME IInv, NEW t \in Tiers PROVE passed[t][Window[t] - 1] <= 2 * MaxReqs[t]
        BY DEF AtMostTwiceTheLimit
    <2>1. /\ Window[t] \in Nat \ {0} /\ MaxReqs[t] \in Nat \ {0} /\ age[t] \in 0..Window[t]
          /\ \A n \in 0..(Window[t] - 1) : passed[t][n] \in Nat
        BY LimitAssumption DEF IInv, TypeOK
    <2>2. CASE ~known[t]
        BY <2>1, <2>2 DEF IInv, NothingSinceSeen
    <2>3. CASE known[t]
        BY <2>1, <2>3 DEF IInv, WindowCounted, OneWindowBefore
    <2>4. QED
        BY <2>2, <2>3
<1>2. QED
    BY <1>1, LimiterInvariant, PTL
=============================================================================

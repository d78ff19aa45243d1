---------------------------- MODULE RateLimiter -----------------------------
(***************************************************************************)
(* The global two-tier rate limiter, internal/middleware/ratelimit.ban.go, *)
(* for one public address (addresses share no state; requests from private *)
(* ones and with the dashboard key change nothing).                        *)
(*                                                                         *)
(* record runs under the mutex.  The ban lives in a sync.Map: its Load,    *)
(* Delete and Store are steps of their own, and requests of the address    *)
(* overlap between them.  Clocks are relative, in ticks: the age of a      *)
(* window, the time since the last request and the time left of a ban, so  *)
(* time is unbounded although the state is not.                            *)
(***************************************************************************)
EXTENDS Integers

CONSTANTS
    Handlers,           \* requests of the address in flight at once
    Tiers,              \* "unauth" and "auth"
    MaxReqs, Window, MaxFails, BanDur   \* limitConfig: tier -> value

ASSUME LimitAssumption ==
    /\ Tiers # {}
    /\ MaxReqs \in [Tiers -> Nat \ {0}]
    /\ Window \in [Tiers -> Nat \ {0}]
    /\ MaxFails \in [Tiers -> Nat \ {0}]
    /\ BanDur \in [Tiers -> Nat \ {0}]

VARIABLES
    known,              \* tier -> the address has an ipState
    count,              \* tier -> ipState.count, up to one over the limit
    age,                \* tier -> now - windowStart, up to the window
    failures,           \* tier -> ipState.failures, up to MaxFails
    idle,               \* tier -> now - lastSeen, up to one over two windows
    banLeft,            \* unban time - now; Past after it, NoBan without an entry
    cleaner,            \* cleanupLoop: "visitors" | "bans" | "delete"
    pc,                 \* handler -> "idle" | "unban" | "record" | "ban"
    tier,               \* handler -> the tier of its request
    passed              \* history: tier -> n -> requests let through in this tick and the n before it

vars == <<known, count, age, failures, idle, banLeft, cleaner, pc, tier, passed>>

Past == -1
NoBan == -2
BanLefts == {NoBan, Past} \cup UNION {0..BanDur[t] : t \in Tiers}
Cap(n, max) == IF n > max THEN max ELSE n

TypeOK ==
    /\ known \in [Tiers -> BOOLEAN]
    /\ count \in [Tiers -> Nat] /\ age \in [Tiers -> Nat]
    /\ failures \in [Tiers -> Nat] /\ idle \in [Tiers -> Nat]
    /\ DOMAIN passed = Tiers
    /\ \A t \in Tiers :
        /\ count[t] \in 0..(MaxReqs[t] + 1)
        /\ age[t] \in 0..Window[t]
        /\ failures[t] \in 0..MaxFails[t]
        /\ idle[t] \in 0..(2 * Window[t] + 1)
        /\ passed[t] \in [0..(Window[t] - 1) -> Nat]
    /\ banLeft \in BanLefts
    /\ cleaner \in {"visitors", "bans", "delete"}
    /\ pc \in [Handlers -> {"idle", "unban", "record", "ban"}]
    /\ tier \in [Handlers -> Tiers]

Init ==
    /\ known = [t \in Tiers |-> FALSE]
    /\ count = [t \in Tiers |-> 0]
    /\ age = [t \in Tiers |-> 0]
    /\ failures = [t \in Tiers |-> 0]
    /\ idle = [t \in Tiers |-> 0]
    /\ banLeft = NoBan
    /\ cleaner = "visitors"
    /\ pc = [h \in Handlers |-> "idle"]
    /\ tier = [h \in Handlers |-> CHOOSE t \in Tiers : TRUE]
    /\ passed = [t \in Tiers |-> [n \in 0..(Window[t] - 1) |-> 0]]

visitors == <<known, count, age, failures, idle>>

-----------------------------------------------------------------------------
(* Handler.                                                                *)

\* banned.Load: a ban in force drops the connection and changes nothing.
Load(h, t) ==
    /\ pc[h] = "idle"
    /\ banLeft <= 0
    /\ tier' = [tier EXCEPT ![h] = t]
    /\ pc' = [pc EXCEPT ![h] = IF banLeft = NoBan THEN "record" ELSE "unban"]
    /\ UNCHANGED <<visitors, banLeft, cleaner, passed>>

\* banned.Delete of the ban that was expired when it was loaded.
Unban(h) ==
    /\ pc[h] = "unban"
    /\ banLeft' = NoBan
    /\ pc' = [pc EXCEPT ![h] = "record"]
    /\ UNCHANGED <<visitors, cleaner, tier, passed>>

\* Faulty variant: every request moves the start of the window.
FaultyWindowAge(t, expired) == 0

\* now - windowStart after record: a window that is over starts again.
WindowAge(t, expired) == IF expired \/ ~known[t] THEN 0 ELSE age[t]

Exceeds(t, n) == n > MaxReqs[t]

\* record, and what Handler does with its answer: serve, 429, or ban.
Record(h) ==
    LET t == tier[h]
        expired == known[t] /\ age[t] >= Window[t]
        n == IF known[t] /\ ~expired THEN count[t] + 1 ELSE 1
        f == IF known[t] THEN failures[t] ELSE 0
    IN  /\ pc[h] = "record"
        /\ known' = [known EXCEPT ![t] = TRUE]
        /\ idle' = [idle EXCEPT ![t] = 0]
        /\ age' = [age EXCEPT ![t] = WindowAge(t, expired)]
        /\ count' = [count EXCEPT ![t] = Cap(n, MaxReqs[t] + 1)]
        /\ IF Exceeds(t, n)
           THEN /\ failures' = [failures EXCEPT ![t] = Cap(f + 1, MaxFails[t])]
                /\ pc' = [pc EXCEPT ![h] = IF f + 1 >= MaxFails[t] THEN "ban" ELSE "idle"]
                /\ UNCHANGED passed
           ELSE /\ failures' = [failures EXCEPT ![t] = 0]
                /\ pc' = [pc EXCEPT ![h] = "idle"]
                /\ passed' = [passed EXCEPT ![t] = [k \in DOMAIN @ |-> @[k] + 1]]
        /\ UNCHANGED <<banLeft, cleaner, tier>>

\* banned.Store, after the mutex is free again.
Ban(h) ==
    /\ pc[h] = "ban"
    /\ banLeft' = BanDur[tier[h]]
    /\ pc' = [pc EXCEPT ![h] = "idle"]
    /\ UNCHANGED <<visitors, cleaner, tier, passed>>

-----------------------------------------------------------------------------
(* cleanupLoop; it may run at any time.                                    *)

\* Faulty variant: the comparison is turned round.
FaultyStale(t) == known[t] /\ idle[t] < 2 * Window[t]

Stale(t) == known[t] /\ idle[t] > 2 * Window[t]

CleanVisitors ==
    /\ cleaner = "visitors"
    /\ cleaner' = "bans"
    /\ known' = [t \in Tiers |-> known[t] /\ ~Stale(t)]
    /\ count' = [t \in Tiers |-> IF Stale(t) THEN 0 ELSE count[t]]
    /\ age' = [t \in Tiers |-> IF Stale(t) THEN 0 ELSE age[t]]
    /\ failures' = [t \in Tiers |-> IF Stale(t) THEN 0 ELSE failures[t]]
    /\ idle' = [t \in Tiers |-> IF Stale(t) THEN 0 ELSE idle[t]]
    /\ UNCHANGED <<banLeft, pc, tier, passed>>

\* banned.Range: the entry it hands to the function, expired or not.
CleanBans ==
    /\ cleaner = "bans"
    /\ cleaner' = IF banLeft = Past THEN "delete" ELSE "visitors"
    /\ UNCHANGED <<visitors, banLeft, pc, tier, passed>>

\* banned.Delete by key, whatever the entry is by now.
CleanDelete ==
    /\ cleaner = "delete"
    /\ cleaner' = "visitors"
    /\ banLeft' = NoBan
    /\ UNCHANGED <<visitors, pc, tier, passed>>

-----------------------------------------------------------------------------
\* Time passes.
Tick ==
    /\ age' = [t \in Tiers |-> IF known[t] THEN Cap(age[t] + 1, Window[t]) ELSE 0]
    /\ idle' = [t \in Tiers |-> IF known[t] THEN Cap(idle[t] + 1, 2 * Window[t] + 1) ELSE 0]
    /\ banLeft' = IF banLeft <= Past THEN banLeft ELSE banLeft - 1
    /\ passed' = [t \in Tiers |-> [n \in 0..(Window[t] - 1) |->
                                      IF n = 0 THEN 0 ELSE passed[t][n - 1]]]
    /\ UNCHANGED <<known, count, failures, cleaner, pc, tier>>

Step(h) == Unban(h) \/ Record(h) \/ Ban(h)

Next ==
    \/ \E h \in Handlers : (\E t \in Tiers : Load(h, t)) \/ Step(h)
    \/ CleanVisitors \/ CleanBans \/ CleanDelete
    \/ Tick

\* Time passes, handlers run, and the client comes back in every tier, also
\* when all it gets is refusals.  Nothing is assumed of the cleanup.
Fairness ==
    /\ WF_vars(Tick)
    /\ \A h \in Handlers : WF_vars(Step(h))
    /\ \A t \in Tiers : SF_vars(\E h \in Handlers : Load(h, t))

SafetySpec == Init /\ [][Next]_vars
Spec == SafetySpec /\ Fairness

-----------------------------------------------------------------------------
(* Properties.                                                             *)

\* In any stretch of time as long as a window the limiter lets at most twice
\* the limit through: the window starts with a request rather than with the
\* clock, requests are counted one by one under the mutex, and the cleanup
\* forgets no window that is not over.
AtMostTwiceTheLimit ==
    \A t \in Tiers : passed[t][Window[t] - 1] <= 2 * MaxReqs[t]

\* A client that keeps trying is served again and again in every tier: neither
\* the failures, which outlive the ban, nor the requests that are refused
\* within a window can keep it out for ever.
AlwaysServedAgain == \A t \in Tiers : []<>(passed[t][0] > 0)

-----------------------------------------------------------------------------
(* The inductive invariant of AtMostTwiceTheLimit (RateLimiterProofs).     *)

\* A longer stretch of time has seen no fewer requests.
PassedGrows ==
    \A t \in Tiers : \A m, n \in 0..(Window[t] - 1) : m <= n => passed[t][m] <= passed[t][n]

\* What was let through since the window began is in its counter.
WindowCounted ==
    \A t \in Tiers : known[t] /\ age[t] < Window[t] =>
        passed[t][age[t]] <= count[t] /\ passed[t][age[t]] <= MaxReqs[t]

\* What was let through before it began, and is not older than a window, was in
\* the window before it.
OneWindowBefore ==
    \A t \in Tiers : known[t] =>
        /\ age[t] < Window[t] => passed[t][Window[t] - 1] <= passed[t][age[t]] + MaxReqs[t]
        /\ age[t] = Window[t] => passed[t][Window[t] - 1] <= MaxReqs[t] /\ passed[t][0] = 0

\* Nothing was let through since the address was last seen, nor within a window
\* for one that is forgotten.
NothingSinceSeen ==
    \A t \in Tiers : \A n \in 0..(Window[t] - 1) :
        ~known[t] \/ n < idle[t] => passed[t][n] = 0

IInv == TypeOK /\ PassedGrows /\ WindowCounted /\ OneWindowBefore /\ NothingSinceSeen
=============================================================================

------------------------------ MODULE BanList -------------------------------
(***************************************************************************)
(* The operators' block list: the table bans, the handlers that change it  *)
(* (internal/bans/bans.route.go) and the snapshot of it that every API     *)
(* instance keeps in memory (internal/middleware/ban.go).                  *)
(*                                                                         *)
(* Reload is two steps, the SELECT and the replacement of the snapshot     *)
(* under the lock, and nothing orders two Reloads of one instance: the     *)
(* ticker's, and one per administrator's request.  Every statement is a    *)
(* transaction of its own.                                                 *)
(*                                                                         *)
(* Three notions of "the same identifier" meet here: what the handler      *)
(* stores for what an operator types, what the unique key takes for equal, *)
(* and what the matcher takes for equal.                                   *)
(***************************************************************************)
EXTENDS Naturals

CONSTANTS
    Admins,             \* requests to the ban routes in flight at once
    Instances,          \* API instances; each has a ticker goroutine (Run)
    Hostnames,          \* identifiers are spellings, of three types
    HWIDs,
    IPs,
    ToLower,            \* hostname -> its lower-case spelling
    Rendered,           \* ip -> what net.ParseIP and String make of it
    Collation,          \* identifier -> its class under uniq_ban: the type, and the
                        \* value up to utf8mb4_unicode_ci
    MaxId,              \* bound on the rows ever inserted
    MaxRestarts,        \* bound on restarts of instances
    NoInstance

ASSUME BanAssumption ==
    /\ Hostnames \cap HWIDs = {} /\ Hostnames \cap IPs = {} /\ HWIDs \cap IPs = {}
    /\ ToLower \in [Hostnames -> Hostnames]
    /\ \A v \in Hostnames : ToLower[ToLower[v]] = ToLower[v]
    /\ Rendered \in [IPs -> IPs]
    /\ DOMAIN Collation = Hostnames \cup HWIDs \cup IPs
    /\ \A v \in Hostnames : Collation[ToLower[v]] = Collation[v]
    /\ MaxId \in Nat /\ MaxRestarts \in Nat
    /\ Admins \cap Instances = {}
    /\ NoInstance \notin Instances

VARIABLES
    table,              \* value as stored -> id of its row, 0 without one
    nextId,             \* AUTO_INCREMENT
    snapshot,           \* instance -> BanList.ips, hwids and hostnames, as one set
    pc,                 \* request or ticker -> the statement it runs next
    at,                 \* request -> the instance that serves it
    row,                \* request -> the id it works on
    view,               \* request or ticker -> what its SELECT has returned
    restarts

vars == <<table, nextId, snapshot, pc, at, row, view, restarts>>

Values == Hostnames \cup HWIDs \cup IPs
Reloaders == Admins \cup Instances
Banned == {v \in Values : table[v] # 0}

\* The instance whose snapshot p's Reload replaces.
Target(p) == IF p \in Instances THEN p ELSE at[p]

TypeOK ==
    /\ table \in [Values -> 0..MaxId]
    /\ nextId \in 1..(MaxId + 1)
    /\ snapshot \in [Instances -> SUBSET Values]
    /\ pc \in [Reloaders -> {"idle", "readback", "delete", "select", "swap"}]
    /\ at \in [Admins -> Instances \cup {NoInstance}]
    /\ row \in [Admins -> 0..MaxId]
    /\ view \in [Reloaders -> SUBSET Values]
    /\ restarts \in 0..MaxRestarts

\* NewBanList on an empty table.
Init ==
    /\ table = [v \in Values |-> 0]
    /\ nextId = 1
    /\ snapshot = [i \in Instances |-> {}]
    /\ pc = [p \in Reloaders |-> "idle"]
    /\ at = [a \in Admins |-> NoInstance]
    /\ row = [a \in Admins |-> 0]
    /\ view = [p \in Reloaders |-> {}]
    /\ restarts = 0

-----------------------------------------------------------------------------
(* The matcher.                                                            *)

\* Reload and match: under what a row is entered into the maps of its type, and
\* what a header's value is looked up as.  Only hostnames are folded.
MapKey(v) == IF v \in Hostnames THEN ToLower[v] ELSE v

\* match and Handler: is a request with the identifier v refused (403)?
Blocks(list, v) == MapKey(v) \in list

\* What the table asks for: v matches the value of a row.
RowMatches(v) == \E w \in Banned : MapKey(w) = MapKey(v)

-----------------------------------------------------------------------------
(* The handlers.                                                           *)

\* Faulty variant: the value is stored as typed.
FaultyNormalizeBanValue(v) == v

\* normalizeBanValue; an invalid value is answered 400.  A HWID is taken as typed.
NormalizeBanValue(v) ==
    CASE v \in Hostnames -> ToLower[v]
      [] v \in IPs -> Rendered[v]
      [] v \in HWIDs -> v

\* The rows that uniq_ban takes for the value.
SameKey(v) == {w \in Banned : Collation[w] = Collation[v]}

InsertRow(a, v) ==
    /\ nextId <= MaxId
    /\ row' = [row EXCEPT ![a] = nextId]
    /\ table' = [table EXCEPT ![v] = nextId]
    /\ nextId' = nextId + 1

\* Faulty variant: the list is read for the Reload before the INSERT.
FaultyCreateBan(a, i, v) ==
    /\ pc[a] = "idle"
    /\ SameKey(NormalizeBanValue(v)) = {}
    /\ InsertRow(a, NormalizeBanValue(v))
    /\ pc' = [pc EXCEPT ![a] = "swap"]
    /\ view' = [view EXCEPT ![a] = {MapKey(w) : w \in Banned}]
    /\ at' = [at EXCEPT ![a] = i]
    /\ UNCHANGED <<snapshot, restarts>>

\* CreateBan: INSERT ... ON DUPLICATE KEY UPDATE id = LAST_INSERT_ID(id).  With a
\* row of the same key the request yields that row, in the spelling it has.
CreateBan(a, i, v) ==
    /\ pc[a] = "idle"
    /\ \/ \E w \in SameKey(NormalizeBanValue(v)) :
              row' = [row EXCEPT ![a] = table[w]] /\ UNCHANGED <<table, nextId>>
       \/ SameKey(NormalizeBanValue(v)) = {} /\ InsertRow(a, NormalizeBanValue(v))
    /\ pc' = [pc EXCEPT ![a] = "readback"]
    /\ at' = [at EXCEPT ![a] = i]
    /\ UNCHANGED <<snapshot, view, restarts>>

RequestEnds(a) ==
    /\ pc' = [pc EXCEPT ![a] = "idle"]
    /\ at' = [at EXCEPT ![a] = NoInstance]
    /\ row' = [row EXCEPT ![a] = 0]
    /\ view' = [view EXCEPT ![a] = {}]

\* CreateBan: the SELECT of the row.  One that is gone already is answered 500
\* and nothing is reloaded.
ReadBack(a) ==
    /\ pc[a] = "readback"
    /\ IF \E v \in Values : table[v] = row[a]
       THEN pc' = [pc EXCEPT ![a] = "select"] /\ UNCHANGED <<at, row, view>>
       ELSE RequestEnds(a)
    /\ UNCHANGED <<table, nextId, snapshot, restarts>>

\* DeleteBan: the SELECT of the row; 404 without one.
DeleteBan(a, i, v) ==
    /\ pc[a] = "idle"
    /\ table[v] # 0
    /\ pc' = [pc EXCEPT ![a] = "delete"]
    /\ at' = [at EXCEPT ![a] = i]
    /\ row' = [row EXCEPT ![a] = table[v]]
    /\ UNCHANGED <<table, nextId, snapshot, view, restarts>>

\* DeleteBan: DELETE ... WHERE id, whether the row is still there or not.
DeleteRow(a) ==
    /\ pc[a] = "delete"
    /\ table' = [v \in Values |-> IF table[v] = row[a] THEN 0 ELSE table[v]]
    /\ pc' = [pc EXCEPT ![a] = "select"]
    /\ UNCHANGED <<nextId, snapshot, at, row, view, restarts>>

\* A statement of a handler fails: 500, or a reload that is only logged.
RequestFails(a) ==
    /\ pc[a] \in {"readback", "delete", "select"}
    /\ RequestEnds(a)
    /\ UNCHANGED <<table, nextId, snapshot, restarts>>

-----------------------------------------------------------------------------
(* Reload and Run.                                                         *)

\* Run: the ticker fires, also right after a Reload.
Refresh(i) ==
    /\ pc[i] = "idle"
    /\ pc' = [pc EXCEPT ![i] = "select"]
    /\ UNCHANGED <<table, nextId, snapshot, at, row, view, restarts>>

ReloadSelect(p) ==
    /\ pc[p] = "select"
    /\ pc' = [pc EXCEPT ![p] = "swap"]
    /\ view' = [view EXCEPT ![p] = {MapKey(w) : w \in Banned}]
    /\ UNCHANGED <<table, nextId, snapshot, at, row, restarts>>

\* Faulty variant: the rows are added to the maps that are there.
FaultyInstalled(p) == snapshot[Target(p)] \cup view[p]

\* The new maps replace the old ones.
Installed(p) == view[p]

ReloadSwap(p) ==
    /\ pc[p] = "swap"
    /\ snapshot' = [snapshot EXCEPT ![Target(p)] = Installed(p)]
    /\ IF p \in Admins
       THEN RequestEnds(p)
       ELSE /\ pc' = [pc EXCEPT ![p] = "idle"]
            /\ view' = [view EXCEPT ![p] = {}]
            /\ UNCHANGED <<at, row>>
    /\ UNCHANGED <<table, nextId, restarts>>

\* The ticker's SELECT fails: the previous snapshot stays.
RefreshFails(i) ==
    /\ pc[i] = "select"
    /\ pc' = [pc EXCEPT ![i] = "idle"]
    /\ UNCHANGED <<table, nextId, snapshot, at, row, view, restarts>>

\* The process is restarted: requests in flight are gone, NewBanList loads the
\* table or, if that fails, starts empty.
Restart(i) ==
    /\ restarts < MaxRestarts
    /\ restarts' = restarts + 1
    /\ \E s \in {{}, {MapKey(w) : w \in Banned}} : snapshot' = [snapshot EXCEPT ![i] = s]
    /\ pc' = [p \in Reloaders |-> IF Target(p) = i THEN "idle" ELSE pc[p]]
    /\ view' = [p \in Reloaders |-> IF Target(p) = i THEN {} ELSE view[p]]
    /\ row' = [a \in Admins |-> IF at[a] = i THEN 0 ELSE row[a]]
    /\ at' = [a \in Admins |-> IF at[a] = i THEN NoInstance ELSE at[a]]
    /\ UNCHANGED <<table, nextId>>

Next ==
    \/ \E a \in Admins :
        \/ \E i \in Instances, v \in Values : CreateBan(a, i, v) \/ DeleteBan(a, i, v)
        \/ ReadBack(a) \/ DeleteRow(a) \/ RequestFails(a)
    \/ \E i \in Instances : Refresh(i) \/ RefreshFails(i) \/ Restart(i)
    \/ \E p \in Reloaders : ReloadSelect(p) \/ ReloadSwap(p)

\* The ticker goes on, and its SELECT does not fail for ever.
Fairness ==
    \A i \in Instances :
        /\ WF_vars(Refresh(i))
        /\ SF_vars(ReloadSelect(i))
        /\ SF_vars(ReloadSwap(i))

SafetySpec == Init /\ [][Next]_vars
Spec == SafetySpec /\ Fairness

-----------------------------------------------------------------------------
(* Properties.                                                             *)

\* The instances end up refusing exactly what the table says once operators
\* leave it alone: no overtaken Reload, failed read-back, lost write or restart
\* makes an instance keep a stale list (the ticker "is what makes this correct
\* on more than one instance").
EveryInstanceConverges ==
    <>[](\A i \in Instances, v \in Values : RowMatches(v) <=> Blocks(snapshot[i], v))

\* When CreateBan answers after its Reload, its instance refuses whoever matches
\* the row of the answer, whatever other requests and tickers did in between,
\* unless the row is gone again.  That is the row's value, not always the value
\* asked for: a HWID that differs from a banned one in case has the same key,
\* gets that row for an answer, and is not refused by it.
CreatedBanInForce ==
    [][\A a \in Admins :
          pc[a] = "swap" /\ pc'[a] = "idle" /\ restarts' = restarts =>
              \A w \in Values : table[w] = row[a] =>
                  \A v \in Values : MapKey(v) = MapKey(w) => Blocks(snapshot'[at[a]], v)]_vars

\* "so the change takes effect on the next request rather than at the next
\* tick" (Reload): a ban in force stays in force until its row is deleted or
\* the process restarts.
BanStaysInForce ==
    [][\A i \in Instances, v \in Values :
          Blocks(snapshot[i], v) /\ RowMatches(v) /\ UNCHANGED <<table, restarts>>
              => Blocks(snapshot'[i], v)]_vars

-----------------------------------------------------------------------------
(* The inductive invariant of CreatedBanInForce (BanListProofs).           *)

\* Ids are handed out once, rows are unique under the key, and the hostnames of
\* rows are lower-case, as both the key and the matcher need them.
RowsWellFormed ==
    /\ \A v \in Values : table[v] < nextId
    /\ \A v \in Banned : v \in Hostnames => ToLower[v] = v
    /\ \A v, w \in Banned : Collation[v] = Collation[w] \/ table[v] = table[w] => v = w
    /\ \A a \in Admins : row[a] < nextId

\* A request whose SELECT is done has seen the row that it has written,
\* because a row that is not in the list it has read never gets its id.
SelectSeesOwnRow ==
    \A a \in Admins :
        /\ pc[a] # "idle" => row[a] # 0 /\ at[a] \in Instances
        /\ pc[a] = "swap" => \A v \in Values : table[v] = row[a] => MapKey(v) \in view[a]

IInv == TypeOK /\ RowsWellFormed /\ SelectSeesOwnRow
=============================================================================

------------------------------ MODULE Releases ------------------------------
(***************************************************************************)
(* A release catalogue and its installers: the handlers of                 *)
(* internal/updates/updates.route.go (EMLy releases, slots stable, beta    *)
(* and critical) and of internal/updates/updater.route.go (updater         *)
(* releases, the one slot current).  The two differ in their tables, their *)
(* slots and the order in which they clear them, which are parameters.     *)
(*                                                                         *)
(* A row lives in the database and its installer in the object store, in   *)
(* separate steps of a handler that any other request may run between.     *)
(* The database is InnoDB at its default isolation, as in ConfigRevisions: *)
(* an UPDATE ... WHERE <slot> = 1 locks that range of the slot's index,    *)
(* into which a promotion has to insert, and the rows in it (is_critical   *)
(* has no index: its UPDATE locks every row, more than is asked here); an  *)
(* UPDATE, INSERT or DELETE of a version locks its row; the writes of a    *)
(* transaction are seen by nobody before its commit; a deadlock rolls one  *)
(* of its members back, which is Abort.                                    *)
(*                                                                         *)
(* Notes, severities, dates and critical_version are left out: no property *)
(* depends on them.  They matter in one place, the number of changed rows, *)
(* where an UPDATE that changes nothing is answered 404 and rolled back,   *)
(* which is Abort as well.                                                 *)
(***************************************************************************)
EXTENDS Naturals

CONSTANTS
    Requests,           \* concurrent requests
    Versions,           \* the versions requests name; a table has at most one row for each
    Filenames,          \* the names of uploaded installers, after updaterInstallerFilename
    Contents,           \* installer contents; a checksum is modelled by the content it is of
    Slots,              \* the flags at most one release holds
    CreateRank,         \* the order in which a create clears the slots it takes
    UpdateRank,         \* the order in which PUT and PATCH do
    Nobody,
    NoVersion,
    NoFile,
    NoContent

ASSUME ReleasesAssumption ==
    /\ CreateRank \in [Slots -> Nat]
    /\ UpdateRank \in [Slots -> Nat]
    /\ Nobody \notin Requests
    /\ NoVersion \notin Versions
    /\ NoFile \notin Filenames
    /\ NoContent \notin Contents

VARIABLES
    rows,               \* the committed table: version -> [file, sum]
    holds,              \* its set flags: pairs <<version, slot>>
    objects,            \* the bucket: filename -> content
    slotLock,           \* slot -> the transaction that locks its index range
    rowLock,            \* version -> the transaction that locks its row
    req,                \* request -> the state of its handler
    writes              \* history: uploads and deletions of each object, counted up to two

vars == <<rows, holds, objects, slotLock, rowLock, req, writes>>

NoRow == [file |-> NoFile, sum |-> NoContent]

Row == [file : Filenames, sum : Contents] \cup {NoRow}

Exists(v) == rows[v] # NoRow

Holders(s) == {v \in Versions : <<v, s>> \in holds}

\* What the manifest may name for a slot: the last row that holds it in the
\* order of the SELECT (LIMIT 1 for the updater's), or nothing.
Manifest(s) == IF Holders(s) = {} THEN {NoVersion} ELSE Holders(s)

\* kind     the handler
\* pc       what it does next; "idle" outside a handler
\* version, file, content   what it works on; in a download, what it has read
\* set, unset     the slots the request takes and gives up
\* cleared        the slots whose other holders it has demoted
\* demoted        the flags those UPDATEs have reset, unseen before the commit
Req == [kind : {"none", "create", "update", "delete", "download"},
        pc : {"idle", "upload", "clear", "commit", "remove", "drop", "get", "stream"},
        version : Versions \cup {NoVersion}, file : Filenames \cup {NoFile},
        content : Contents \cup {NoContent},
        set : SUBSET Slots, unset : SUBSET Slots, cleared : SUBSET Slots,
        demoted : SUBSET (Versions \X Slots)]

MkReq(kind, pc, v, f, c, set, unset) ==
    [kind |-> kind, pc |-> pc, version |-> v, file |-> f, content |-> c,
     set |-> set, unset |-> unset, cleared |-> {}, demoted |-> {}]

IdleReq == MkReq("none", "idle", NoVersion, NoFile, NoContent, {}, {})

TypeOK ==
    /\ rows \in [Versions -> Row]
    /\ holds \subseteq Versions \X Slots
    /\ objects \in [Filenames -> Contents \cup {NoContent}]
    /\ slotLock \in [Slots -> Requests \cup {Nobody}]
    /\ rowLock \in [Versions -> Requests \cup {Nobody}]
    /\ req \in [Requests -> Req]
    /\ writes \in [Filenames -> 0..2]

Init ==
    /\ rows = [v \in Versions |-> NoRow]
    /\ holds = {}
    /\ objects = [f \in Filenames |-> NoContent]
    /\ slotLock = [s \in Slots |-> Nobody]
    /\ rowLock = [v \in Versions |-> Nobody]
    /\ req = [q \in Requests |-> IdleReq]
    /\ writes = [f \in Filenames |-> 0]

-----------------------------------------------------------------------------
\* The end of q's handler: commit, rollback or answer.  It frees q's locks.
End(q) ==
    /\ req' = [req EXCEPT ![q] = IdleReq]
    /\ slotLock' = [s \in Slots |-> IF slotLock[s] = q THEN Nobody ELSE slotLock[s]]
    /\ rowLock' = [v \in Versions |-> IF rowLock[v] = q THEN Nobody ELSE rowLock[v]]

CanLock(q, v) == rowLock[v] \in {q, Nobody}

Begin(q, r) ==
    /\ req[q].pc = "idle"
    /\ req' = [req EXCEPT ![q] = r]
    /\ UNCHANGED <<rows, holds, objects, slotLock, rowLock, writes>>

\* The bucket now has c under f (NoContent: nothing).
PutObject(f, c) ==
    /\ objects' = [objects EXCEPT ![f] = c]
    /\ writes' = [writes EXCEPT ![f] = IF @ < 2 THEN @ + 1 ELSE 2]

\* Faulty variant: the installer is uploaded after the row is committed, or never.
FaultyCreateRelease(q, v, f, c, set) ==
    Begin(q, MkReq("create", "clear", v, f, c, set, {}))

\* CreateRelease, CreateUpdaterRelease: a valid form; the checksum is computed
\* from the uploaded bytes.
CreateRelease(q, v, f, c, set) ==
    Begin(q, MkReq("create", "upload", v, f, c, set, {}))

\* The upload, before the transaction: whatever was stored under that name is gone.
UploadInstaller(q) ==
    /\ req[q].pc = "upload"
    /\ PutObject(req[q].file, req[q].content)
    /\ req' = [req EXCEPT ![q] = [@ EXCEPT !.pc = "clear"]]
    /\ UNCHANGED <<rows, holds, slotLock, rowLock>>

\* PutRelease: every flag is given; the ones that are not set are reset.
PutRelease(q, v, set) ==
    Begin(q, MkReq("update", "clear", v, NoFile, NoContent, set, Slots \ set))

\* PatchRelease, PatchReleaseChannels, PatchUpdaterRelease: only the flags the
\* request has.  Both sets are empty when it only changes other columns.
PatchRelease(q, v, set, unset) ==
    /\ set \cap unset = {}
    /\ Begin(q, MkReq("update", "clear", v, NoFile, NoContent, set, unset))

Rank(q) == IF req[q].kind = "create" THEN CreateRank ELSE UpdateRank

\* The slots the transaction still has to clear.
Uncleared(q) == req[q].set \ req[q].cleared

\* The flags of the slot's other holders.
OtherFlags(q, s) == {<<v, s>> : v \in Holders(s) \ {req[q].version}}

\* Faulty variant: the previous holder is read without a lock.
FaultyClearSlot(q, s) ==
    /\ req[q].pc = "clear"
    /\ s \in Uncleared(q)
    /\ req' = [req EXCEPT ![q] =
                   [req[q] EXCEPT !.cleared = req[q].cleared \cup {s},
                                  !.demoted = req[q].demoted \cup OtherFlags(q, s)]]
    /\ UNCHANGED <<rows, holds, objects, slotLock, rowLock, writes>>

\* clearStableFlag, clearBetaFlag, clearCurrentUpdaterFlag and the same UPDATE
\* for is_critical: every other holder of the slot loses it.  (A create clears
\* is_critical on its own version too; that row cannot exist, or the INSERT fails.)
ClearSlot(q, s) ==
    /\ req[q].pc = "clear"
    /\ s \in Uncleared(q)
    /\ \A t \in Uncleared(q) : Rank(q)[s] <= Rank(q)[t]
    /\ slotLock[s] \in {q, Nobody}
    /\ \A v \in Holders(s) : CanLock(q, v)
    /\ slotLock' = [slotLock EXCEPT ![s] = q]
    /\ rowLock' = [v \in Versions |-> IF v \in Holders(s) THEN q ELSE rowLock[v]]
    /\ req' = [req EXCEPT ![q] =
                   [req[q] EXCEPT !.cleared = req[q].cleared \cup {s},
                                  !.demoted = req[q].demoted \cup OtherFlags(q, s)]]
    /\ UNCHANGED <<rows, holds, objects, writes>>

\* Faulty variant: the number of rows the UPDATE changed is not looked at.
FaultyWriteRow(q) ==
    /\ req[q].pc = "clear"
    /\ Uncleared(q) = {}
    /\ CanLock(q, req[q].version)
    /\ req[q].kind = "create" => ~Exists(req[q].version)
    /\ rowLock' = [rowLock EXCEPT ![req[q].version] = q]
    /\ req' = [req EXCEPT ![q] = [@ EXCEPT !.pc = "commit"]]
    /\ UNCHANGED <<rows, holds, objects, slotLock, writes>>

\* The INSERT, or the UPDATE of the version's row.  A version that exists is a
\* duplicate key for the first, one that does not is zero rows for the second:
\* the handler answers an error and its transaction is rolled back.
WriteRow(q) ==
    /\ req[q].pc = "clear"
    /\ Uncleared(q) = {}
    /\ CanLock(q, req[q].version)
    /\ IF Exists(req[q].version) <=> req[q].kind = "update"
       THEN /\ rowLock' = [rowLock EXCEPT ![req[q].version] = q]
            /\ req' = [req EXCEPT ![q] = [@ EXCEPT !.pc = "commit"]]
            /\ UNCHANGED slotLock
       ELSE End(q)
    /\ UNCHANGED <<rows, holds, objects, writes>>

\* tx.Commit: the demotions and the new row or flags become visible together.
\* An UPDATE of a version that has no row has set no flag.
Commit(q) ==
    LET r == req[q] IN
    /\ r.pc = "commit"
    /\ rows' = IF r.kind = "create"
               THEN [rows EXCEPT ![r.version] = [file |-> r.file, sum |-> r.content]]
               ELSE rows
    /\ holds' = ((holds \ r.demoted) \ {<<r.version, s>> : s \in r.unset})
                    \cup {<<r.version, s>> :
                              s \in IF r.kind = "create" \/ Exists(r.version) THEN r.set ELSE {}}
    /\ End(q)
    /\ UNCHANGED <<objects, writes>>

\* DeleteRelease, DeleteUpdaterRelease: the SELECT of the file name, no lock.
DeleteRelease(q, v) ==
    /\ Exists(v)
    /\ Begin(q, MkReq("delete", "remove", v, rows[v].file, NoContent, {}, {}))

\* The object goes first; one that is not there is no error.
RemoveInstaller(q) ==
    /\ req[q].pc = "remove"
    /\ PutObject(req[q].file, NoContent)
    /\ req' = [req EXCEPT ![q] = [@ EXCEPT !.pc = "drop"]]
    /\ UNCHANGED <<rows, holds, slotLock, rowLock>>

\* The DELETE by version, a statement of its own; zero rows is answered 404.
DropRow(q) ==
    LET v == req[q].version IN
    /\ req[q].pc = "drop"
    /\ CanLock(q, v)
    /\ rows' = [rows EXCEPT ![v] = NoRow]
    /\ holds' = {h \in holds : h[1] # v}
    /\ End(q)
    /\ UNCHANGED <<objects, writes>>

\* DownloadRelease, DownloadUpdater: the SELECT of the file name.  The manifest
\* handlers read one row set in one SELECT; the version is one of theirs or any other.
DownloadRelease(q, v) ==
    /\ Exists(v)
    /\ Begin(q, MkReq("download", "get", v, rows[v].file, NoContent, {}, {}))

\* GetFile: an object that is gone is answered 404.
OpenInstaller(q) ==
    /\ req[q].pc = "get"
    /\ IF objects[req[q].file] # NoContent
       THEN /\ req' = [req EXCEPT ![q] = [@ EXCEPT !.pc = "stream", !.content = objects[req[q].file]]]
            /\ UNCHANGED <<slotLock, rowLock>>
       ELSE End(q)
    /\ UNCHANGED <<rows, holds, objects, writes>>

\* streamInstaller, complete or cut short, and RecordEvent, which UpdaterClients
\* models.
StreamInstaller(q) ==
    /\ req[q].pc = "stream"
    /\ End(q)
    /\ UNCHANGED <<rows, holds, objects, writes>>

\* Any statement or storage call fails, the client goes away, the 30 s timeout
\* cancels the request, InnoDB picks the transaction as a deadlock's victim, or
\* the process dies: the transaction is rolled back, the bucket stays as it is.
Abort(q) ==
    /\ req[q].pc # "idle"
    /\ End(q)
    /\ UNCHANGED <<rows, holds, objects, writes>>

Next ==
    \E q \in Requests :
        \/ \E v \in Versions, f \in Filenames, c \in Contents, set \in SUBSET Slots :
               CreateRelease(q, v, f, c, set)
        \/ \E v \in Versions, set \in SUBSET Slots : PutRelease(q, v, set)
        \/ \E v \in Versions, set, unset \in SUBSET Slots : PatchRelease(q, v, set, unset)
        \/ \E v \in Versions : DeleteRelease(q, v)
        \/ \E v \in Versions : DownloadRelease(q, v)
        \/ \E s \in Slots : ClearSlot(q, s)
        \/ UploadInstaller(q)
        \/ WriteRow(q)
        \/ Commit(q)
        \/ RemoveInstaller(q)
        \/ DropRow(q)
        \/ OpenInstaller(q)
        \/ StreamInstaller(q)
        \/ Abort(q)

Spec == Init /\ [][Next]_vars

-----------------------------------------------------------------------------
\* At most one release holds each slot, whatever promotions, updates and
\* deletions run at once (clearStableFlag, clearBetaFlag and
\* clearCurrentUpdaterFlag before the write, in one transaction): the manifest
\* has one answer per slot.
AtMostOneHolder ==
    \A s \in Slots : \A v, w \in Manifest(s) : v = w

\* A transaction that has cleared a slot still holds it, and the flags it has
\* reset are all that stand in the way of its own version.
ClearedIsLocked ==
    \A q \in Requests : \A s \in req[q].cleared :
        /\ slotLock[s] = q
        /\ \A v \in Holders(s) : v # req[q].version => <<v, s>> \in req[q].demoted

\* A transaction that is about to commit has cleared every slot it takes, and
\* holds its row, which exists unless it is being created.
ReadyToCommit ==
    \A q \in Requests : req[q].pc = "commit" =>
        /\ req[q].set \subseteq req[q].cleared
        /\ rowLock[req[q].version] = q
        /\ req[q].kind \in {"create", "update"}
        /\ Exists(req[q].version) <=> req[q].kind = "update"

\* A flag is on a row of the table; a reset flag is on a locked row, which no
\* other request can delete or change before the commit.
FlagsOnRows ==
    /\ \A h \in holds : Exists(h[1])
    /\ \A q \in Requests : \A h \in req[q].demoted :
           /\ h \in holds
           /\ rowLock[h[1]] = q
           /\ h[2] \in req[q].cleared
           /\ h[1] # req[q].version

\* Only a create and an update take, give up or clear slots.
SlotsOfWriters ==
    \A q \in Requests :
        /\ req[q].set \cap req[q].unset = {}
        /\ req[q].cleared \subseteq req[q].set
        /\ req[q].pc \in {"clear", "commit"} => req[q].kind \in {"create", "update"}
        /\ req[q].pc \notin {"clear", "commit"} => req[q].cleared = {} /\ req[q].demoted = {}

\* A release that is listed, or whose installer is uploaded, has had its object
\* written; if nothing else was written under that name, it is still there.
InPlace(f, c) == f \in Filenames /\ writes[f] > 0 /\ (writes[f] = 1 => objects[f] = c)

InstallerInPlace ==
    /\ \A v \in Versions : Exists(v) => InPlace(rows[v].file, rows[v].sum)
    /\ \A q \in Requests :
        /\ req[q].pc = "upload" =>
               req[q].kind = "create" /\ req[q].file \in Filenames /\ req[q].content \in Contents
        /\ req[q].kind = "create" /\ req[q].pc \in {"clear", "commit"} =>
               req[q].content \in Contents /\ InPlace(req[q].file, req[q].content)
        /\ req[q].pc \in {"remove", "get"} =>
               req[q].file \in Filenames /\ writes[req[q].file] > 0
        /\ req[q].pc # "idle" => req[q].version \in Versions

\* The inductive invariant.
IInv ==
    /\ TypeOK
    /\ AtMostOneHolder
    /\ ClearedIsLocked
    /\ ReadyToCommit
    /\ FlagsOnRows
    /\ SlotsOfWriters
    /\ InstallerInPlace

\* A slot that a release holds falls empty only because an update of that
\* release gave the slot up or the release was deleted: a promotion that
\* fails, or whose release is deleted under it, leaves the holder where it was
\* (the RowsAffected check before the commit in PatchRelease, PutRelease and
\* PatchUpdaterRelease).
SlotNeverLost ==
    [][\A s \in Slots : \A v \in Holders(s) :
           Holders(s)' = {} =>
               \E q \in Requests :
                   /\ req[q].version = v
                   /\ \/ req[q].pc = "commit" /\ s \in req[q].unset
                      \/ req[q].pc = "drop"]_vars

\* The object a row names is the one its checksum was computed from, as long as
\* no other request has uploaded or deleted under that name: a release is never
\* listed before its installer is in place (the upload before the INSERT in
\* CreateRelease), and no failure of another step loses it.
UntouchedInstallerServed ==
    \A v \in Versions :
        Exists(v) /\ writes[rows[v].file] < 2 => objects[rows[v].file] = rows[v].sum

\* What a download streams is what the checksum of its release describes.
ChecksumDescribesServed ==
    \A q \in Requests :
        req[q].pc = "stream" /\ Exists(req[q].version) => req[q].content = rows[req[q].version].sum
=============================================================================

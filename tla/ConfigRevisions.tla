--------------------------- MODULE ConfigRevisions ---------------------------
(***************************************************************************)
(* The revisions of the remote config document on the primary instance:    *)
(* the write handlers of internal/configapi/config.route.go over the table *)
(* remote_config_revisions (migrations/10_remote_config.sql).              *)
(*                                                                         *)
(* A handler is a transaction of several statements; the requests of two   *)
(* administrators interleave between them.  The database is InnoDB at its  *)
(* default isolation, modelled by what it guarantees here:                 *)
(*  - a plain SELECT sees the committed rows (each transaction has at most *)
(*    one before its first write, so that read takes the snapshot);        *)
(*  - FOR UPDATE and UPDATE lock the rows they read, and block while       *)
(*    another transaction holds one of them; rowLock[0] stands for the     *)
(*    supremum that MAX(revision) locks in an empty table;                 *)
(*  - UPDATE ... WHERE status = 'published' also locks that range of       *)
(*    idx_status, into which a publishing transaction has to insert; two   *)
(*    holders of the range deadlock and one of them is rolled back, which  *)
(*    is the lock pubLock together with Abort;                             *)
(*  - a transaction's writes are seen by nobody before its commit.         *)
(***************************************************************************)
EXTENDS Naturals

CONSTANTS
    Admins,             \* concurrent requests to the write handlers
    Docs,               \* document contents, generatedAt included
    MaxRevision,        \* bound on revision numbers (INT UNSIGNED in the table)
    NoDoc,
    Nobody

ASSUME ConfigAssumption ==
    /\ MaxRevision \in Nat
    /\ NoDoc \notin Docs
    /\ Nobody \notin Admins

VARIABLES
    rows,               \* the committed table: revision -> [status, doc]
    rowLock,            \* revision (0: supremum) -> the transaction that locks it
    pubLock,            \* the transaction that holds the 'published' range of idx_status
    tx                  \* administrator -> its open transaction

configVars == <<rows, rowLock, pubLock, tx>>

Revisions == 1..MaxRevision

NoRow == [status |-> "none", doc |-> NoDoc]

Row == [status : {"none", "draft", "published", "superseded"}, doc : Docs \cup {NoDoc}]

\* pc     what the handler does next; "idle" outside a handler
\* rev    the revision it works on, 0 before it has one
\* doc    the content it inserts; NoDoc for PublishConfigRevision
\* publish  whether it calls publishRevisionTx
\* old    the rows its UPDATE ... SET status = 'superseded' has changed
Tx == [pc : {"idle", "alloc", "check", "supersede", "commit"},
       rev : 0..MaxRevision, doc : Docs \cup {NoDoc}, publish : BOOLEAN,
       old : SUBSET Revisions]

MkTx(pc, rev, doc, publish, old) ==
    [pc |-> pc, rev |-> rev, doc |-> doc, publish |-> publish, old |-> old]

IdleTx == MkTx("idle", 0, NoDoc, FALSE, {})

Status(r) == rows[r].status
PublishedRevs == {r \in Revisions : Status(r) = "published"}

ConfigTypeOK ==
    /\ rows \in [Revisions -> Row]
    /\ rowLock \in [0..MaxRevision -> Admins \cup {Nobody}]
    /\ pubLock \in Admins \cup {Nobody}
    /\ tx \in [Admins -> Tx]

ConfigInit ==
    /\ rows = [r \in Revisions |-> NoRow]
    /\ rowLock = [r \in 0..MaxRevision |-> Nobody]
    /\ pubLock = Nobody
    /\ tx = [a \in Admins |-> IdleTx]

-----------------------------------------------------------------------------
\* The end of a's transaction, committed or rolled back, frees its locks.
ReleaseLocks(a) ==
    /\ rowLock' = [r \in 0..MaxRevision |-> IF rowLock[r] = a THEN Nobody ELSE rowLock[r]]
    /\ pubLock' = IF pubLock = a THEN Nobody ELSE pubLock
    /\ tx' = [tx EXCEPT ![a] = IdleTx]

CanLock(a, r) == rowLock[r] \in {a, Nobody}

\* CreateConfigRevision: a request with a valid document.
BeginCreate(a, d, publish) ==
    /\ tx[a].pc = "idle"
    /\ tx' = [tx EXCEPT ![a] = MkTx("alloc", 0, d, publish, {})]
    /\ UNCHANGED <<rows, rowLock, pubLock>>

\* RollbackConfig: the source, which is not a draft, is read without a lock.
\* Its content becomes the content of the new revision.
BeginRollback(a, src) ==
    /\ tx[a].pc = "idle"
    /\ Status(src) \in {"published", "superseded"}
    /\ tx' = [tx EXCEPT ![a] = MkTx("alloc", 0, rows[src].doc, TRUE, {})]
    /\ UNCHANGED <<rows, rowLock, pubLock>>

\* MAX(revision) over the committed rows, 0 for an empty table.
IsMaxRevision(m) ==
    /\ m # 0 => Status(m) # "none"
    /\ \A r \in Revisions : Status(r) # "none" => r <= m

\* SELECT MAX(revision) ... FOR UPDATE, then the INSERT of the draft, which
\* stays invisible until the commit.
AllocRevision(a) ==
    /\ tx[a].pc = "alloc"
    /\ \E m \in 0..MaxRevision :
        /\ IsMaxRevision(m)
        /\ m < MaxRevision
        /\ CanLock(a, m)
        /\ rowLock' = [rowLock EXCEPT ![m] = a]
        /\ tx' = [tx EXCEPT ![a] =
                      MkTx(IF tx[a].publish THEN "supersede" ELSE "commit",
                           m + 1, tx[a].doc, tx[a].publish, {})]
    /\ UNCHANGED <<rows, pubLock>>

\* Faulty variant: FOR UPDATE is missing and so is the check of the status.
FaultyBeginPublish(a, r) ==
    /\ tx[a].pc = "idle"
    /\ Status(r) \in {"draft", "superseded"}
    /\ tx' = [tx EXCEPT ![a] = MkTx("check", r, NoDoc, TRUE, {})]
    /\ UNCHANGED <<rows, rowLock, pubLock>>

\* PublishConfigRevision: SELECT status ... FOR UPDATE.  A missing, published
\* or superseded revision is answered 404 or 409 and nothing changes.
BeginPublish(a, r) ==
    /\ tx[a].pc = "idle"
    /\ CanLock(a, r)
    /\ Status(r) = "draft"
    /\ rowLock' = [rowLock EXCEPT ![r] = a]
    /\ tx' = [tx EXCEPT ![a] = MkTx("check", r, NoDoc, TRUE, {})]
    /\ UNCHANGED <<rows, pubLock>>

\* PublishConfigRevision: the plain SELECT of the published revision.  A draft
\* that is older than it is refused, and the transaction rolled back.
CheckCurrent(a) ==
    /\ tx[a].pc = "check"
    /\ IF \A p \in PublishedRevs : tx[a].rev > p
       THEN /\ tx' = [tx EXCEPT ![a] = MkTx("supersede", tx[a].rev, tx[a].doc, TRUE, {})]
            /\ UNCHANGED <<rowLock, pubLock>>
       ELSE ReleaseLocks(a)
    /\ UNCHANGED rows

\* Faulty variant: the UPDATE does not keep other publishers out.
FaultySupersede(a) ==
    /\ tx[a].pc = "supersede"
    /\ tx' = [tx EXCEPT ![a] = MkTx("commit", tx[a].rev, tx[a].doc, TRUE, PublishedRevs)]
    /\ UNCHANGED <<rows, rowLock, pubLock>>

\* publishRevisionTx: both UPDATEs.  The first locks and changes the rows that
\* are published now; the second changes the transaction's own revision.  That it
\* asks for status='draft' once more, and fails with errRevisionNotDraft when no
\* row was affected, is left out: the transaction holds the lock of that row
\* since it inserted it or saw it a draft, so the re-check always succeeds.
SupersedePublished(a) ==
    /\ tx[a].pc = "supersede"
    /\ pubLock \in {a, Nobody}
    /\ \A p \in PublishedRevs : CanLock(a, p)
    /\ pubLock' = a
    /\ rowLock' = [r \in 0..MaxRevision |-> IF r \in PublishedRevs THEN a ELSE rowLock[r]]
    /\ tx' = [tx EXCEPT ![a] = MkTx("commit", tx[a].rev, tx[a].doc, TRUE, PublishedRevs)]
    /\ UNCHANGED rows

\* What a's commit makes of the row r.
Committed(a, r) ==
    LET t == tx[a] IN
    IF r = t.rev
    THEN [status |-> IF t.publish THEN "published" ELSE "draft",
          doc |-> IF t.doc = NoDoc THEN rows[r].doc ELSE t.doc]
    ELSE IF r \in t.old THEN [status |-> "superseded", doc |-> rows[r].doc]
    ELSE rows[r]

Commit(a) ==
    /\ tx[a].pc = "commit"
    /\ rows' = [r \in Revisions |-> Committed(a, r)]
    /\ ReleaseLocks(a)

\* Every error path, and the deferred tx.Rollback: a failed statement, a
\* deadlock victim, a lock wait timeout, a client that went away.
Abort(a) ==
    /\ tx[a].pc # "idle"
    /\ ReleaseLocks(a)
    /\ UNCHANGED rows

\* Faulty variant: the status is not in the WHERE clause.
FaultyDelete(r) ==
    /\ rowLock[r] = Nobody
    /\ Status(r) # "none"
    /\ rows' = [rows EXCEPT ![r] = NoRow]
    /\ UNCHANGED <<rowLock, pubLock, tx>>

\* DeleteConfigRevision: one statement of its own transaction.
DeleteRevision(r) ==
    /\ rowLock[r] = Nobody
    /\ Status(r) = "draft"
    /\ rows' = [rows EXCEPT ![r] = NoRow]
    /\ UNCHANGED <<rowLock, pubLock, tx>>

PrimaryNext ==
    \/ \E a \in Admins :
        \/ \E d \in Docs, p \in BOOLEAN : BeginCreate(a, d, p)
        \/ \E r \in Revisions : BeginRollback(a, r) \/ BeginPublish(a, r)
        \/ AllocRevision(a) \/ CheckCurrent(a) \/ SupersedePublished(a)
        \/ Commit(a) \/ Abort(a)
    \/ \E r \in Revisions : DeleteRevision(r)

PrimarySpec == ConfigInit /\ [][PrimaryNext]_configVars

-----------------------------------------------------------------------------
(* Properties of the primary.                                              *)

\* GET /v2/config selects with LIMIT 1 and no order: there must never be two
\* published rows to choose from, whatever publishes, creates with publish and
\* rollbacks run at once (publishRevisionTx).
AtMostOnePublished ==
    \A p, q \in Revisions : Status(p) = "published" /\ Status(q) = "published" => p = q

\* A step that leaves something published if something was.
KeepsServing == PublishedRevs # {} => PublishedRevs' # {}

\* Once a document is published there always is one: a client is never told
\* 204 again (the two UPDATEs of publishRevisionTx are one transaction, and
\* DELETE spares everything but drafts).
NeverUnpublished == [][KeepsServing]_configVars

\* A step that keeps what was ever published.
KeepsPublished ==
    \A r \in Revisions :
        /\ Status(r) \in {"published", "superseded"} =>
              Status(r)' \in {"published", "superseded"} /\ rows'[r].doc = rows[r].doc
        /\ Status(r) = "superseded" => Status(r)' = "superseded"

\* A row that was ever served keeps its content and never becomes a draft or
\* disappears, and a superseded one is never served again: the way back is a
\* rollback to a new revision (§7.3 and §7.4 as the handlers implement them).
PublishedIsForever == [][KeepsPublished]_configVars

\* "so a lagging mirror can never see a lower revision than what the fleet
\* already has" (RollbackConfig): the published revision only grows.
PublishedRevisionGrows ==
    [][\A p \in PublishedRevs : \A q \in PublishedRevs' : p <= q]_configVars

-----------------------------------------------------------------------------
(* The inductive invariant (ConfigProofs).                                 *)

\* A row that exists has a content.
RowHasDoc ==
    \A r \in Revisions : Status(r) # "none" => rows[r].doc \in Docs

\* A handler that inserts holds the lock of the highest revision, so the
\* number after it stays free until it commits.
AllocHeld ==
    \A a \in Admins :
        /\ tx[a].pc = "alloc" => tx[a].doc \in Docs
        /\ tx[a].pc \in {"supersede", "commit"} /\ tx[a].doc # NoDoc =>
            /\ tx[a].rev \in Revisions
            /\ IsMaxRevision(tx[a].rev - 1)
            /\ rowLock[tx[a].rev - 1] = a

\* PublishConfigRevision holds the lock of its revision, which stays a draft.
DraftHeld ==
    \A a \in Admins :
        tx[a].pc \in {"check", "supersede", "commit"} /\ tx[a].doc = NoDoc =>
            /\ tx[a].rev \in Revisions
            /\ tx[a].publish
            /\ Status(tx[a].rev) = "draft"
            /\ rowLock[tx[a].rev] = a

\* Between its UPDATE and its commit a publisher is alone with the published
\* rows, so what it has superseded is still all there is.
PublisherAlone ==
    \A a \in Admins :
        /\ tx[a].pc = "check" => tx[a].doc = NoDoc
        /\ tx[a].pc = "commit" /\ tx[a].publish => pubLock = a /\ tx[a].old = PublishedRevs
        /\ tx[a].pc = "commit" /\ ~tx[a].publish => tx[a].old = {}

ConfigIInv ==
    /\ ConfigTypeOK
    /\ RowHasDoc
    /\ AllocHeld
    /\ DraftHeld
    /\ PublisherAlone
    /\ AtMostOnePublished
=============================================================================

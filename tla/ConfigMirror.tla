---------------------------- MODULE ConfigMirror ----------------------------
(***************************************************************************)
(* An on-premise instance that replicates the primary's published config:  *)
(* internal/configmirror/configmirror.go, composed with the primary.       *)
(*                                                                         *)
(* The loop is one goroutine and the only writer of the mirror's table     *)
(* (every write handler answers 405 on a mirror).  Reading the local ETag, *)
(* fetching from the primary and storing are three steps, and the primary  *)
(* moves on between them.  The process may crash and restart anywhere: the *)
(* table survives, the loop starts over.                                   *)
(*                                                                         *)
(* The ETag is the SHA-256 of the canonical document, which contains its   *)
(* revision: <<revision, doc>> here.  None stands for no published row,    *)
(* an absent If-None-Match header and a 204 answer.                        *)
(***************************************************************************)
EXTENDS ConfigRevisions

VARIABLES
    mrows,              \* the mirror's table: revision -> [status, doc]
    mpc,                \* "read" | "fetch" | "store"
    localETag,          \* what currentPublishedETag returned, while it is needed
    fetched             \* the document of a 200 answer, until it is stored

mirrorVars == <<mrows, mpc, localETag, fetched>>
vars == <<configVars, mirrorVars>>

None == <<0, NoDoc>>
ETags == (Revisions \X Docs) \cup {None}

\* SELECT ... WHERE status = 'published' LIMIT 1, on either instance.
PublishedOf(table) ==
    IF \E r \in Revisions : table[r].status = "published"
    THEN LET r == CHOOSE r \in Revisions : table[r].status = "published"
         IN <<r, table[r].doc>>
    ELSE None

TypeOK ==
    /\ ConfigTypeOK
    /\ mrows \in [Revisions -> Row]
    /\ mpc \in {"read", "fetch", "store"}
    /\ localETag \in ETags
    /\ fetched \in ETags

Init ==
    /\ ConfigInit
    /\ mrows = [r \in Revisions |-> NoRow]
    /\ mpc = "read"
    /\ localETag = None
    /\ fetched = None

Primary == PrimaryNext /\ UNCHANGED mirrorVars

\* syncOnce: currentPublishedETag.
ReadLocalETag ==
    /\ mpc = "read"
    /\ mpc' = "fetch"
    /\ localETag' = PublishedOf(mrows)
    /\ UNCHANGED <<configVars, mrows, fetched>>

\* syncOnce: a 204 or a 304 answer (GetConfig on the primary); nothing to do.
FetchNoChange ==
    /\ mpc = "fetch"
    /\ PublishedOf(rows) \in {None, localETag}
    /\ mpc' = "read"
    /\ localETag' = None
    /\ UNCHANGED <<configVars, mrows, fetched>>

\* syncOnce: a 200 answer that passes Parse and the comparison of hashes.
FetchDocument ==
    /\ mpc = "fetch"
    /\ PublishedOf(rows) \notin {None, localETag}
    /\ mpc' = "store"
    /\ fetched' = PublishedOf(rows)
    /\ localETag' = None
    /\ UNCHANGED <<configVars, mrows>>

\* Faulty variant: a revision that is not newer than the local one is ignored.
FaultyAlreadyCurrent(r) == \E q \in Revisions : q >= r /\ mrows[q].status = "published"

\* storeReplicatedRevision: SELECT COUNT(*) > 0 ... AND status = 'published'.
AlreadyCurrent(r) == mrows[r].status = "published"

\* storeReplicatedRevision: supersede, then INSERT ... ON DUPLICATE KEY UPDATE.
StoredRow(r) ==
    IF r = fetched[1] THEN [status |-> "published", doc |-> fetched[2]]
    ELSE IF mrows[r].status = "published"
    THEN [status |-> "superseded", doc |-> mrows[r].doc]
    ELSE mrows[r]

StoreReplicated ==
    /\ mpc = "store"
    /\ mrows' = IF AlreadyCurrent(fetched[1]) THEN mrows
                ELSE [r \in Revisions |-> StoredRow(r)]
    /\ mpc' = "read"
    /\ fetched' = None
    /\ UNCHANGED <<configVars, localETag>>

\* Every recordError path (database or network error, a status that is not
\* 200, a rejected document) and a crash with a restart: the next tick, or
\* the first syncOnce of the new process, starts over.
SyncFails ==
    /\ mpc # "read"
    /\ mpc' = "read"
    /\ localETag' = None
    /\ fetched' = None
    /\ UNCHANGED <<configVars, mrows>>

Next ==
    \/ Primary
    \/ ReadLocalETag \/ FetchNoChange \/ FetchDocument \/ StoreReplicated \/ SyncFails

\* The ticker keeps the loop running, and a fetch or a store that is tried
\* again and again succeeds some time.  Nothing is assumed of administrators.
Fairness ==
    /\ WF_vars(ReadLocalETag)
    /\ SF_vars(FetchNoChange)
    /\ SF_vars(FetchDocument)
    /\ SF_vars(StoreReplicated)

SafetySpec == Init /\ [][Next]_vars
Spec == SafetySpec /\ Fairness

-----------------------------------------------------------------------------
(* Properties of the composition.                                          *)

\* The mirror serves at most one document too.
MirrorAtMostOne ==
    \A p, q \in Revisions :
        mrows[p].status = "published" /\ mrows[q].status = "published" => p = q

\* What the mirror has under a revision number is what the primary published
\* under it, in spite of deleted drafts whose number is given out again, of
\* the check for the revision alone in storeReplicatedRevision, and of
\* everything that happens between the fetch and the store.
MirrorFaithful ==
    \A r \in Revisions : mrows[r].status # "none" =>
        /\ Status(r) \in {"published", "superseded"}
        /\ rows[r].doc = mrows[r].doc

\* The mirror ends up serving what the primary serves, once administrators
\* stop publishing (each revision is published at most once, so they do).
MirrorConverges == <>[](PublishedOf(mrows) = PublishedOf(rows))

-----------------------------------------------------------------------------
(* The inductive invariant (ConfigProofs).                                 *)

\* A fetched document was published by the primary, which keeps it.
FetchedWasPublished ==
    mpc = "store" =>
        /\ fetched[1] \in Revisions
        /\ Status(fetched[1]) \in {"published", "superseded"}
        /\ fetched[2] = rows[fetched[1]].doc

IInv ==
    /\ ConfigIInv
    /\ TypeOK
    /\ FetchedWasPublished
    /\ MirrorAtMostOne
    /\ MirrorFaithful
=============================================================================

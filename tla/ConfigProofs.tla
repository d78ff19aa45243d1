---------------------------- MODULE ConfigProofs ----------------------------
(***************************************************************************)
(* Proofs about the config revisions on the primary and their mirror, for  *)
(* every number of administrators, documents and revisions.                *)
(*                                                                         *)
(* ConfigIInv says which lock protects what: the lock of the highest       *)
(* revision protects the number after it (AllocHeld), the lock of a draft  *)
(* protects its status (DraftHeld), and the lock of the published range    *)
(* protects the set of published rows between the UPDATE that supersedes   *)
(* them and the commit (PublisherAlone).                                   *)
(***************************************************************************)
EXTENDS ConfigMirror, TLAPS

\* The empty table satisfies the invariant.
LEMMA ConfigInitInv == ConfigInit => ConfigIInv
<1> SUFFICES ASSUME ConfigInit PROVE ConfigIInv
  OBVIOUS
<1> USE ConfigAssumption DEF ConfigInit, Revisions, NoRow, IdleTx, MkTx
<1>1. ConfigTypeOK
  BY DEF ConfigTypeOK, Row, Tx
<1>2. RowHasDoc /\ AtMostOnePublished
  BY DEF RowHasDoc, Status, AtMostOnePublished
<1>3. AllocHeld /\ DraftHeld /\ PublisherAlone
  BY DEF AllocHeld, DraftHeld, PublisherAlone
<1> QED
  BY <1>1, <1>2, <1>3 DEF ConfigIInv

\* A transaction that begins or goes on changes its own record and no row.
LEMMA BeginStep ==
  ASSUME ConfigIInv, NEW a \in Admins, NEW d \in Docs, NEW p \in BOOLEAN,
         tx' = [tx EXCEPT ![a] = MkTx("alloc", 0, d, p, {})],
         tx[a].pc = "idle",
         UNCHANGED <<rows, rowLock, pubLock>>
  PROVE  ConfigIInv'
<1> USE ConfigAssumption DEF ConfigIInv, Revisions, MkTx
<1>1. ConfigTypeOK'
  BY DEF ConfigTypeOK, Tx
<1>2. \A b \in Admins : b # a => tx'[b] = tx[b]
  BY DEF ConfigTypeOK
<1>3. tx'[a] = [pc |-> "alloc", rev |-> 0, doc |-> d, publish |-> p, old |-> {}]
  BY DEF ConfigTypeOK
<1>4. RowHasDoc' /\ AtMostOnePublished'
  BY DEF RowHasDoc, Status, AtMostOnePublished
<1>5. AllocHeld'
  BY <1>2, <1>3 DEF AllocHeld, IsMaxRevision, Status
<1>6. DraftHeld'
  BY <1>2, <1>3 DEF DraftHeld, Status
<1>7. PublisherAlone'
  BY <1>2, <1>3 DEF PublisherAlone, PublishedRevs, Status
<1> QED
  BY <1>1, <1>4, <1>5, <1>6, <1>7

\* The end of a transaction without a write.
LEMMA ReleaseStep ==
  ASSUME ConfigIInv, NEW a \in Admins, ReleaseLocks(a), UNCHANGED rows
  PROVE  ConfigIInv'
<1> USE ConfigAssumption DEF ConfigIInv, Revisions
<1>1. /\ tx' = [tx EXCEPT ![a] = IdleTx]
      /\ rowLock' = [r \in 0..MaxRevision |-> IF rowLock[r] = a THEN Nobody ELSE rowLock[r]]
      /\ pubLock' = IF pubLock = a THEN Nobody ELSE pubLock
  BY DEF ReleaseLocks
<1>2. ConfigTypeOK'
  BY <1>1 DEF ConfigTypeOK, Tx, IdleTx, MkTx
<1>3. /\ \A b \in Admins : b # a => tx'[b] = tx[b]
      /\ tx'[a].pc = "idle"
  BY <1>1 DEF ConfigTypeOK, IdleTx, MkTx
<1>4. \A b \in Admins, r \in 0..MaxRevision : b # a /\ rowLock[r] = b => rowLock'[r] = b
  BY <1>1
<1>5. RowHasDoc' /\ AtMostOnePublished'
  BY DEF RowHasDoc, Status, AtMostOnePublished
<1>6. AllocHeld'
  BY <1>3, <1>4 DEF AllocHeld, IsMaxRevision, Status
<1>7. DraftHeld'
  BY <1>3, <1>4 DEF DraftHeld, Status
<1>8. PublisherAlone'
  BY <1>1, <1>3 DEF PublisherAlone, PublishedRevs, Status
<1> QED
  BY <1>2, <1>5, <1>6, <1>7, <1>8

\* Taking locks that nobody else holds, and going on to a later statement:
\* the other transactions keep their locks.
LEMMA LockStep ==
  ASSUME ConfigIInv, NEW a \in Admins, UNCHANGED rows,
         ConfigTypeOK',
         \A b \in Admins : b # a => tx'[b] = tx[b],
         \A b \in Admins, r \in 0..MaxRevision : b # a /\ rowLock[r] = b => rowLock'[r] = b,
         \A b \in Admins : b # a /\ pubLock = b => pubLock' = b,
         AllocHeld!(a)', DraftHeld!(a)', PublisherAlone!(a)'
  PROVE  ConfigIInv'
<1> USE ConfigAssumption DEF ConfigIInv, Revisions
<1>1. RowHasDoc' /\ AtMostOnePublished'
  BY DEF RowHasDoc, Status, AtMostOnePublished
<1>2. AllocHeld'
  BY DEF AllocHeld, IsMaxRevision, Status
<1>3. DraftHeld'
  BY DEF DraftHeld, Status
<1>4. PublisherAlone'
  BY DEF PublisherAlone, PublishedRevs, Status
<1> QED
  BY <1>1, <1>2, <1>3, <1>4

\* SELECT MAX(revision) FOR UPDATE and the INSERT.
LEMMA AllocStep ==
  ASSUME ConfigIInv, NEW a \in Admins, AllocRevision(a)
  PROVE  ConfigIInv'
<1> USE ConfigAssumption DEF ConfigIInv, Revisions, MkTx
<1>1. PICK m \in 0..MaxRevision :
        /\ IsMaxRevision(m) /\ m < MaxRevision /\ CanLock(a, m)
        /\ rowLock' = [rowLock EXCEPT ![m] = a]
        /\ tx' = [tx EXCEPT ![a] = MkTx(IF tx[a].publish THEN "supersede" ELSE "commit",
                                        m + 1, tx[a].doc, tx[a].publish, {})]
  BY DEF AllocRevision
<1>2. /\ UNCHANGED <<rows, pubLock>>
      /\ tx[a].pc = "alloc" /\ tx[a].doc \in Docs /\ tx[a].publish \in BOOLEAN
  BY DEF AllocRevision, AllocHeld, ConfigTypeOK, Tx
<1>3. /\ \A b \in Admins : b # a => tx'[b] = tx[b]
      /\ tx'[a] = MkTx(IF tx[a].publish THEN "supersede" ELSE "commit",
                       m + 1, tx[a].doc, tx[a].publish, {})
      /\ \A b \in Admins, r \in 0..MaxRevision : b # a /\ rowLock[r] = b => rowLock'[r] = b
      /\ rowLock'[m] = a
  BY <1>1 DEF ConfigTypeOK, CanLock
<1>4. ConfigTypeOK'
  BY <1>1, <1>2 DEF ConfigTypeOK, Tx
<1>5. AllocHeld!(a)'
  BY <1>1, <1>2, <1>3 DEF IsMaxRevision, Status
<1>6. DraftHeld!(a)' /\ PublisherAlone!(a)'
  BY <1>2, <1>3
<1> QED
  BY <1>2, <1>3, <1>4, <1>5, <1>6, LockStep

\* PublishConfigRevision locks a draft.
LEMMA BeginPublishStep ==
  ASSUME ConfigIInv, NEW a \in Admins, NEW r \in Revisions, BeginPublish(a, r)
  PROVE  ConfigIInv'
<1> USE ConfigAssumption DEF ConfigIInv, Revisions, MkTx
<1>1. /\ tx' = [tx EXCEPT ![a] = MkTx("check", r, NoDoc, TRUE, {})]
      /\ rowLock' = [rowLock EXCEPT ![r] = a]
      /\ UNCHANGED <<rows, pubLock>>
      /\ Status(r) = "draft" /\ CanLock(a, r)
  BY DEF BeginPublish
<1>2. /\ \A b \in Admins : b # a => tx'[b] = tx[b]
      /\ tx'[a] = MkTx("check", r, NoDoc, TRUE, {})
      /\ \A b \in Admins, q \in 0..MaxRevision : b # a /\ rowLock[q] = b => rowLock'[q] = b
      /\ rowLock'[r] = a
  BY <1>1 DEF ConfigTypeOK, CanLock
<1>3. ConfigTypeOK'
  BY <1>1 DEF ConfigTypeOK, Tx
<1>4. AllocHeld!(a)' /\ DraftHeld!(a)' /\ PublisherAlone!(a)'
  BY <1>1, <1>2 DEF Status
<1> QED
  BY <1>1, <1>2, <1>3, <1>4, LockStep

\* PublishConfigRevision compares with the published revision.
LEMMA CheckStep ==
  ASSUME ConfigIInv, NEW a \in Admins, CheckCurrent(a)
  PROVE  ConfigIInv'
<1> USE ConfigAssumption DEF ConfigIInv, Revisions, MkTx
<1>1. CASE ReleaseLocks(a)
  BY <1>1, ReleaseStep DEF CheckCurrent
<1>2. CASE tx' = [tx EXCEPT ![a] = MkTx("supersede", tx[a].rev, tx[a].doc, TRUE, {})]
           /\ UNCHANGED <<rowLock, pubLock>>
  <2>1. tx[a].pc = "check" /\ UNCHANGED rows /\ tx[a].doc = NoDoc
    BY DEF CheckCurrent, PublisherAlone
  <2>2. /\ \A b \in Admins : b # a => tx'[b] = tx[b]
        /\ tx'[a] = MkTx("supersede", tx[a].rev, tx[a].doc, TRUE, {})
    BY <1>2 DEF ConfigTypeOK
  <2>3. ConfigTypeOK'
    BY <1>2, <2>1 DEF ConfigTypeOK, Tx
  <2>4. AllocHeld!(a)' /\ DraftHeld!(a)' /\ PublisherAlone!(a)'
    BY <1>2, <2>1, <2>2 DEF Status, DraftHeld
  <2> QED
    BY <1>2, <2>1, <2>2, <2>3, <2>4, LockStep
<1> QED
  BY <1>1, <1>2 DEF CheckCurrent

\* publishRevisionTx's UPDATEs: from here on the publisher is alone.
LEMMA SupersedeStep ==
  ASSUME ConfigIInv, NEW a \in Admins, SupersedePublished(a)
  PROVE  ConfigIInv'
<1> USE ConfigAssumption DEF ConfigIInv, Revisions, MkTx
<1>1. /\ tx[a].pc = "supersede" /\ pubLock \in {a, Nobody} /\ pubLock' = a
      /\ \A p \in PublishedRevs : CanLock(a, p)
      /\ rowLock' = [r \in 0..MaxRevision |-> IF r \in PublishedRevs THEN a ELSE rowLock[r]]
      /\ tx' = [tx EXCEPT ![a] = MkTx("commit", tx[a].rev, tx[a].doc, TRUE, PublishedRevs)]
      /\ UNCHANGED rows
  BY DEF SupersedePublished
<1>2. /\ \A b \in Admins : b # a => tx'[b] = tx[b]
      /\ tx'[a] = MkTx("commit", tx[a].rev, tx[a].doc, TRUE, PublishedRevs)
      /\ \A b \in Admins, q \in 0..MaxRevision : b # a /\ rowLock[q] = b => rowLock'[q] = b
      /\ \A q \in 0..MaxRevision : rowLock[q] = a => rowLock'[q] = a
  BY <1>1 DEF ConfigTypeOK, CanLock
<1>3. PublishedRevs \subseteq Revisions /\ PublishedRevs' = PublishedRevs
  BY <1>1 DEF PublishedRevs, Status
<1>4. ConfigTypeOK'
  BY <1>1, <1>3 DEF ConfigTypeOK, Tx
<1>5. AllocHeld!(a)'
  BY <1>1, <1>2 DEF AllocHeld, IsMaxRevision, Status
<1>6. DraftHeld!(a)'
  BY <1>1, <1>2 DEF DraftHeld, Status
<1>7. PublisherAlone!(a)'
  BY <1>1, <1>2, <1>3
<1> QED
  BY <1>1, <1>2, <1>4, <1>5, <1>6, <1>7, LockStep

\* What a commit does to the rows: its own revision, which was absent or a
\* draft, and, when it publishes, every row that was published.
LEMMA CommitFacts ==
  ASSUME ConfigIInv, NEW a \in Admins, Commit(a)
  PROVE  /\ tx[a].rev \in Revisions
         /\ Status(tx[a].rev) \in {"none", "draft"}
         /\ tx[a].doc # NoDoc => Status(tx[a].rev) = "none"
         /\ rows' \in [Revisions -> Row]
         /\ rows'[tx[a].rev].status = IF tx[a].publish THEN "published" ELSE "draft"
         /\ rows'[tx[a].rev].doc \in Docs
         /\ \A r \in Revisions : r # tx[a].rev =>
               /\ rows'[r].doc = rows[r].doc
               /\ rows'[r].status = IF tx[a].publish /\ Status(r) = "published"
                                    THEN "superseded" ELSE Status(r)
<1> USE ConfigAssumption DEF ConfigIInv, Revisions
<1>1. /\ tx[a].pc = "commit" /\ rows' = [r \in Revisions |-> Committed(a, r)]
      /\ tx[a].doc \in Docs \cup {NoDoc} /\ tx[a].publish \in BOOLEAN
  BY DEF Commit, ConfigTypeOK, Tx
<1>2. CASE tx[a].doc = NoDoc
  <2>1. /\ tx[a].rev \in Revisions /\ tx[a].publish /\ Status(tx[a].rev) = "draft"
        /\ tx[a].old = PublishedRevs
    BY <1>1, <1>2 DEF DraftHeld, PublisherAlone
  <2>2. rows[tx[a].rev].doc \in Docs
    BY <2>1 DEF RowHasDoc
  <2> QED
    BY <1>1, <1>2, <2>1, <2>2 DEF Committed, PublishedRevs, Status, ConfigTypeOK, Row
<1>3. CASE tx[a].doc # NoDoc
  <2>1. /\ tx[a].rev \in Revisions /\ IsMaxRevision(tx[a].rev - 1)
        /\ tx[a].old = IF tx[a].publish THEN PublishedRevs ELSE {}
    BY <1>1, <1>3 DEF AllocHeld, PublisherAlone
  <2>2. Status(tx[a].rev) = "none"
    BY <2>1 DEF IsMaxRevision
  <2> QED
    BY <1>1, <1>3, <2>1, <2>2 DEF Committed, PublishedRevs, Status, ConfigTypeOK, Row
<1> QED
  BY <1>2, <1>3

\* A commit keeps the invariant.  Another handler that inserts would have to
\* hold the same lock, another publisher the same range.
LEMMA CommitStep ==
  ASSUME ConfigIInv, NEW a \in Admins, Commit(a)
  PROVE  ConfigIInv'
<1> USE ConfigAssumption DEF ConfigIInv, Revisions
<1> DEFINE v == tx[a].rev
<1>1. /\ tx' = [tx EXCEPT ![a] = IdleTx]
      /\ rowLock' = [r \in 0..MaxRevision |-> IF rowLock[r] = a THEN Nobody ELSE rowLock[r]]
      /\ pubLock' = IF pubLock = a THEN Nobody ELSE pubLock
      /\ tx[a].pc = "commit" /\ tx[a].publish \in BOOLEAN
  BY DEF Commit, ReleaseLocks, ConfigTypeOK, Tx
<1>2. /\ v \in Revisions
      /\ Status(v) \in {"none", "draft"}
      /\ tx[a].doc # NoDoc => Status(v) = "none"
      /\ rows' \in [Revisions -> Row]
      /\ rows'[v].status = IF tx[a].publish THEN "published" ELSE "draft"
      /\ rows'[v].doc \in Docs
      /\ \A r \in Revisions : r # v =>
            /\ rows'[r].doc = rows[r].doc
            /\ rows'[r].status = IF tx[a].publish /\ Status(r) = "published"
                                 THEN "superseded" ELSE Status(r)
  BY CommitFacts
<1> HIDE DEF v
<1>3. ConfigTypeOK'
  BY <1>1, <1>2 DEF ConfigTypeOK, Tx, IdleTx, MkTx, v
<1>4. /\ \A b \in Admins : b # a => tx'[b] = tx[b]
      /\ tx'[a].pc = "idle"
  BY <1>1 DEF ConfigTypeOK, IdleTx, MkTx
<1>5. \A b \in Admins, r \in 0..MaxRevision : b # a /\ rowLock[r] = b => rowLock'[r] = b
  BY <1>1
<1>6. RowHasDoc'
  BY <1>2 DEF RowHasDoc, Status
<1>7. AtMostOnePublished'
  BY <1>2 DEF AtMostOnePublished, Status
<1>8. AllocHeld'
  <2> SUFFICES ASSUME NEW b \in Admins, b # a PROVE AllocHeld!(b)'
    BY <1>4 DEF AllocHeld
  <2>1. tx'[b] = tx[b]
    BY <1>4
  <2>2. CASE ~(tx[b].pc \in {"supersede", "commit"} /\ tx[b].doc # NoDoc)
    BY <2>1, <2>2 DEF AllocHeld
  <2>3. CASE tx[b].pc \in {"supersede", "commit"} /\ tx[b].doc # NoDoc
    <3>1. /\ tx[b].rev \in Revisions /\ IsMaxRevision(tx[b].rev - 1)
          /\ rowLock[tx[b].rev - 1] = b
      BY <2>3 DEF AllocHeld
    <3>2. tx[a].doc = NoDoc
      <4> SUFFICES ASSUME tx[a].doc # NoDoc PROVE FALSE
        OBVIOUS
      <4>1. IsMaxRevision(v - 1) /\ rowLock[v - 1] = a
        BY <1>1 DEF AllocHeld, v
      <4>2. v - 1 = tx[b].rev - 1
        BY <1>2, <3>1, <4>1 DEF IsMaxRevision
      <4> QED
        BY <3>1, <4>1, <4>2
    <3>3. Status(v) = "draft"
      BY <1>1, <3>2 DEF DraftHeld, v
    <3>4. \A r \in Revisions : Status(r) # "none" <=> Status(r)' # "none"
      BY <1>2, <3>3 DEF Status
    <3>5. IsMaxRevision(tx[b].rev - 1)'
      BY <2>1, <3>1, <3>4 DEF IsMaxRevision
    <3> QED
      BY <1>5, <2>1, <2>3, <3>1, <3>5
  <2> QED
    BY <2>2, <2>3
<1>9. DraftHeld'
  <2> SUFFICES ASSUME NEW b \in Admins, b # a, tx[b].pc \in {"check", "supersede", "commit"},
                      tx[b].doc = NoDoc
               PROVE  DraftHeld!(b)'
    BY <1>4 DEF DraftHeld
  <2>1. tx'[b] = tx[b]
    BY <1>4
  <2>2. /\ tx[b].rev \in Revisions /\ tx[b].publish
        /\ Status(tx[b].rev) = "draft" /\ rowLock[tx[b].rev] = b
    BY DEF DraftHeld
  <2>3. tx[b].rev # v
    BY <1>1, <1>2, <2>2 DEF DraftHeld, v
  <2> QED
    BY <1>2, <1>5, <2>1, <2>2, <2>3 DEF Status
<1>10. PublisherAlone'
  <2> SUFFICES ASSUME NEW b \in Admins, b # a PROVE PublisherAlone!(b)'
    BY <1>4 DEF PublisherAlone
  <2>1. tx'[b] = tx[b]
    BY <1>4
  <2>2. CASE tx[b].pc = "commit" /\ tx[b].publish
    <3>1. pubLock = b /\ tx[b].old = PublishedRevs
      BY <2>2 DEF PublisherAlone
    <3>2. ~tx[a].publish
      BY <1>1, <3>1 DEF PublisherAlone
    <3>3. PublishedRevs' = PublishedRevs
      BY <1>2, <3>2 DEF PublishedRevs, Status
    <3> QED
      BY <1>1, <2>1, <2>2, <3>1, <3>3
  <2>3. CASE ~(tx[b].pc = "commit" /\ tx[b].publish)
    BY <2>1, <2>3 DEF PublisherAlone
  <2> QED
    BY <2>2, <2>3
<1> QED
  BY <1>3, <1>6, <1>7, <1>8, <1>9, <1>10

\* Deleting an unlocked draft disturbs nobody's lock, and leaves every row
\* that was ever published alone.
LEMMA DeleteStep ==
  ASSUME ConfigIInv, NEW d \in Revisions, DeleteRevision(d)
  PROVE  ConfigIInv'
<1> USE ConfigAssumption DEF ConfigIInv, Revisions, NoRow
<1>1. /\ rowLock[d] = Nobody /\ Status(d) = "draft" /\ rows' = [rows EXCEPT ![d] = NoRow]
      /\ UNCHANGED <<rowLock, pubLock, tx>>
  BY DEF DeleteRevision
<1>2. /\ rows'[d] = NoRow
      /\ \A r \in Revisions : r # d => rows'[r] = rows[r]
  BY <1>1 DEF ConfigTypeOK
<1>3. ConfigTypeOK'
  BY <1>1 DEF ConfigTypeOK, Row
<1>4. RowHasDoc' /\ AtMostOnePublished'
  BY <1>2 DEF RowHasDoc, Status, AtMostOnePublished
<1>5. AllocHeld'
  BY <1>1, <1>2 DEF AllocHeld, IsMaxRevision, Status
<1>6. DraftHeld'
  BY <1>1, <1>2 DEF DraftHeld, Status
<1>7. PublisherAlone'
  BY <1>1, <1>2 DEF PublisherAlone, PublishedRevs, Status
<1> QED
  BY <1>3, <1>4, <1>5, <1>6, <1>7

\* ConfigIInv is inductive.
LEMMA PrimaryStep ==
  ASSUME ConfigIInv, [PrimaryNext]_configVars
  PROVE  ConfigIInv'
<1> USE ConfigAssumption
<1>1. ASSUME NEW a \in Admins, NEW d \in Docs, NEW p \in BOOLEAN, BeginCreate(a, d, p) PROVE ConfigIInv'
  BY <1>1, BeginStep DEF BeginCreate
<1>2. ASSUME NEW a \in Admins, NEW r \in Revisions, BeginRollback(a, r) PROVE ConfigIInv'
  <2>1. rows[r].doc \in Docs
    BY <1>2 DEF BeginRollback, ConfigIInv, RowHasDoc, Status
  <2> QED
    BY <1>2, <2>1, BeginStep DEF BeginRollback
<1>3. ASSUME NEW a \in Admins, Abort(a) PROVE ConfigIInv'
  BY <1>3, ReleaseStep DEF Abort
<1>4. CASE UNCHANGED configVars
  BY <1>4 DEF configVars, ConfigIInv, ConfigTypeOK, RowHasDoc, AllocHeld, DraftHeld, PublisherAlone,
     AtMostOnePublished, IsMaxRevision, PublishedRevs, Status
<1> QED
  BY <1>1, <1>2, <1>3, <1>4, AllocStep, BeginPublishStep, CheckStep, SupersedeStep, CommitStep, DeleteStep
     DEF PrimaryNext

\* Who may lock, insert, publish and delete on the primary: in every
\* reachable state ConfigIInv holds, types included.
THEOREM PrimaryLocking == PrimarySpec => []ConfigIInv
  BY ConfigInitInv, PrimaryStep, PTL DEF PrimarySpec

\* GET /v2/config never has two published rows to choose from
\* (publishRevisionTx under concurrent publishes, creates and rollbacks).
THEOREM PrimaryServesOne == PrimarySpec => []AtMostOnePublished
<1>1. ConfigIInv => AtMostOnePublished
  BY DEF ConfigIInv
<1> QED
  BY <1>1, PrimaryLocking, PTL

\* What a step of the primary may do to the status and content of a row.
LEMMA RowStep ==
  ASSUME ConfigIInv, [PrimaryNext]_configVars
  PROVE  KeepsPublished /\ KeepsServing
<1> USE ConfigAssumption DEF Revisions, KeepsPublished, KeepsServing
<1>1. ASSUME NEW a \in Admins, Commit(a) PROVE KeepsPublished /\ KeepsServing
  <2>1. CASE tx[a].publish
    BY <1>1, <2>1, CommitFacts DEF Status, PublishedRevs
  <2>2. CASE ~tx[a].publish
    BY <1>1, <2>2, CommitFacts DEF Status, PublishedRevs
  <2> QED
    BY <2>1, <2>2
<1>2. ASSUME NEW d \in Revisions, DeleteRevision(d) PROVE KeepsPublished /\ KeepsServing
  BY <1>2 DEF DeleteRevision, Status, PublishedRevs, ConfigIInv, ConfigTypeOK
<1>3. CASE UNCHANGED rows
  BY <1>3 DEF Status, PublishedRevs
<1> QED
  BY <1>1, <1>2, <1>3 DEF PrimaryNext, configVars, BeginCreate, BeginRollback, BeginPublish,
     AllocRevision, CheckCurrent, SupersedePublished, Abort

\* The primary never goes back to answering 204 (one transaction supersedes
\* and publishes; DELETE takes drafts only).
THEOREM PrimaryKeepsServing == PrimarySpec => NeverUnpublished
<1>1. ConfigIInv /\ [PrimaryNext]_configVars => [KeepsServing]_configVars
  BY RowStep
<1> QED
  BY <1>1, PrimaryLocking, PTL DEF PrimarySpec, NeverUnpublished

\* A published row keeps its content and a superseded one is never published
\* again (PublishConfigRevision's status check under its row lock).
THEOREM PrimaryKeepsPublished == PrimarySpec => PublishedIsForever
<1>1. ConfigIInv /\ [PrimaryNext]_configVars => [KeepsPublished]_configVars
  BY RowStep
<1> QED
  BY <1>1, PrimaryLocking, PTL DEF PrimarySpec, PublishedIsForever

-----------------------------------------------------------------------------
(* The mirror.                                                             *)

\* Both tables are empty at first.
LEMMA InitIInv == Init => IInv
<1> SUFFICES ASSUME Init PROVE IInv
  OBVIOUS
<1>1. ConfigIInv
  BY ConfigInitInv DEF Init
<1> QED
  BY <1>1, ConfigAssumption DEF Init, IInv, TypeOK, ConfigIInv, Revisions, NoRow, Row, None, ETags,
     FetchedWasPublished, MirrorAtMostOne, MirrorFaithful

\* The row a GET selects: a published row of the table, or nothing.
LEMMA PublishedOfRow ==
  ASSUME NEW table \in [Revisions -> Row]
  PROVE  \/ PublishedOf(table) = None /\ \A r \in Revisions : table[r].status # "published"
         \/ \E r \in Revisions : table[r].status = "published" /\ PublishedOf(table) = <<r, table[r].doc>>
  BY DEF PublishedOf

\* A step of the primary: what the mirror has copied stays as it was copied.
LEMMA MirrorUnderPrimary ==
  ASSUME IInv, PrimaryNext, UNCHANGED mirrorVars
  PROVE  IInv'
<1>1. ConfigIInv' /\ KeepsPublished
  BY PrimaryStep, RowStep DEF IInv
<1>2. TypeOK'
  BY <1>1 DEF IInv, ConfigIInv, TypeOK, mirrorVars
<1>3. FetchedWasPublished'
  BY <1>1 DEF IInv, FetchedWasPublished, KeepsPublished, mirrorVars
<1>4. MirrorAtMostOne' /\ MirrorFaithful'
  BY <1>1 DEF IInv, MirrorAtMostOne, MirrorFaithful, KeepsPublished, mirrorVars
<1> QED
  BY <1>1, <1>2, <1>3, <1>4 DEF IInv

\* Steps that leave both tables alone.
LEMMA TablesUnchanged ==
  ASSUME IInv, UNCHANGED configVars, UNCHANGED mrows, TypeOK', FetchedWasPublished'
  PROVE  IInv'
  BY DEF IInv, configVars, ConfigIInv, ConfigTypeOK, RowHasDoc, AllocHeld, DraftHeld, PublisherAlone,
     AtMostOnePublished, IsMaxRevision, PublishedRevs, Status, MirrorAtMostOne, MirrorFaithful

\* The transaction of storeReplicatedRevision.
LEMMA StoreStep ==
  ASSUME IInv, StoreReplicated
  PROVE  IInv'
<1> USE ConfigAssumption
<1> DEFINE f == fetched[1]
<1>1. /\ f \in Revisions /\ Status(f) \in {"published", "superseded"}
      /\ fetched[2] = rows[f].doc /\ rows[f].doc \in Docs
  BY DEF IInv, FetchedWasPublished, StoreReplicated, ConfigIInv, RowHasDoc
<1>2. /\ mpc' = "read" /\ fetched' = None /\ localETag' = localETag /\ UNCHANGED configVars
      /\ mrows' = IF AlreadyCurrent(f) THEN mrows ELSE [r \in Revisions |-> StoredRow(r)]
  BY DEF StoreReplicated
<1>3. ConfigIInv' /\ FetchedWasPublished'
  BY <1>2 DEF IInv, configVars, ConfigIInv, ConfigTypeOK, RowHasDoc, AllocHeld, DraftHeld, PublisherAlone,
     AtMostOnePublished, IsMaxRevision, PublishedRevs, Status, FetchedWasPublished
<1>4. CASE AlreadyCurrent(f)
  BY <1>2, <1>3, <1>4 DEF IInv, TypeOK, ETags, None, ConfigIInv, configVars, MirrorAtMostOne,
     MirrorFaithful, Status
<1>5. CASE ~AlreadyCurrent(f)
  <2>1. mrows' = [r \in Revisions |-> StoredRow(r)] /\ mrows \in [Revisions -> Row]
    BY <1>2, <1>5 DEF IInv, TypeOK
  <2>2. /\ mrows'[f].status = "published" /\ mrows'[f].doc = rows[f].doc
        /\ mrows'[f] \in Row
    BY <1>1, <2>1 DEF StoredRow, Row
  <2>3. \A r \in Revisions : r # f =>
          /\ mrows'[r].status = IF mrows[r].status = "published" THEN "superseded" ELSE mrows[r].status
          /\ mrows'[r].doc = mrows[r].doc
          /\ mrows'[r] \in Row
    BY <1>1, <2>1 DEF StoredRow, Row
  <2>4. mrows' \in [Revisions -> Row]
    BY <2>1, <2>2, <2>3
  <2>5. TypeOK'
    BY <1>2, <1>3, <2>4 DEF IInv, TypeOK, ETags, None, ConfigIInv
  <2>6. MirrorAtMostOne'
    BY <2>3 DEF MirrorAtMostOne
  <2>7. MirrorFaithful'
    BY <1>1, <1>2, <2>2, <2>3 DEF IInv, MirrorFaithful, Status, configVars
  <2> QED
    BY <1>3, <2>5, <2>6, <2>7 DEF IInv
<1> QED
  BY <1>4, <1>5

\* IInv is inductive.
LEMMA NextIInv == IInv /\ [Next]_vars => IInv'
<1> SUFFICES ASSUME IInv, [Next]_vars PROVE IInv'
  OBVIOUS
<1> USE DEF IInv
<1>1. CASE Primary
  BY <1>1, MirrorUnderPrimary DEF Primary
<1>2. /\ rows \in [Revisions -> Row] /\ mrows \in [Revisions -> Row]
      /\ \A r \in Revisions : rows[r].status = "published" => rows[r].doc \in Docs
  BY DEF TypeOK, ConfigTypeOK, ConfigIInv, RowHasDoc, Status
<1>3. CASE ReadLocalETag
  <2>1. PublishedOf(mrows) \in ETags
    BY <1>2, PublishedOfRow DEF ETags, MirrorFaithful, ConfigIInv, RowHasDoc, Status
  <2>2. TypeOK'
    BY <1>3, <2>1 DEF ReadLocalETag, TypeOK, configVars, ConfigTypeOK
  <2> QED
    BY <1>3, <2>2, TablesUnchanged DEF ReadLocalETag, FetchedWasPublished
<1>4. CASE FetchNoChange
  <2>1. TypeOK' /\ FetchedWasPublished'
    BY <1>4 DEF FetchNoChange, TypeOK, ETags, configVars, ConfigTypeOK, FetchedWasPublished
  <2> QED
    BY <1>4, <2>1, TablesUnchanged DEF FetchNoChange
<1>5. CASE FetchDocument
  <2>1. PICK r \in Revisions : rows[r].status = "published" /\ PublishedOf(rows) = <<r, rows[r].doc>>
    BY <1>2, <1>5, PublishedOfRow DEF FetchDocument
  <2>2. TypeOK' /\ FetchedWasPublished'
    BY <1>2, <1>5, <2>1 DEF FetchDocument, TypeOK, ETags, configVars, ConfigTypeOK, FetchedWasPublished, Status
  <2> QED
    BY <1>5, <2>2, TablesUnchanged DEF FetchDocument
<1>6. CASE StoreReplicated
  BY <1>6, StoreStep
<1>7. CASE SyncFails
  <2>1. TypeOK' /\ FetchedWasPublished'
    BY <1>7 DEF SyncFails, TypeOK, ETags, configVars, ConfigTypeOK, FetchedWasPublished
  <2> QED
    BY <1>7, <2>1, TablesUnchanged DEF SyncFails
<1>8. CASE UNCHANGED vars
  <2>1. TypeOK' /\ FetchedWasPublished'
    BY <1>8 DEF vars, mirrorVars, TypeOK, configVars, ConfigTypeOK, FetchedWasPublished, Status
  <2> QED
    BY <1>8, <2>1, TablesUnchanged DEF vars, mirrorVars
<1> QED
  BY <1>1, <1>3, <1>4, <1>5, <1>6, <1>7, <1>8 DEF Next

\* The invariant of the primary and its mirror together.
THEOREM MirrorInvariant == SafetySpec => []IInv
  BY InitIInv, NextIInv, PTL DEF SafetySpec

\* The mirror's copy under a revision number is what the primary published
\* under that number (storeReplicatedRevision's check of the revision alone
\* is enough).
THEOREM MirrorCopiesPrimary == SafetySpec => []MirrorFaithful
<1>1. IInv => MirrorFaithful
  BY DEF IInv
<1> QED
  BY <1>1, MirrorInvariant, PTL

\* The mirror serves at most one document.
THEOREM MirrorServesOne == SafetySpec => []MirrorAtMostOne
<1>1. IInv => MirrorAtMostOne
  BY DEF IInv
<1> QED
  BY <1>1, MirrorInvariant, PTL
=============================================================================

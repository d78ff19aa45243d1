--------------------------- MODULE ReleasesProofs ---------------------------
(***************************************************************************)
(* The slots and the installers of a release catalogue, for every number   *)
(* of requests, versions, slots and names.                                 *)
(***************************************************************************)
EXTENDS Releases, TLAPS

LEMMA IdleReqType == IdleReq \in Req
BY DEF IdleReq, MkReq, Req

LEMMA ReqFields ==
    ASSUME IInv, NEW q \in Requests
    PROVE  /\ req[q] \in Req
           /\ req[q].cleared \subseteq Slots /\ req[q].set \subseteq Slots
           /\ req[q].demoted \subseteq Versions \X Slots
BY DEF IInv, TypeOK, Req

\* What a step of a handler changes in its record.
LEMMA AdvanceReq ==
    ASSUME NEW r \in Req, NEW pc \in {"clear", "commit", "drop"},
           NEW x, x = [r EXCEPT !.pc = pc]
    PROVE  /\ x \in Req /\ x.pc = pc
           /\ x.cleared = r.cleared /\ x.demoted = r.demoted
           /\ x.kind = r.kind /\ x.version = r.version
           /\ x.set = r.set /\ x.unset = r.unset
           /\ x.file = r.file /\ x.content = r.content
BY DEF Req

\* At most one holder, in the form the steps use.
LEMMA OneHolder ==
    AtMostOneHolder <=> \A s \in Slots : \A v, w \in Holders(s) : v = w
BY DEF AtMostOneHolder, Manifest

\* The end of a handler that changes neither the table nor the bucket.
LEMMA EndSteps ==
    ASSUME IInv, NEW q \in Requests, End(q), UNCHANGED <<rows, holds, objects, writes>>
    PROVE  IInv'
<1> USE ReleasesAssumption, IdleReqType
<1>1. TypeOK'
    BY DEF IInv, TypeOK, End
<1>2. AtMostOneHolder'
    BY DEF IInv, AtMostOneHolder, Manifest, Holders
<1>3. ClearedIsLocked'
    BY ReqFields DEF IInv, TypeOK, ClearedIsLocked, End, IdleReq, MkReq, Holders
<1>4. ReadyToCommit'
    BY DEF IInv, TypeOK, ReadyToCommit, End, IdleReq, MkReq, Exists, InstallerInPlace
<1>5. FlagsOnRows'
    BY DEF IInv, TypeOK, FlagsOnRows, End, IdleReq, MkReq, Exists
<1>6. SlotsOfWriters'
    BY DEF IInv, TypeOK, SlotsOfWriters, End, IdleReq, MkReq
<1>7. InstallerInPlace'
    BY DEF IInv, TypeOK, InstallerInPlace, InPlace, End, IdleReq, MkReq, Exists
<1>8. QED
    BY <1>1, <1>2, <1>3, <1>4, <1>5, <1>6, <1>7 DEF IInv

\* A request begins with no slot cleared and no lock.
LEMMA BeginSteps ==
    ASSUME IInv, NEW q \in Requests,
           NEW kind \in {"create", "update", "delete", "download"},
           NEW pc \in {"upload", "clear", "remove", "get"},
           NEW v \in Versions, NEW f \in Filenames \cup {NoFile},
           NEW c \in Contents \cup {NoContent},
           NEW set \in SUBSET Slots, NEW unset \in SUBSET Slots,
           set \cap unset = {},
           pc = "clear" => kind = "update",
           pc = "upload" => kind = "create" /\ f \in Filenames /\ c \in Contents,
           pc \in {"remove", "get"} => f \in Filenames /\ writes[f] > 0,
           Begin(q, MkReq(kind, pc, v, f, c, set, unset))
    PROVE  IInv'
<1> USE ReleasesAssumption
<1>1. MkReq(kind, pc, v, f, c, set, unset) \in Req
    BY DEF MkReq, Req
<1>2. TypeOK'
    BY <1>1 DEF IInv, TypeOK, Begin
<1>3. AtMostOneHolder'
    BY DEF IInv, AtMostOneHolder, Manifest, Holders, Begin
<1>4. ClearedIsLocked'
    BY DEF IInv, TypeOK, ClearedIsLocked, Begin, MkReq, Holders
<1>5. ReadyToCommit'
    BY DEF IInv, TypeOK, ReadyToCommit, Begin, MkReq, Exists
<1>6. FlagsOnRows'
    BY DEF IInv, TypeOK, FlagsOnRows, Begin, MkReq, Exists
<1>7. SlotsOfWriters'
    BY DEF IInv, TypeOK, SlotsOfWriters, Begin, MkReq
<1>8. InstallerInPlace'
    BY DEF IInv, TypeOK, InstallerInPlace, InPlace, Begin, MkReq, Exists
<1>9. QED
    BY <1>2, <1>3, <1>4, <1>5, <1>6, <1>7, <1>8 DEF IInv

\* A row of the table names a file that has been written.
LEMMA RowsHaveFiles ==
    ASSUME IInv, NEW v \in Versions, Exists(v)
    PROVE  rows[v].file \in Filenames /\ writes[rows[v].file] > 0
BY DEF IInv, InstallerInPlace, InPlace

\* An upload or a removal of an object touches no row and no lock; the rows that
\* name it have seen at least one write before this one.
LEMMA ObjectSteps ==
    ASSUME IInv, NEW q \in Requests, NEW pc \in {"clear", "drop"},
           req[q].file \in Filenames,
           \/ req[q].pc = "upload" /\ pc = "clear" /\ PutObject(req[q].file, req[q].content)
           \/ req[q].pc = "remove" /\ pc = "drop" /\ PutObject(req[q].file, NoContent),
           req' = [req EXCEPT ![q] = [@ EXCEPT !.pc = pc]],
           UNCHANGED <<rows, holds, slotLock, rowLock>>
    PROVE  IInv'
<1> USE ReleasesAssumption
<1>1. TypeOK'
    <2>1. req[q].content \in Contents \cup {NoContent}
        BY DEF IInv, TypeOK, Req
    <2>2. req' \in [Requests -> Req]
        <3>1. req[q] \in Req /\ req \in [Requests -> Req]
            BY DEF IInv, TypeOK
        <3>2. [req[q] EXCEPT !.pc = pc] \in Req
            BY <3>1 DEF Req
        <3>3. QED
            BY <3>1, <3>2
    <2>3. writes' \in [Filenames -> 0..2]
        BY DEF IInv, TypeOK, PutObject
    <2>4. QED
        BY <2>1, <2>2, <2>3 DEF IInv, TypeOK, PutObject
<1>2. AtMostOneHolder'
    BY DEF IInv, AtMostOneHolder, Manifest, Holders
<1>3. ClearedIsLocked'
    BY DEF IInv, TypeOK, ClearedIsLocked, Holders
<1>4. ReadyToCommit'
    BY DEF IInv, TypeOK, ReadyToCommit, Exists
<1>5. FlagsOnRows'
    BY DEF IInv, TypeOK, FlagsOnRows, Exists
<1>6. SlotsOfWriters'
    BY DEF IInv, TypeOK, SlotsOfWriters, InstallerInPlace
<1>7. InstallerInPlace'
    <2>1. \A f \in Filenames : writes[f] > 0 => writes'[f] > 0 /\ (writes'[f] = 1 => objects'[f] = objects[f] /\ writes[f] = 1)
        BY DEF IInv, TypeOK, PutObject
    <2>2. \A c : \A f \in Filenames : InPlace(f, c) => InPlace(f, c)'
        BY <2>1 DEF InPlace
    <2>3. \A v \in Versions : Exists(v)' => InPlace(rows[v].file, rows[v].sum)'
        BY <2>2 DEF IInv, InstallerInPlace, Exists, InPlace
    <2>4. req[q].pc = "upload" => InPlace(req[q].file, req[q].content)'
        BY DEF IInv, TypeOK, InPlace, PutObject
    <2>5. QED
        BY <2>1, <2>2, <2>3, <2>4 DEF IInv, TypeOK, InstallerInPlace, InPlace, Exists
<1>8. QED
    BY <1>1, <1>2, <1>3, <1>4, <1>5, <1>6, <1>7 DEF IInv

\* Clearing a slot locks it and every row that holds it.
LEMMA ClearSteps ==
    ASSUME IInv, NEW q \in Requests, NEW s \in Slots, ClearSlot(q, s)
    PROVE  IInv'
<1> USE ReleasesAssumption
<1> DEFINE r == req[q]
           D == OtherFlags(q, s)
<1>1. /\ r.pc = "clear" /\ s \in r.set /\ slotLock[s] \in {q, Nobody}
      /\ \A v \in Holders(s) : rowLock[v] \in {q, Nobody}
      /\ slotLock' = [slotLock EXCEPT ![s] = q]
      /\ rowLock' = [v \in Versions |-> IF v \in Holders(s) THEN q ELSE rowLock[v]]
      /\ UNCHANGED <<rows, holds, objects, writes>>
    BY DEF ClearSlot, CanLock, Uncleared
<1>2. req' = [req EXCEPT ![q] = [req[q] EXCEPT !.cleared = req[q].cleared \cup {s},
                                               !.demoted = req[q].demoted \cup OtherFlags(q, s)]]
    BY Zenon DEF ClearSlot
<1>3. D \subseteq Versions \X Slots
    <2>1. SUFFICES ASSUME NEW h \in D PROVE h \in Versions \X Slots
        OBVIOUS
    <2>2. PICK v \in Holders(s) : h = <<v, s>>
        BY <2>1 DEF OtherFlags
    <2>3. QED
        BY <2>2 DEF Holders
<1>4. /\ \A p \in Requests : p # q => req'[p] = req[p]
      /\ req'[q] \in Req
      /\ req'[q].cleared = r.cleared \cup {s} /\ req'[q].demoted = r.demoted \cup D
      /\ req'[q].pc = r.pc /\ req'[q].kind = r.kind /\ req'[q].version = r.version
      /\ req'[q].set = r.set /\ req'[q].unset = r.unset
      /\ req'[q].file = r.file /\ req'[q].content = r.content
    <2> DEFINE C == req[q].cleared \cup {s}
               E == req[q].demoted \cup OtherFlags(q, s)
    <2>1. C \in SUBSET Slots /\ E \in SUBSET (Versions \X Slots)
        BY <1>3, ReqFields
    <2>2. /\ \A p \in Requests : p # q => req'[p] = req[p]
          /\ req'[q] = [req[q] EXCEPT !.cleared = C, !.demoted = E]
        BY <1>2 DEF IInv, TypeOK
    <2>3. C = r.cleared \cup {s} /\ E = r.demoted \cup D
        OBVIOUS
    <2> HIDE DEF C, E
    <2>4. /\ req'[q] \in Req /\ req'[q].cleared = C /\ req'[q].demoted = E
          /\ req'[q].pc = r.pc /\ req'[q].kind = r.kind /\ req'[q].version = r.version
          /\ req'[q].set = r.set /\ req'[q].unset = r.unset
          /\ req'[q].file = r.file /\ req'[q].content = r.content
        <3>1. PICK y \in Req : y = req[q]
            BY ReqFields
        <3>2. PICK x : x = req'[q]
            OBVIOUS
        <3>3. x = [y EXCEPT !.cleared = C, !.demoted = E]
            BY <2>2, <3>1, <3>2
        <3>4. /\ x \in Req /\ x.cleared = C /\ x.demoted = E
              /\ x.pc = y.pc /\ x.kind = y.kind /\ x.version = y.version
              /\ x.set = y.set /\ x.unset = y.unset
              /\ x.file = y.file /\ x.content = y.content
            BY <2>1, <3>3 DEF Req
        <3>5. QED
            BY <3>1, <3>2, <3>4
    <2>5. QED
        BY <2>2, <2>3, <2>4
<1>5. TypeOK'
    <2>1. req' \in [Requests -> Req]
        BY <1>2, <1>4 DEF IInv, TypeOK
    <2>2. QED
        BY <1>1, <2>1 DEF IInv, TypeOK
<1>6. AtMostOneHolder'
    BY <1>1 DEF IInv, AtMostOneHolder, Manifest, Holders
<1>7. ClearedIsLocked'
    <2>1. SUFFICES ASSUME NEW p \in Requests, NEW t \in req'[p].cleared
                   PROVE  /\ slotLock'[t] = p
                          /\ \A v \in Holders(t) : v # req'[p].version => <<v, t>> \in req'[p].demoted
        BY <1>1 DEF ClearedIsLocked, Holders
    <2>2. CASE p = q /\ t = s
        BY <1>1, <1>4, <2>2 DEF IInv, TypeOK, OtherFlags
    <2>3. CASE p # q \/ t # s
        <3>1. t \in req[p].cleared /\ t \in Slots
            BY <1>4, <2>1, <2>3, ReqFields
        <3>2. slotLock[t] = p /\ \A v \in Holders(t) : v # req[p].version => <<v, t>> \in req[p].demoted
            BY <3>1 DEF IInv, ClearedIsLocked
        <3>3. slotLock'[t] = p
            BY <1>1, <2>3, <3>1, <3>2 DEF IInv, TypeOK
        <3>4. QED
            BY <1>4, <3>2, <3>3
    <2>4. QED
        BY <2>2, <2>3
<1>8. ReadyToCommit'
    BY <1>1, <1>4 DEF IInv, ReadyToCommit, Exists, InstallerInPlace
<1>9. FlagsOnRows'
    <2>1. \A h \in holds' : Exists(h[1])'
        BY <1>1 DEF IInv, FlagsOnRows, Exists
    <2>2. ASSUME NEW p \in Requests, NEW h \in req'[p].demoted
          PROVE  /\ h \in holds' /\ rowLock'[h[1]] = p
                 /\ h[2] \in req'[p].cleared /\ h[1] # req'[p].version
        <3>1. CASE p = q /\ h \in D
            <4>1. PICK v \in Holders(s) \ {r.version} : h = <<v, s>>
                BY <3>1 DEF OtherFlags
            <4>2. h[1] = v /\ h[2] = s /\ v \in Versions /\ h \in holds
                BY <4>1 DEF Holders
            <4>3. QED
                BY <1>1, <1>4, <3>1, <4>1, <4>2
        <3>2. CASE h \in req[p].demoted
            <4>1. /\ h \in holds /\ rowLock[h[1]] = p
                  /\ h[2] \in req[p].cleared /\ h[1] # req[p].version /\ h[1] \in Versions
                BY <3>2 DEF IInv, FlagsOnRows, TypeOK
            <4>2. QED
                BY <1>1, <1>4, <4>1
        <3>3. QED
            BY <1>4, <2>2, <3>1, <3>2
    <2>3. QED
        BY <2>1, <2>2 DEF FlagsOnRows
<1>10. SlotsOfWriters'
    BY <1>1, <1>4 DEF IInv, SlotsOfWriters
<1>11. InstallerInPlace'
    BY <1>1, <1>4 DEF IInv, InstallerInPlace, InPlace, Exists
<1>12. QED
    BY <1>5, <1>6, <1>7, <1>8, <1>9, <1>10, <1>11 DEF IInv

\* The INSERT or the UPDATE takes the row; the other outcome is an end.
LEMMA WriteSteps ==
    ASSUME IInv, NEW q \in Requests, WriteRow(q)
    PROVE  IInv'
<1> USE ReleasesAssumption
<1>1. CASE ~(Exists(req[q].version) <=> req[q].kind = "update")
    BY <1>1, EndSteps DEF WriteRow
<1>2. CASE Exists(req[q].version) <=> req[q].kind = "update"
    <2>1. /\ req[q].pc = "clear" /\ req[q].set \subseteq req[q].cleared
          /\ rowLock[req[q].version] \in {q, Nobody}
          /\ rowLock' = [rowLock EXCEPT ![req[q].version] = q]
          /\ req' = [req EXCEPT ![q] = [req[q] EXCEPT !.pc = "commit"]]
          /\ UNCHANGED <<rows, holds, objects, writes, slotLock>>
        BY <1>2 DEF WriteRow, CanLock, Uncleared, IInv, TypeOK
    <2>2. /\ \A p \in Requests : p # q => req'[p] = req[p]
          /\ req'[q] \in Req /\ req'[q].pc = "commit"
          /\ req'[q].cleared = req[q].cleared /\ req'[q].demoted = req[q].demoted
          /\ req'[q].kind = req[q].kind /\ req'[q].version = req[q].version
          /\ req'[q].set = req[q].set /\ req'[q].unset = req[q].unset
          /\ req'[q].file = req[q].file /\ req'[q].content = req[q].content
        <3>1. /\ \A p \in Requests : p # q => req'[p] = req[p]
              /\ req'[q] = [req[q] EXCEPT !.pc = "commit"]
            BY <2>1 DEF IInv, TypeOK
        <3>2. QED
            BY <3>1, ReqFields, AdvanceReq
    <2>3. req[q].version \in Versions /\ req[q].kind \in {"create", "update"}
        BY <2>1 DEF IInv, InstallerInPlace, SlotsOfWriters
    <2>4. TypeOK'
        BY <2>1, <2>2, <2>3 DEF IInv, TypeOK
    <2>5. AtMostOneHolder'
        BY <2>1 DEF IInv, AtMostOneHolder, Manifest, Holders
    <2>6. ClearedIsLocked'
        BY <2>1, <2>2 DEF IInv, ClearedIsLocked, Holders
    <2>7. ReadyToCommit'
        BY <1>2, <2>1, <2>2, <2>3 DEF IInv, TypeOK, ReadyToCommit, Exists, InstallerInPlace
    <2>8. FlagsOnRows'
        BY <2>1, <2>2, <2>3, ReqFields DEF IInv, TypeOK, FlagsOnRows, Exists
    <2>9. SlotsOfWriters'
        BY <2>1, <2>2, <2>3 DEF IInv, SlotsOfWriters
    <2>10. InstallerInPlace'
        BY <2>1, <2>2, <2>3 DEF IInv, InstallerInPlace, InPlace, Exists
    <2>11. QED
        BY <2>4, <2>5, <2>6, <2>7, <2>8, <2>9, <2>10 DEF IInv
<1>3. QED
    BY <1>1, <1>2

\* The flags after a commit: a slot the transaction took has no other holder.
LEMMA CommittedFlags ==
    ASSUME IInv, NEW q \in Requests, Commit(q)
    PROVE  /\ req[q].version \in Versions
           /\ holds' \subseteq Versions \X Slots
           /\ \A v \in Versions, s \in Slots :
                  <<v, s>> \in holds' <=>
                      \/ v = req[q].version /\ s \in req[q].set
                      \/ /\ <<v, s>> \in holds
                         /\ <<v, s>> \notin req[q].demoted
                         /\ ~(v = req[q].version /\ s \in req[q].unset)
<1> DEFINE r == req[q]
<1>1. r \in Req /\ r.version \in Versions /\ r.pc = "commit"
    BY DEF IInv, TypeOK, InstallerInPlace, Commit
<1>2. r.kind = "create" \/ Exists(r.version)
    BY <1>1 DEF IInv, ReadyToCommit
<1>3. holds' = ((holds \ r.demoted) \ {<<r.version, s>> : s \in r.unset})
                    \cup {<<r.version, s>> : s \in r.set}
    BY <1>2 DEF Commit
<1>4. r.set \subseteq Slots /\ holds \subseteq Versions \X Slots
    BY <1>1 DEF IInv, TypeOK, Req
<1>5. QED
    BY <1>1, <1>3, <1>4

LEMMA CommitSteps ==
    ASSUME IInv, NEW q \in Requests, Commit(q)
    PROVE  IInv'
<1> USE ReleasesAssumption, IdleReqType
<1> DEFINE r == req[q]
<1>1. r \in Req /\ r.version \in Versions /\ r.pc = "commit"
    BY DEF IInv, TypeOK, InstallerInPlace, Commit
<1>2. /\ r.set \subseteq r.cleared /\ rowLock[r.version] = q
      /\ r.kind \in {"create", "update"} /\ (Exists(r.version) <=> r.kind = "update")
    BY <1>1 DEF IInv, ReadyToCommit
<1>3. r.kind = "create" => r.content \in Contents /\ InPlace(r.file, r.content)
    BY <1>1 DEF IInv, InstallerInPlace
<1>4. /\ holds' \subseteq Versions \X Slots
      /\ \A v \in Versions, s \in Slots :
             <<v, s>> \in holds' <=>
                 \/ v = r.version /\ s \in r.set
                 \/ <<v, s>> \in holds /\ <<v, s>> \notin r.demoted
                        /\ ~(v = r.version /\ s \in r.unset)
    BY CommittedFlags
<1>5. /\ rows' \in [Versions -> Row]
      /\ \A v \in Versions : v # r.version => rows'[v] = rows[v]
      /\ rows'[r.version] # NoRow
      /\ rows'[r.version] = IF r.kind = "create" THEN [file |-> r.file, sum |-> r.content]
                                                 ELSE rows[r.version]
    <2>1. rows \in [Versions -> Row]
        BY DEF IInv, TypeOK
    <2>2. rows' = IF r.kind = "create"
                  THEN [rows EXCEPT ![r.version] = [file |-> r.file, sum |-> r.content]]
                  ELSE rows
        BY DEF Commit
    <2>3. CASE r.kind = "create"
        <3>1. r.file \in Filenames /\ r.content \in Contents
            BY <1>3, <2>3 DEF InPlace
        <3>2. [file |-> r.file, sum |-> r.content] \in Row
            BY <3>1 DEF Row
        <3>3. [file |-> r.file, sum |-> r.content] # NoRow
            BY <3>1 DEF NoRow
        <3>4. rows' = [rows EXCEPT ![r.version] = [file |-> r.file, sum |-> r.content]]
            BY <2>2, <2>3
        <3>5. /\ rows'[r.version] = [file |-> r.file, sum |-> r.content]
              /\ \A v \in Versions : v # r.version => rows'[v] = rows[v]
              /\ rows' \in [Versions -> Row]
            BY <1>1, <2>1, <3>2, <3>4
        <3>6. QED
            BY <2>3, <3>3, <3>5
    <2>4. CASE r.kind = "update"
        BY <1>2, <2>1, <2>2, <2>4 DEF Exists
    <2>5. QED
        BY <1>2, <2>3, <2>4
<1>6. End(q) /\ UNCHANGED <<objects, writes>>
    BY DEF Commit
<1>7. TypeOK'
    BY <1>4, <1>5, <1>6 DEF IInv, TypeOK, End
<1>8. AtMostOneHolder'
    <2>1. SUFFICES ASSUME NEW s \in Slots, NEW v \in Versions, NEW w \in Versions,
                          <<v, s>> \in holds', <<w, s>> \in holds'
                   PROVE  v = w
        BY OneHolder DEF AtMostOneHolder, Manifest, Holders
    <2>2. \A x, y \in Holders(s) : x = y
        BY OneHolder DEF IInv
    <2>3. CASE s \in r.set
        BY <1>1, <1>2, <1>4, <2>1, <2>3 DEF IInv, ClearedIsLocked, Holders
    <2>4. CASE s \notin r.set
        BY <1>4, <2>1, <2>2, <2>4 DEF Holders
    <2>5. QED
        BY <2>3, <2>4
<1>9. ClearedIsLocked'
    <2>1. SUFFICES ASSUME NEW p \in Requests, NEW s \in req'[p].cleared
                   PROVE  /\ slotLock'[s] = p
                          /\ \A v \in Holders(s)' : v # req'[p].version => <<v, s>> \in req'[p].demoted
        BY DEF ClearedIsLocked
    <2>2. p # q /\ req'[p] = req[p] /\ s \in Slots
        BY <1>6, <2>1 DEF End, IdleReq, MkReq, IInv, TypeOK, Req
    <2>3. slotLock[s] = p /\ \A v \in Holders(s) : v # req[p].version => <<v, s>> \in req[p].demoted
        BY <2>1, <2>2 DEF IInv, ClearedIsLocked
    <2>4. s \notin r.set
        BY <1>2, <2>2, <2>3 DEF IInv, ClearedIsLocked
    <2>5. \A v \in Holders(s)' : v \in Holders(s)
        BY <1>4, <2>2, <2>4 DEF Holders
    <2>6. slotLock'[s] = p
        BY <1>6, <2>2, <2>3 DEF End
    <2>7. QED
        BY <2>2, <2>3, <2>5, <2>6
<1>10. ReadyToCommit'
    <2>1. SUFFICES ASSUME NEW p \in Requests, req'[p].pc = "commit"
                   PROVE  /\ req'[p].set \subseteq req'[p].cleared
                          /\ rowLock'[req'[p].version] = p
                          /\ req'[p].kind \in {"create", "update"}
                          /\ Exists(req[p].version)' <=> req'[p].kind = "update"
        BY DEF ReadyToCommit
    <2>2. p # q /\ req'[p] = req[p]
        BY <1>6, <2>1 DEF End, IdleReq, MkReq, IInv, TypeOK
    <2>3. /\ req[p].version \in Versions /\ rowLock[req[p].version] = p
          /\ req[p].set \subseteq req[p].cleared
          /\ req[p].kind \in {"create", "update"}
          /\ Exists(req[p].version) <=> req[p].kind = "update"
        BY <2>1, <2>2 DEF IInv, ReadyToCommit, InstallerInPlace
    <2>4. req[p].version # r.version
        BY <1>2, <2>2, <2>3
    <2>5. rowLock'[req[p].version] = p
        BY <1>6, <2>2, <2>3 DEF End
    <2>6. rows'[req[p].version] = rows[req[p].version]
        BY <1>5, <2>3, <2>4
    <2>7. QED
        BY <2>2, <2>3, <2>5, <2>6 DEF Exists
<1>11. FlagsOnRows'
    <2>1. \A h \in holds' : Exists(h[1])'
        <3>1. SUFFICES ASSUME NEW v \in Versions, NEW s \in Slots, <<v, s>> \in holds'
                       PROVE  rows'[v] # NoRow
            BY <1>4 DEF Exists
        <3>2. v = r.version \/ <<v, s>> \in holds
            BY <1>4, <3>1
        <3>3. <<v, s>>[1] = v
            OBVIOUS
        <3>4. <<v, s>> \in holds => rows[v] # NoRow
            BY <3>3 DEF IInv, FlagsOnRows, Exists
        <3>5. QED
            BY <1>5, <3>2, <3>4 DEF Exists
    <2>2. ASSUME NEW p \in Requests, NEW h \in req'[p].demoted
          PROVE  /\ h \in holds' /\ rowLock'[h[1]] = p
                 /\ h[2] \in req'[p].cleared /\ h[1] # req'[p].version
        <3>1. p # q /\ req'[p] = req[p]
            BY <1>6, <2>2 DEF End, IdleReq, MkReq, IInv, TypeOK
        <3>2. /\ h \in holds /\ rowLock[h[1]] = p
              /\ h[2] \in req[p].cleared /\ h[1] # req[p].version
            BY <2>2, <3>1 DEF IInv, FlagsOnRows
        <3>3. PICK v \in Versions, s \in Slots : h = <<v, s>>
            BY <3>2 DEF IInv, TypeOK
        <3>4. v # r.version /\ h \notin r.demoted
            BY <1>2, <3>1, <3>2, <3>3 DEF IInv, FlagsOnRows
        <3>5. h \in holds'
            BY <1>4, <3>2, <3>3, <3>4
        <3>6. rowLock'[h[1]] = p
            BY <1>6, <3>1, <3>2, <3>3 DEF End
        <3>7. QED
            BY <3>1, <3>2, <3>5, <3>6
    <2>3. QED
        BY <2>1, <2>2 DEF FlagsOnRows
<1>12. SlotsOfWriters'
    BY <1>6 DEF IInv, TypeOK, SlotsOfWriters, End, IdleReq, MkReq
<1>13. InstallerInPlace'
    <2>1. \A v \in Versions : Exists(v)' => InPlace(rows[v].file, rows[v].sum)'
        BY <1>2, <1>3, <1>5, <1>6 DEF IInv, InstallerInPlace, InPlace, Exists
    <2>2. QED
        BY <1>6, <2>1 DEF IInv, TypeOK, InstallerInPlace, InPlace, End, IdleReq, MkReq
<1>14. QED
    BY <1>7, <1>8, <1>9, <1>10, <1>11, <1>12, <1>13 DEF IInv

\* The DELETE removes an unlocked row and its flags.
LEMMA DropSteps ==
    ASSUME IInv, NEW q \in Requests, DropRow(q)
    PROVE  IInv'
<1> USE ReleasesAssumption, IdleReqType
<1> DEFINE d == req[q].version
<1>1. /\ d \in Versions /\ req[q].pc = "drop" /\ rowLock[d] \in {q, Nobody}
      /\ rows' = [rows EXCEPT ![d] = NoRow] /\ holds' = {h \in holds : h[1] # d}
      /\ End(q) /\ UNCHANGED <<objects, writes>>
    BY DEF IInv, InstallerInPlace, DropRow, CanLock
<1>2. req[q].cleared = {} /\ req[q].demoted = {}
    BY <1>1 DEF IInv, SlotsOfWriters
<1>3. TypeOK'
    BY <1>1 DEF IInv, TypeOK, End, Row
<1>4. AtMostOneHolder'
    BY <1>1, OneHolder DEF IInv, AtMostOneHolder, Manifest, Holders
<1>5. ClearedIsLocked'
    BY <1>1, ReqFields DEF IInv, TypeOK, ClearedIsLocked, End, IdleReq, MkReq, Holders
<1>6. ReadyToCommit'
    BY <1>1 DEF IInv, TypeOK, ReadyToCommit, InstallerInPlace, End, IdleReq, MkReq, Exists
<1>7. FlagsOnRows'
    BY <1>1 DEF IInv, TypeOK, FlagsOnRows, End, IdleReq, MkReq, Exists
<1>8. SlotsOfWriters'
    BY <1>1 DEF IInv, TypeOK, SlotsOfWriters, End, IdleReq, MkReq
<1>9. InstallerInPlace'
    BY <1>1 DEF IInv, TypeOK, InstallerInPlace, InPlace, End, IdleReq, MkReq, Exists
<1>10. QED
    BY <1>3, <1>4, <1>5, <1>6, <1>7, <1>8, <1>9 DEF IInv

\* OpenInstaller reads the object, or ends.
LEMMA OpenSteps ==
    ASSUME IInv, NEW q \in Requests, OpenInstaller(q)
    PROVE  IInv'
<1> USE ReleasesAssumption
<1>1. CASE objects[req[q].file] = NoContent
    BY <1>1, EndSteps DEF OpenInstaller
<1>2. CASE objects[req[q].file] # NoContent
    <2>1. /\ req[q].pc = "get" /\ req[q].file \in Filenames
          /\ req' = [req EXCEPT ![q] = [req[q] EXCEPT !.pc = "stream",
                                                      !.content = objects[req[q].file]]]
          /\ UNCHANGED <<rows, holds, objects, writes, slotLock, rowLock>>
        BY <1>2 DEF OpenInstaller, IInv, TypeOK, InstallerInPlace
    <2>2. /\ \A p \in Requests : p # q => req'[p] = req[p]
          /\ req'[q] \in Req /\ req'[q].pc = "stream"
          /\ req'[q].cleared = req[q].cleared /\ req'[q].demoted = req[q].demoted
          /\ req'[q].kind = req[q].kind /\ req'[q].version = req[q].version
          /\ req'[q].set = req[q].set /\ req'[q].unset = req[q].unset
        <3>1. /\ \A p \in Requests : p # q => req'[p] = req[p]
              /\ req'[q] = [req[q] EXCEPT !.pc = "stream", !.content = objects[req[q].file]]
            BY <2>1 DEF IInv, TypeOK
        <3>2. objects[req[q].file] \in Contents \cup {NoContent}
            BY <2>1 DEF IInv, TypeOK
        <3>3. req[q] \in Req
            BY DEF IInv, TypeOK
        <3>4. req'[q] \in Req /\ req'[q].pc = "stream"
            BY <3>1, <3>2, <3>3 DEF Req
        <3>5. QED
            BY <3>1, <3>3, <3>4 DEF Req
    <2>3. TypeOK'
        BY <2>1, <2>2 DEF IInv, TypeOK
    <2>4. AtMostOneHolder'
        BY <2>1 DEF IInv, AtMostOneHolder, Manifest, Holders
    <2>5. ClearedIsLocked'
        BY <2>1, <2>2 DEF IInv, ClearedIsLocked, Holders
    <2>6. ReadyToCommit'
        BY <2>1, <2>2 DEF IInv, ReadyToCommit, Exists
    <2>7. FlagsOnRows'
        BY <2>1, <2>2 DEF IInv, FlagsOnRows, Exists
    <2>8. SlotsOfWriters'
        BY <2>1, <2>2 DEF IInv, SlotsOfWriters
    <2>9. InstallerInPlace'
        BY <2>1, <2>2 DEF IInv, InstallerInPlace, InPlace, Exists
    <2>10. QED
        BY <2>3, <2>4, <2>5, <2>6, <2>7, <2>8, <2>9 DEF IInv
<1>3. QED
    BY <1>1, <1>2

-----------------------------------------------------------------------------
\* Every step of every handler keeps the invariant: a slot that a transaction has
\* cleared stays its own until it ends (clearStableFlag and its siblings).
THEOREM ReleasesInvariant == Spec => []IInv
<1>1. Init => IInv
    BY ReleasesAssumption, IdleReqType
       DEF Init, IInv, TypeOK, Row, AtMostOneHolder, Manifest, Holders, ClearedIsLocked,
           ReadyToCommit, FlagsOnRows, SlotsOfWriters, InstallerInPlace, Exists, IdleReq, MkReq
<1>2. IInv /\ [Next]_vars => IInv'
    <2> SUFFICES ASSUME IInv, [Next]_vars PROVE IInv'
        OBVIOUS
    <2>1. ASSUME NEW q \in Requests, NEW v \in Versions, NEW f \in Filenames,
                 NEW c \in Contents, NEW set \in SUBSET Slots, CreateRelease(q, v, f, c, set)
          PROVE  IInv'
        BY <2>1, BeginSteps DEF CreateRelease
    <2>2. ASSUME NEW q \in Requests, NEW v \in Versions, NEW set \in SUBSET Slots,
                 PutRelease(q, v, set)
          PROVE  IInv'
        BY <2>2, BeginSteps DEF PutRelease
    <2>3. ASSUME NEW q \in Requests, NEW v \in Versions, NEW set \in SUBSET Slots,
                 NEW unset \in SUBSET Slots, PatchRelease(q, v, set, unset)
          PROVE  IInv'
        BY <2>3, BeginSteps DEF PatchRelease
    <2>4. ASSUME NEW q \in Requests, NEW v \in Versions, DeleteRelease(q, v) PROVE IInv'
        BY <2>4, RowsHaveFiles, BeginSteps DEF DeleteRelease
    <2>5. ASSUME NEW q \in Requests, NEW v \in Versions, DownloadRelease(q, v) PROVE IInv'
        BY <2>5, RowsHaveFiles, BeginSteps DEF DownloadRelease
    <2>6. ASSUME NEW q \in Requests, NEW s \in Slots, ClearSlot(q, s) PROVE IInv'
        BY <2>6, ClearSteps
    <2>7. ASSUME NEW q \in Requests, UploadInstaller(q) \/ RemoveInstaller(q) PROVE IInv'
        <3>1. req[q].file \in Filenames
            BY <2>7 DEF IInv, InstallerInPlace, UploadInstaller, RemoveInstaller
        <3>2. QED
            BY <2>7, <3>1, ObjectSteps DEF UploadInstaller, RemoveInstaller
    <2>8. ASSUME NEW q \in Requests, WriteRow(q) PROVE IInv'
        BY <2>8, WriteSteps
    <2>9. ASSUME NEW q \in Requests, Commit(q) PROVE IInv'
        BY <2>9, CommitSteps
    <2>10. ASSUME NEW q \in Requests, DropRow(q) PROVE IInv'
        BY <2>10, DropSteps
    <2>11. ASSUME NEW q \in Requests, OpenInstaller(q) PROVE IInv'
        BY <2>11, OpenSteps
    <2>12. ASSUME NEW q \in Requests, StreamInstaller(q) \/ Abort(q) PROVE IInv'
        BY <2>12, EndSteps DEF StreamInstaller, Abort
    <2>13. CASE UNCHANGED vars
        BY <2>13 DEF vars, IInv, TypeOK, AtMostOneHolder, Manifest, Holders, ClearedIsLocked,
               ReadyToCommit, FlagsOnRows, SlotsOfWriters, InstallerInPlace, InPlace, Exists
    <2>14. QED
        BY <2>1, <2>2, <2>3, <2>4, <2>5, <2>6, <2>7, <2>8, <2>9, <2>10, <2>11, <2>12, <2>13
           DEF Next
<1>3. QED
    BY <1>1, <1>2, PTL DEF Spec

\* No slot ever has two holders, however many releases are created, promoted,
\* patched and deleted at once.
THEOREM SlotSafety == Spec => []AtMostOneHolder
<1>1. IInv => AtMostOneHolder
    BY DEF IInv
<1>2. QED
    BY <1>1, ReleasesInvariant, PTL

\* A listed release has the installer its checksum was computed from, unless
\* another request has written under its name.
THEOREM InstallerSafety == Spec => []UntouchedInstallerServed
<1>1. IInv => UntouchedInstallerServed
    BY DEF IInv, TypeOK, InstallerInPlace, InPlace, UntouchedInstallerServed
<1>2. QED
    BY <1>1, ReleasesInvariant, PTL

\* A failed promotion never empties a slot.
THEOREM SlotKept == Spec => SlotNeverLost
<1> DEFINE A == \A s \in Slots : \A v \in Holders(s) :
                    Holders(s)' = {} =>
                        \E q \in Requests :
                            /\ req[q].version = v
                            /\ \/ req[q].pc = "commit" /\ s \in req[q].unset
                               \/ req[q].pc = "drop"
<1>1. IInv /\ [Next]_vars => [A]_vars
    <2> SUFFICES ASSUME IInv, Next PROVE A
        OBVIOUS
    <2> SUFFICES ASSUME NEW s \in Slots, NEW v \in Holders(s), Holders(s)' = {}
                 PROVE  \E q \in Requests :
                            /\ req[q].version = v
                            /\ \/ req[q].pc = "commit" /\ s \in req[q].unset
                               \/ req[q].pc = "drop"
        OBVIOUS
    <2>1. v \in Versions /\ <<v, s>> \in holds /\ <<v, s>> \notin holds'
        BY DEF Holders
    <2>2. holds' = holds \/ \E q \in Requests : Commit(q) \/ DropRow(q)
        <3>1. ASSUME NEW q \in Requests,
                     \/ \E w \in Versions, f \in Filenames, c \in Contents, set \in SUBSET Slots :
                            CreateRelease(q, w, f, c, set)
                     \/ \E w \in Versions, set \in SUBSET Slots : PutRelease(q, w, set)
                     \/ \E w \in Versions, set, unset \in SUBSET Slots : PatchRelease(q, w, set, unset)
                     \/ \E w \in Versions : DeleteRelease(q, w) \/ DownloadRelease(q, w)
              PROVE  holds' = holds
            BY <3>1 DEF CreateRelease, PutRelease, PatchRelease, DeleteRelease, DownloadRelease, Begin
        <3>2. ASSUME NEW q \in Requests,
                     \/ \E r \in Slots : ClearSlot(q, r)
                     \/ UploadInstaller(q) \/ WriteRow(q) \/ RemoveInstaller(q)
                     \/ OpenInstaller(q) \/ StreamInstaller(q) \/ Abort(q)
              PROVE  holds' = holds
            BY <3>2 DEF ClearSlot, UploadInstaller, WriteRow, RemoveInstaller, OpenInstaller,
                        StreamInstaller, Abort
        <3>3. QED
            BY <3>1, <3>2 DEF Next
    <2>3. ASSUME NEW q \in Requests, Commit(q)
          PROVE  req[q].version = v /\ req[q].pc = "commit" /\ s \in req[q].unset
        <3>1. req[q].pc = "commit"
            BY <2>3 DEF Commit
        <3>2. req[q].version \in Versions /\ req[q].version \notin Holders(s)'
            BY <2>3, CommittedFlags
        <3>3. s \notin req[q].set
            BY <2>3, <3>2, CommittedFlags DEF Holders
        <3>4. <<v, s>> \notin req[q].demoted
            BY <3>3 DEF IInv, FlagsOnRows, SlotsOfWriters
        <3>5. QED
            BY <2>1, <2>3, <3>1, <3>3, <3>4, CommittedFlags
    <2>4. ASSUME NEW q \in Requests, DropRow(q)
          PROVE  req[q].version = v /\ req[q].pc = "drop"
        BY <2>1, <2>4 DEF DropRow
    <2>5. QED
        BY <2>1, <2>2, <2>3, <2>4
<1>2. QED
    BY <1>1, ReleasesInvariant, PTL DEF Spec, SlotNeverLost
=============================================================================

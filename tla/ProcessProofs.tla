--------------------------- MODULE ProcessProofs ----------------------------
(***************************************************************************)
(* The files of bug reports, for every number of requests, reports, files, *)
(* names, workers and restarts: what a download serves, and what the       *)
(* migration to the object store leaves there.  And the schema, for every  *)
(* list of tasks that keeps to TasksAssumption: what Migrate leaves        *)
(* behind, and when it fails.                                              *)
(***************************************************************************)
EXTENDS Process, TLAPS

CreateState == [pc : {"idle", "files", "upload"}, report : 0..MaxReports, file : 0..MaxFiles,
                name : Names \cup {None}]
DownloadState == [pc : {"idle", "object", "row", "done"}, report : 0..MaxReports,
                  file : 0..MaxFiles, name : Names \cup {None}, served : 0..MaxFiles]

ReportsInv == References /\ ClaimsBacked /\ ClaimsApart /\ ServedIsOwn
FilesInv == WorkersAccounted /\ RowsRead /\ migrated \subseteq 1..lastFile /\ MigratedFilesStored

-----------------------------------------------------------------------------
(* Types and claims.                                                       *)

LEMMA Bounds ==
    ASSUME References
    PROVE  /\ lastReport \in Nat /\ lastFile \in Nat /\ MaxReports \in Nat /\ MaxFiles \in Nat
           /\ lastReport <= MaxReports /\ lastFile <= MaxFiles
           /\ 1..lastReport \subseteq ReportIds /\ 1..lastFile \subseteq FileIds
           /\ ReportIds \subseteq 0..MaxReports /\ FileIds \subseteq 0..MaxFiles
           /\ 0 \in 0..MaxReports /\ 0 \in 0..MaxFiles
BY ReportsAssumption DEF References, ReportIds, FileIds

LEMMA IdleTypes ==
    ASSUME NEW r \in 0..MaxReports
    PROVE  /\ NoCreate \in CreateState /\ NoCreate.pc = "idle"
           /\ Filing(r) \in CreateState /\ Filing(r).pc = "files" /\ Filing(r).report = r
           /\ NoDownload \in DownloadState /\ NoDownload.pc = "idle"
<1>1. 0 \in 0..MaxReports /\ 0 \in 0..MaxFiles
    BY ReportsAssumption
<1>2. QED
    BY <1>1 DEF NoCreate, Filing, CreateState, NoDownload, DownloadState

\* Every file that has a row, and every transfer in flight, claims its keys.
LEMMA OwnClaims ==
    ASSUME References
    PROVE  /\ \A f \in DOMAIN files :
                 /\ f \in FileIds /\ files[f].report \in ReportIds /\ files[f].name \in Keys
                 /\ Claims(files[f].report, files[f].name, f) /\ Claims(files[f].report, f, f)
           /\ \A r, k : <<r, k>> \in DOMAIN objects =>
                 /\ r \in ReportIds /\ k \in Keys /\ objects[<<r, k>>] \in FileIds
                 /\ Claims(r, k, objects[<<r, k>>])
           /\ \A d \in Downloads : download[d].pc \in {"object", "row"} =>
                 /\ Claims(download[d].report, download[d].name, download[d].file)
                 /\ Claims(download[d].report, download[d].file, download[d].file)
           /\ \A q \in Creates : create[q].pc = "upload" =>
                 Claims(create[q].report, create[q].name, create[q].file)
<1>1. ASSUME NEW f \in DOMAIN files
      PROVE  /\ f \in FileIds /\ files[f].report \in ReportIds /\ files[f].name \in Keys
             /\ Claims(files[f].report, files[f].name, f) /\ Claims(files[f].report, f, f)
    <2>1. f \in 1..lastFile /\ files[f].report \in 1..lastReport /\ files[f].name \in Names
        BY DEF References
    <2>2. QED
        BY <2>1, Bounds DEF Claims, Keys
<1>2. ASSUME NEW r, NEW k, <<r, k>> \in DOMAIN objects
      PROVE  /\ r \in ReportIds /\ k \in Keys /\ objects[<<r, k>>] \in FileIds
             /\ Claims(r, k, objects[<<r, k>>])
    <2>1. <<r, k>> \in ReportIds \X Keys /\ objects[<<r, k>>] \in FileIds
        BY <1>2 DEF References
    <2>2. QED
        BY <1>2, <2>1 DEF Claims
<1>3. QED
    BY <1>1, <1>2 DEF Claims

\* A step that gives out no id and after which nothing is claimed that was not.
LEMMA ClaimsKept ==
    ASSUME ClaimsBacked, ClaimsApart,
           UNCHANGED <<reports, files, lastReport, lastFile, clashed>>,
           \A r \in ReportIds, k \in Keys, g \in FileIds : Claims(r, k, g)' => Claims(r, k, g)
    PROVE  ClaimsBacked' /\ ClaimsApart'
<1>1. ClaimsBacked'
    BY DEF ClaimsBacked
<1>2. ClaimsApart'
    BY DEF ClaimsApart
<1>3. QED
    BY <1>1, <1>2

\* One object is put where its file had claimed a place.
LEMMA PutObject ==
    ASSUME References, NEW r \in ReportIds, NEW k \in Keys, NEW f \in FileIds, Claims(r, k, f),
           objects' = Put(objects, <<r, k>>, f)
    PROVE  /\ \A key \in DOMAIN objects' : key \in ReportIds \X Keys /\ objects'[key] \in FileIds
           /\ DOMAIN objects \subseteq DOMAIN objects' /\ <<r, k>> \in DOMAIN objects'
           /\ \A s \in ReportIds, l \in Keys, g \in FileIds :
                 <<s, l>> \in DOMAIN objects' /\ objects'[<<s, l>>] = g => Claims(s, l, g)
<1>1. /\ DOMAIN objects' = DOMAIN objects \cup {<<r, k>>}
      /\ \A key \in DOMAIN objects' :
            objects'[key] = IF key = <<r, k>> THEN f ELSE objects[key]
    BY DEF Put
<1>2. \A key \in DOMAIN objects : key \in ReportIds \X Keys /\ objects[key] \in FileIds
    BY DEF References
<1>3. <<r, k>> \in ReportIds \X Keys
    OBVIOUS
<1>4. ASSUME NEW s \in ReportIds, NEW l \in Keys, NEW g \in FileIds,
             <<s, l>> \in DOMAIN objects', objects'[<<s, l>>] = g
      PROVE  Claims(s, l, g)
    <2>1. CASE <<s, l>> = <<r, k>>
        BY <1>1, <1>4, <2>1
    <2>2. CASE <<s, l>> # <<r, k>>
        BY <1>1, <1>4, <2>2 DEF Claims
    <2>3. QED
        BY <2>1, <2>2
<1>5. QED
    BY <1>1, <1>2, <1>3, <1>4

-----------------------------------------------------------------------------
(* CreateBugReport.                                                        *)

\* A create that is about to upload its file is as before, and so is every other.
LEMMA CreateTypes ==
    ASSUME References, NEW q \in Creates, NEW c \in CreateState,
           create' = [create EXCEPT ![q] = c]
    PROVE  /\ create' \in [Creates -> CreateState] /\ create'[q] = c
           /\ \A p \in Creates \ {q} : create'[p] = create[p]
BY DEF References, CreateState

LEMMA InsertReportSteps ==
    ASSUME ReportsInv, NEW q \in Creates, InsertReport(q)
    PROVE  ReportsInv'
<1> DEFINE r == lastReport + 1
<1>1. References /\ ClaimsBacked /\ ClaimsApart /\ ServedIsOwn
    BY DEF ReportsInv
<1>2. /\ r \in ReportIds /\ lastReport' = r /\ reports' = reports \cup {r}
      /\ create' = [create EXCEPT ![q] = Filing(r)]
      /\ UNCHANGED <<files, lastFile, objects, s3conn, download, lazy, clashed>>
    BY DEF InsertReport
<1>3. lastReport \in Nat /\ MaxReports \in Nat /\ r \in 0..MaxReports /\ r \in 1..MaxReports
    BY <1>1, <1>2, Bounds DEF ReportIds
<1>4. /\ create' \in [Creates -> CreateState] /\ create'[q].pc = "files"
      /\ \A p \in Creates \ {q} : create'[p] = create[p]
    <2>1. Filing(r) \in CreateState /\ Filing(r).pc = "files"
        BY <1>3, IdleTypes
    <2>2. QED
        BY <1>1, <1>2, <2>1, CreateTypes
<1>5. reports' \subseteq 1..lastReport' /\ lastReport' \in 0..MaxReports
    <2>1. reports \subseteq 1..lastReport
        BY <1>1 DEF References
    <2>2. QED
        BY <1>2, <1>3, <2>1
<1>6. References'
    BY <1>1, <1>2, <1>4, <1>5 DEF References, CreateState
<1>7. \A s \in ReportIds, k \in Keys, g \in FileIds : Claims(s, k, g)' => Claims(s, k, g)
    BY <1>2, <1>4 DEF Claims
<1> HIDE DEF r
<1>8. ClaimsBacked'
    <2>1. ASSUME NEW s \in ReportIds, NEW k \in Keys, NEW g \in FileIds, Claims(s, k, g)'
          PROVE  /\ s <= lastReport' /\ g <= lastFile'
                 /\ s \in reports' => g \in DOMAIN files' /\ files'[g].report = s
                                      /\ k \in {files'[g].name, g}
        <3>1. /\ s <= lastReport /\ g <= lastFile
              /\ s \in reports => g \in DOMAIN files /\ files[g].report = s
                                  /\ k \in {files[g].name, g}
            BY <1>1, <1>7, <2>1 DEF ClaimsBacked
        <3>2. s \in Nat
            BY DEF ReportIds
        <3>3. s # r /\ s <= r
            BY <1>3, <3>1, <3>2 DEF r
        <3>4. QED
            BY <1>2, <3>1, <3>3
    <2>2. QED
        BY <2>1 DEF ClaimsBacked
<1>9. ClaimsApart'
    BY <1>1, <1>2, <1>7 DEF ClaimsApart
<1>10. ServedIsOwn'
    BY <1>1, <1>2 DEF ServedIsOwn
<1>11. QED
    BY <1>6, <1>8, <1>9, <1>10 DEF ReportsInv

\* The new file's keys are its own, or it is known to clash: whatever else claims
\* them belongs to a row of the same report.
LEMMA InsertFileSteps ==
    ASSUME ReportsInv, NEW q \in Creates, NEW name \in Names, InsertFile(q, name)
    PROVE  ReportsInv'
<1> DEFINE f == lastFile + 1
           r == create[q].report
           same == {g \in DOMAIN files :
                       files[g].report = r /\ (files[g].name \in {name, f} \/ g = name)}
           row == [report |-> r, name |-> name]
           c == IF s3conn THEN [pc |-> "upload", report |-> r, file |-> f, name |-> name]
                ELSE Filing(r)
<1>1. References /\ ClaimsBacked /\ ClaimsApart /\ ServedIsOwn
    BY DEF ReportsInv
<1>2. /\ r \in reports /\ f \in FileIds /\ lastFile' = f
      /\ files' = Put(files, f, row)
      /\ clashed' = IF same = {} THEN clashed ELSE clashed \cup same \cup {f}
      /\ create' = [create EXCEPT ![q] = c]
      /\ UNCHANGED <<reports, lastReport, objects, s3conn, download, lazy>>
    BY DEF InsertFile
<1>3. /\ lastFile \in Nat /\ f \in Nat /\ f \in 0..MaxFiles /\ 1..lastFile \subseteq 1..f /\ f \in 1..f
      /\ r \in ReportIds /\ r \in 0..MaxReports
    BY <1>1, <1>2, Bounds DEF References, FileIds
<1>4. f \notin 1..lastFile /\ \A g \in 1..lastFile : g # f
    BY <1>3
<1>5. f \notin DOMAIN files
    BY <1>1, <1>4 DEF References
<1>6. /\ DOMAIN files' = DOMAIN files \cup {f}
      /\ files'[f].report = r /\ files'[f].name = name
      /\ \A g \in DOMAIN files : files'[g] = files[g]
    BY <1>2, <1>5 DEF Put
<1>7. /\ c \in CreateState
      /\ c.pc = "upload" => c.report = r /\ c.file = f /\ c.name = name
    <2>1. CASE s3conn
        <3>1. c = [pc |-> "upload", report |-> r, file |-> f, name |-> name]
            BY <2>1
        <3>2. QED
            BY <1>3, <3>1 DEF CreateState
    <2>2. CASE ~s3conn
        <3>1. c = Filing(r)
            BY <2>2
        <3> HIDE DEF c
        <3>2. QED
            BY <1>3, <3>1, IdleTypes
    <2>3. QED
        BY <2>1, <2>2
<1>8. \A g \in same : g \in clashed' /\ f \in clashed'
    BY <1>2
<1>9. clashed \subseteq clashed'
    BY <1>2
<1>10. \A g \in DOMAIN files : files[g].report = r /\ (files[g].name \in {name, f} \/ g = name)
           => g \in same
    OBVIOUS
<1> HIDE DEF c, same, row
<1>11. /\ create' \in [Creates -> CreateState] /\ create'[q] = c
       /\ \A p \in Creates \ {q} : create'[p] = create[p]
    BY <1>1, <1>2, <1>7, CreateTypes
<1> HIDE DEF f, r
<1>12. References'
    <2>1. \A g \in DOMAIN files' :
              g \in 1..lastFile' /\ files'[g].report \in reports' /\ files'[g].name \in Names
        BY <1>1, <1>2, <1>3, <1>6 DEF References
    <2>2. \A p \in Creates : create'[p].pc = "upload" =>
              create'[p].report \in ReportIds /\ create'[p].file \in FileIds /\ create'[p].name \in Names
        BY <1>1, <1>2, <1>3, <1>7, <1>11 DEF References
    <2>3. QED
        BY <1>1, <1>2, <1>3, <1>11, <2>1, <2>2 DEF References, CreateState
<1>13. ASSUME NEW s \in ReportIds, NEW k \in Keys, NEW g \in FileIds, Claims(s, k, g)'
       PROVE  Claims(s, k, g) \/ (s = r /\ g = f /\ k \in {name, f})
    BY <1>2, <1>6, <1>7, <1>11, <1>13 DEF Claims
<1>14. ClaimsBacked'
    <2>1. ASSUME NEW s \in ReportIds, NEW k \in Keys, NEW g \in FileIds, Claims(s, k, g)'
          PROVE  /\ s <= lastReport' /\ g <= lastFile'
                 /\ s \in reports' => g \in DOMAIN files' /\ files'[g].report = s
                                      /\ k \in {files'[g].name, g}
        <3>1. CASE Claims(s, k, g)
            <4>1. /\ s <= lastReport /\ g <= lastFile
                  /\ s \in reports => g \in DOMAIN files /\ files[g].report = s
                                      /\ k \in {files[g].name, g}
                BY <1>1, <3>1 DEF ClaimsBacked
            <4>2. g <= lastFile'
                BY <1>2, <1>3, <4>1 DEF FileIds, f
            <4>3. QED
                BY <1>2, <1>6, <4>1, <4>2
        <3>2. CASE s = r /\ g = f /\ k \in {name, f}
            <4>1. r <= lastReport /\ f <= f
                BY <1>1, <1>2, <1>3 DEF References
            <4>2. QED
                BY <1>2, <1>6, <3>2, <4>1
        <3>3. QED
            BY <1>13, <2>1, <3>1, <3>2
    <2>2. QED
        BY <2>1 DEF ClaimsBacked
<1>15. ASSUME NEW k \in {name, f}, NEW g \in FileIds, Claims(r, k, g)
       PROVE  g \in clashed' /\ f \in clashed'
    <2>1. k \in Keys
        BY <1>2 DEF Keys
    <2>2. g \in DOMAIN files /\ files[g].report = r /\ k \in {files[g].name, g}
        BY <1>1, <1>2, <1>3, <1>15, <2>1 DEF ClaimsBacked
    <2>3. g # f
        BY <1>5, <2>2
    <2>4. files[g].name \in {name, f} \/ g = name
        BY <2>2, <2>3
    <2>5. QED
        BY <1>8, <1>10, <2>2, <2>4
<1>16. ClaimsApart'
    <2>1. ASSUME NEW s \in ReportIds, NEW k \in Keys, NEW g \in FileIds, NEW h \in FileIds,
                 Claims(s, k, g)', Claims(s, k, h)', g # h
          PROVE  g \in clashed'
        <3>1. CASE Claims(s, k, g) /\ Claims(s, k, h)
            BY <1>1, <1>9, <2>1, <3>1 DEF ClaimsApart
        <3>2. CASE Claims(s, k, g) /\ s = r /\ h = f /\ k \in {name, f}
            BY <1>15, <3>2
        <3>3. CASE Claims(s, k, h) /\ s = r /\ g = f /\ k \in {name, f}
            BY <1>15, <3>3
        <3>4. QED
            BY <1>13, <2>1, <3>1, <3>2, <3>3
    <2>2. QED
        BY <2>1 DEF ClaimsApart
<1>17. ServedIsOwn'
    BY <1>1, <1>2, <1>9 DEF ServedIsOwn
<1>18. QED
    BY <1>12, <1>14, <1>16, <1>17 DEF ReportsInv

LEMMA UploadFileSteps ==
    ASSUME ReportsInv, NEW q \in Creates, NEW stored \in BOOLEAN, UploadFile(q, stored)
    PROVE  ReportsInv' /\ DOMAIN objects \subseteq DOMAIN objects'
<1> DEFINE r == create[q].report
           k == create[q].name
           f == create[q].file
<1>1. References /\ ClaimsBacked /\ ClaimsApart /\ ServedIsOwn
    BY DEF ReportsInv
<1>2. /\ create[q].pc = "upload"
      /\ objects' = IF stored THEN Put(objects, <<r, k>>, f) ELSE objects
      /\ create' = [create EXCEPT ![q] = Filing(@.report)]
      /\ UNCHANGED <<reports, files, lastReport, lastFile, s3conn, download, lazy, clashed>>
    BY DEF UploadFile, NameKey
<1>3. r \in ReportIds /\ r \in 0..MaxReports /\ k \in Keys /\ f \in FileIds /\ Claims(r, k, f)
    BY <1>1, <1>2, OwnClaims, Bounds DEF References, Keys
<1>4. /\ create' \in [Creates -> CreateState] /\ create'[q].pc = "files"
      /\ \A p \in Creates \ {q} : create'[p] = create[p]
    <2>1. Filing(r) \in CreateState /\ Filing(r).pc = "files"
        BY <1>3, IdleTypes
    <2>2. create' = [create EXCEPT ![q] = Filing(r)]
        BY <1>2
    <2>3. QED
        BY <1>1, <2>1, <2>2, CreateTypes
<1> HIDE DEF r, k, f
<1>5. /\ \A key \in DOMAIN objects' : key \in ReportIds \X Keys /\ objects'[key] \in FileIds
      /\ DOMAIN objects \subseteq DOMAIN objects'
      /\ \A s \in ReportIds, l \in Keys, g \in FileIds :
            <<s, l>> \in DOMAIN objects' /\ objects'[<<s, l>>] = g => Claims(s, l, g)
    <2>1. CASE stored
        <3>1. objects' = Put(objects, <<r, k>>, f)
            BY <1>2, <2>1
        <3>2. QED
            BY <1>1, <1>3, <3>1, PutObject
    <2>2. CASE ~stored
        <3>1. objects' = objects
            BY <1>2, <2>2
        <3>2. QED
            BY <1>1, <3>1 DEF References, Claims
    <2>3. QED
        BY <2>1, <2>2
<1>6. References'
    BY <1>1, <1>2, <1>4, <1>5 DEF References, CreateState
<1>7. \A s \in ReportIds, l \in Keys, g \in FileIds : Claims(s, l, g)' => Claims(s, l, g)
    <2>1. ASSUME NEW s \in ReportIds, NEW l \in Keys, NEW g \in FileIds, Claims(s, l, g)'
          PROVE  Claims(s, l, g)
        <3>1. CASE <<s, l>> \in DOMAIN objects' /\ objects'[<<s, l>>] = g
            BY <1>5, <3>1
        <3>2. CASE ~(<<s, l>> \in DOMAIN objects' /\ objects'[<<s, l>>] = g)
            BY <1>2, <1>4, <2>1, <3>2 DEF Claims
        <3>3. QED
            BY <3>1, <3>2
    <2>2. QED
        BY <2>1
<1>8. ClaimsBacked' /\ ClaimsApart'
    BY <1>1, <1>2, <1>7, ClaimsKept
<1>9. ServedIsOwn'
    BY <1>1, <1>2 DEF ServedIsOwn
<1>10. QED
    BY <1>5, <1>6, <1>8, <1>9 DEF ReportsInv

LEMMA EndCreateSteps ==
    ASSUME ReportsInv, NEW q \in Creates, EndCreate(q)
    PROVE  ReportsInv'
<1>1. References /\ ClaimsBacked /\ ClaimsApart /\ ServedIsOwn
    BY DEF ReportsInv
<1>2. /\ create' = [create EXCEPT ![q] = NoCreate]
      /\ UNCHANGED <<reports, files, lastReport, lastFile, objects, s3conn, download, lazy, clashed>>
    BY DEF EndCreate
<1>3. /\ create' \in [Creates -> CreateState] /\ create'[q].pc = "idle"
      /\ \A p \in Creates \ {q} : create'[p] = create[p]
    BY <1>1, <1>2, IdleTypes, Bounds, CreateTypes
<1>4. References'
    BY <1>1, <1>2, <1>3 DEF References, CreateState
<1>5. \A s \in ReportIds, l \in Keys, g \in FileIds : Claims(s, l, g)' => Claims(s, l, g)
    BY <1>2, <1>3 DEF Claims
<1>6. ClaimsBacked' /\ ClaimsApart'
    BY <1>1, <1>2, <1>5, ClaimsKept
<1>7. ServedIsOwn'
    BY <1>1, <1>2 DEF ServedIsOwn
<1>8. QED
    BY <1>4, <1>6, <1>7 DEF ReportsInv

-----------------------------------------------------------------------------
\* The rows of the other reports stay, and nobody inserts under r again.
LEMMA DeleteBugReportSteps ==
    ASSUME ReportsInv, NEW r \in ReportIds, DeleteBugReport(r)
    PROVE  ReportsInv'
<1>1. References /\ ClaimsBacked /\ ClaimsApart /\ ServedIsOwn
    BY DEF ReportsInv
<1>2. /\ reports' = reports \ {r}
      /\ files' = Remove(files, {f \in DOMAIN files : files[f].report = r})
      /\ UNCHANGED <<lastReport, lastFile, objects, s3conn, create, download, lazy, clashed>>
    BY DEF DeleteBugReport
<1>3. /\ \A f \in DOMAIN files' : f \in DOMAIN files /\ files'[f] = files[f] /\ files[f].report # r
      /\ \A f \in DOMAIN files : files[f].report # r => f \in DOMAIN files'
    BY <1>2 DEF Remove
<1>4. References'
    BY <1>1, <1>2, <1>3 DEF References
<1>5. \A s \in ReportIds, l \in Keys, g \in FileIds : Claims(s, l, g)' => Claims(s, l, g)
    BY <1>2, <1>3 DEF Claims
<1>6. ClaimsBacked'
    <2>1. ASSUME NEW s \in ReportIds, NEW k \in Keys, NEW g \in FileIds, Claims(s, k, g)'
          PROVE  /\ s <= lastReport' /\ g <= lastFile'
                 /\ s \in reports' => g \in DOMAIN files' /\ files'[g].report = s
                                      /\ k \in {files'[g].name, g}
        <3>1. /\ s <= lastReport /\ g <= lastFile
              /\ s \in reports => g \in DOMAIN files /\ files[g].report = s
                                  /\ k \in {files[g].name, g}
            BY <1>1, <1>5, <2>1 DEF ClaimsBacked
        <3>2. QED
            BY <1>2, <1>3, <3>1
    <2>2. QED
        BY <2>1 DEF ClaimsBacked
<1>7. ClaimsApart'
    BY <1>1, <1>2, <1>5 DEF ClaimsApart
<1>8. ServedIsOwn'
    BY <1>1, <1>2 DEF ServedIsOwn
<1>9. QED
    BY <1>4, <1>6, <1>7, <1>8 DEF ReportsInv

-----------------------------------------------------------------------------
(* GetReportFileByFileID.                                                  *)

\* A step of one download: it keeps to a place its file has claimed, and serves
\* its own file if it serves one.
LEMMA DownloadSteps ==
    ASSUME ReportsInv, NEW d \in Downloads, NEW c \in DownloadState,
           download' = [download EXCEPT ![d] = c],
           UNCHANGED <<reports, files, lastReport, lastFile, objects, create, clashed>>,
           c.pc \in {"object", "row"} =>
               /\ c.report \in ReportIds /\ c.file \in FileIds /\ c.name \in Names
               /\ Claims(c.report, c.name, c.file) /\ Claims(c.report, c.file, c.file),
           c.pc = "done" /\ c.file \notin clashed => c.served = c.file,
           lazy' \subseteq ReportIds \X FileIds,
           \A r \in ReportIds, g \in FileIds : <<r, g>> \in lazy' => Claims(r, g, g)
    PROVE  ReportsInv'
<1>1. References /\ ClaimsBacked /\ ClaimsApart /\ ServedIsOwn
    BY DEF ReportsInv
<1>2. /\ download' \in [Downloads -> DownloadState] /\ download'[d] = c
      /\ \A e \in Downloads \ {d} : download'[e] = download[e]
    BY <1>1 DEF References, DownloadState
<1>3. References'
    <2>1. \A e \in Downloads : download'[e].pc \in {"object", "row"} =>
              /\ download'[e].report \in ReportIds /\ download'[e].file \in FileIds
              /\ download'[e].name \in Names
        BY <1>1, <1>2 DEF References
    <2>2. QED
        BY <1>1, <1>2, <2>1 DEF References, DownloadState
<1>4. \A s \in ReportIds, l \in Keys, g \in FileIds : Claims(s, l, g)' => Claims(s, l, g)
    <2>1. ASSUME NEW s \in ReportIds, NEW l \in Keys, NEW g \in FileIds, Claims(s, l, g)'
          PROVE  Claims(s, l, g)
        <3>1. CASE <<s, g>> \in lazy' /\ l = g
            BY <3>1
        <3>2. ASSUME NEW e \in Downloads, download'[e].pc \in {"object", "row"},
                     download'[e].report = s, download'[e].file = g, l \in {download'[e].name, g}
              PROVE  Claims(s, l, g)
            <4>1. CASE e = d
                BY <1>2, <3>2, <4>1
            <4>2. CASE e # d
                BY <1>2, <3>2, <4>2 DEF Claims
            <4>3. QED
                BY <4>1, <4>2
        <3>3. QED
            BY <2>1, <3>1, <3>2 DEF Claims
    <2>2. QED
        BY <2>1
<1>5. ClaimsBacked' /\ ClaimsApart'
    BY <1>1, <1>4, ClaimsKept
<1>6. ServedIsOwn'
    BY <1>1, <1>2 DEF ServedIsOwn
<1>7. QED
    BY <1>3, <1>5, <1>6 DEF ReportsInv

\* What the lazy uploads claim.
LEMMA LazyClaims ==
    ASSUME References
    PROVE  /\ lazy \subseteq ReportIds \X FileIds
           /\ \A r \in ReportIds, g \in FileIds : <<r, g>> \in lazy => Claims(r, g, g)
BY DEF References, Claims

LEMMA FindFileSteps ==
    ASSUME ReportsInv, NEW d \in Downloads, NEW f \in FileIds, FindFile(d, f)
    PROVE  ReportsInv'
<1> DEFINE pc == IF s3conn THEN "object" ELSE "row"
           c == [pc |-> pc, report |-> files[f].report, file |-> f, name |-> files[f].name,
                 served |-> 0]
<1>1. References
    BY DEF ReportsInv
<1>2. /\ f \in DOMAIN files /\ download' = [download EXCEPT ![d] = c]
      /\ UNCHANGED <<reports, files, lastReport, lastFile, objects, s3conn, create, lazy, clashed>>
    BY DEF FindFile
<1>3. pc \in {"object", "row"}
    OBVIOUS
<1> HIDE DEF pc
<1>4. /\ files[f].report \in ReportIds /\ files[f].report \in 0..MaxReports /\ f \in 0..MaxFiles
      /\ files[f].name \in Names /\ 0 \in 0..MaxFiles
      /\ Claims(files[f].report, files[f].name, f) /\ Claims(files[f].report, f, f)
    BY <1>1, <1>2, OwnClaims, Bounds DEF References
<1>5. /\ c \in DownloadState /\ c.pc = pc /\ c.report = files[f].report /\ c.file = f
      /\ c.name = files[f].name
    BY <1>3, <1>4 DEF DownloadState
<1> HIDE DEF c
<1>6. /\ c.report \in ReportIds /\ c.file \in FileIds /\ c.name \in Names
      /\ Claims(c.report, c.name, c.file) /\ Claims(c.report, c.file, c.file)
      /\ c.pc # "done"
    BY <1>3, <1>4, <1>5
<1>7. lazy' \subseteq ReportIds \X FileIds
      /\ \A r \in ReportIds, g \in FileIds : <<r, g>> \in lazy' => Claims(r, g, g)
    BY <1>1, <1>2, LazyClaims
<1>8. QED
    BY <1>2, <1>5, <1>6, <1>7, DownloadSteps

\* The object under the name is the file's own, or the two files clash.
LEMMA GetObjectSteps ==
    ASSUME ReportsInv, NEW d \in Downloads, GetObject(d)
    PROVE  ReportsInv'
<1> DEFINE r == download[d].report
           k == download[d].name
           f == download[d].file
           g == objects[<<r, k>>]
           c == [download[d] EXCEPT !.pc = "done", !.served = g]
<1>1. References /\ ClaimsApart
    BY DEF ReportsInv
<1>2. /\ download[d].pc = "object" /\ <<r, k>> \in DOMAIN objects
      /\ download' = [download EXCEPT ![d] = c]
      /\ UNCHANGED <<reports, files, lastReport, lastFile, objects, s3conn, create, lazy, clashed>>
    BY DEF GetObject, NameKey
<1>3. /\ r \in ReportIds /\ k \in Keys /\ f \in FileIds /\ g \in FileIds /\ g \in 0..MaxFiles
      /\ Claims(r, k, f) /\ Claims(r, k, g)
    BY <1>1, <1>2, OwnClaims, Bounds DEF References, Keys
<1>4. f \notin clashed => g = f
    BY <1>1, <1>3 DEF ClaimsApart
<1>5. download[d] \in DownloadState
    BY <1>1 DEF References, DownloadState
<1> HIDE DEF g
<1>6. c \in DownloadState /\ c.pc = "done" /\ c.served = g /\ c.file = f
    BY <1>3, <1>5 DEF DownloadState
<1> HIDE DEF c, f
<1>7. lazy' \subseteq ReportIds \X FileIds
      /\ \A s \in ReportIds, h \in FileIds : <<s, h>> \in lazy' => Claims(s, h, h)
    BY <1>1, <1>2, LazyClaims
<1>8. QED
    BY <1>2, <1>4, <1>6, <1>7, DownloadSteps

LEMMA MissObjectSteps ==
    ASSUME ReportsInv, NEW d \in Downloads, MissObject(d)
    PROVE  ReportsInv'
<1> DEFINE c == [download[d] EXCEPT !.pc = "row"]
<1>1. References
    BY DEF ReportsInv
<1>2. /\ download[d].pc = "object" /\ download' = [download EXCEPT ![d] = c]
      /\ UNCHANGED <<reports, files, lastReport, lastFile, objects, s3conn, create, lazy, clashed>>
    BY DEF MissObject
<1>3. download[d] \in DownloadState
    BY <1>1 DEF References, DownloadState
<1>4. /\ c \in DownloadState /\ c.pc = "row" /\ c.report = download[d].report
      /\ c.file = download[d].file /\ c.name = download[d].name
    BY <1>3 DEF DownloadState
<1> HIDE DEF c
<1>5. /\ c.report \in ReportIds /\ c.file \in FileIds /\ c.name \in Names
      /\ Claims(c.report, c.name, c.file) /\ Claims(c.report, c.file, c.file)
    BY <1>1, <1>2, <1>4, OwnClaims DEF References
<1>6. lazy' \subseteq ReportIds \X FileIds
      /\ \A r \in ReportIds, g \in FileIds : <<r, g>> \in lazy' => Claims(r, g, g)
    BY <1>1, <1>2, LazyClaims
<1>7. QED
    BY <1>2, <1>4, <1>5, <1>6, DownloadSteps

LEMMA GetRowSteps ==
    ASSUME ReportsInv, NEW d \in Downloads, GetRow(d)
    PROVE  ReportsInv'
<1> DEFINE f == download[d].file
           r == download[d].report
           c == IF f \in DOMAIN files THEN [download[d] EXCEPT !.pc = "done", !.served = f]
                ELSE NoDownload
<1>1. References
    BY DEF ReportsInv
<1>2. /\ download[d].pc = "row" /\ download' = [download EXCEPT ![d] = c]
      /\ lazy' = lazy \/ lazy' = lazy \cup {<<r, f>>}
      /\ UNCHANGED <<reports, files, lastReport, lastFile, objects, s3conn, create, clashed>>
    BY DEF GetRow
<1>3. r \in ReportIds /\ f \in FileIds /\ f \in 0..MaxFiles /\ 0 \in 0..MaxReports /\ Claims(r, f, f)
    BY <1>1, <1>2, OwnClaims, Bounds DEF References
<1>4. download[d] \in DownloadState
    BY <1>1 DEF References, DownloadState
<1>5. /\ c \in DownloadState /\ c.pc \in {"done", "idle"}
      /\ c.pc = "done" => c.served = c.file
    <2>1. CASE f \in DOMAIN files
        <3>1. c = [download[d] EXCEPT !.pc = "done", !.served = f]
            BY <2>1
        <3> HIDE DEF c
        <3>2. QED
            BY <1>3, <1>4, <3>1 DEF DownloadState
    <2>2. CASE f \notin DOMAIN files
        <3>1. c = NoDownload
            BY <2>2
        <3> HIDE DEF c
        <3>2. QED
            BY <1>3, <3>1, IdleTypes
    <2>3. QED
        BY <2>1, <2>2
<1> HIDE DEF c, f, r
<1>6. /\ lazy' \subseteq ReportIds \X FileIds
      /\ \A s \in ReportIds, g \in FileIds : <<s, g>> \in lazy' => Claims(s, g, g)
    BY <1>1, <1>2, <1>3, LazyClaims
<1>7. QED
    BY <1>2, <1>5, <1>6, DownloadSteps

LEMMA EndDownloadSteps ==
    ASSUME ReportsInv, NEW d \in Downloads, EndDownload(d)
    PROVE  ReportsInv'
<1>1. References
    BY DEF ReportsInv
<1>2. /\ download' = [download EXCEPT ![d] = NoDownload]
      /\ UNCHANGED <<reports, files, lastReport, lastFile, objects, s3conn, create, lazy, clashed>>
    BY DEF EndDownload
<1>3. NoDownload \in DownloadState /\ NoDownload.pc = "idle"
    BY <1>1, IdleTypes, Bounds
<1>4. /\ lazy' \subseteq ReportIds \X FileIds
      /\ \A r \in ReportIds, g \in FileIds : <<r, g>> \in lazy' => Claims(r, g, g)
    BY <1>1, <1>2, LazyClaims
<1>5. QED
    BY <1>2, <1>3, <1>4, DownloadSteps

-----------------------------------------------------------------------------
(* Uploads outside a request, and the end of the process.                  *)

\* f is put where it had claimed a place.
LEMMA StoreSteps ==
    ASSUME ReportsInv, NEW r \in ReportIds, NEW k \in Keys, NEW f \in FileIds, Claims(r, k, f),
           objects' = Put(objects, <<r, k>>, f), lazy' \subseteq lazy,
           UNCHANGED <<reports, files, lastReport, lastFile, create, download, clashed>>
    PROVE  ReportsInv' /\ DOMAIN objects \subseteq DOMAIN objects' /\ <<r, k>> \in DOMAIN objects'
<1>1. References /\ ClaimsBacked /\ ClaimsApart /\ ServedIsOwn
    BY DEF ReportsInv
<1>2. /\ \A key \in DOMAIN objects' : key \in ReportIds \X Keys /\ objects'[key] \in FileIds
      /\ DOMAIN objects \subseteq DOMAIN objects' /\ <<r, k>> \in DOMAIN objects'
      /\ \A s \in ReportIds, l \in Keys, g \in FileIds :
            <<s, l>> \in DOMAIN objects' /\ objects'[<<s, l>>] = g => Claims(s, l, g)
    BY <1>1, PutObject
<1>3. References'
    BY <1>1, <1>2 DEF References
<1>4. ASSUME NEW s \in ReportIds, NEW l \in Keys, NEW g \in FileIds, Claims(s, l, g)'
      PROVE  Claims(s, l, g)
    <2>1. CASE <<s, l>> \in DOMAIN objects' /\ objects'[<<s, l>>] = g
        BY <1>2, <2>1
    <2>2. CASE ~(<<s, l>> \in DOMAIN objects' /\ objects'[<<s, l>>] = g)
        BY <1>4, <2>2 DEF Claims
    <2>3. QED
        BY <2>1, <2>2
<1>5. ClaimsBacked' /\ ClaimsApart'
    BY <1>1, <1>4, ClaimsKept
<1>6. ServedIsOwn'
    BY <1>1 DEF ServedIsOwn
<1>7. QED
    BY <1>2, <1>3, <1>5, <1>6 DEF ReportsInv

LEMMA LazyUploadSteps ==
    ASSUME ReportsInv, NEW u \in lazy, NEW stored \in BOOLEAN, LazyUpload(u, stored)
    PROVE  ReportsInv' /\ DOMAIN objects \subseteq DOMAIN objects'
<1>1. References /\ ClaimsBacked /\ ClaimsApart /\ ServedIsOwn
    BY DEF ReportsInv
<1>2. /\ lazy' \subseteq lazy
      /\ objects' = IF stored THEN Put(objects, <<u[1], u[2]>>, u[2]) ELSE objects
      /\ UNCHANGED <<reports, files, lastReport, lastFile, s3conn, create, download, clashed>>
    BY DEF LazyUpload, IdKey
<1>3. PICK r \in ReportIds, f \in FileIds : u = <<r, f>>
    BY <1>1 DEF References
<1>4. u[1] = r /\ u[2] = f /\ f \in Keys /\ Claims(r, f, f)
    BY <1>1, <1>3, LazyClaims DEF Keys
<1>5. CASE stored
    <2>1. objects' = Put(objects, <<r, f>>, f)
        BY <1>2, <1>4, <1>5
    <2>2. QED
        BY <1>2, <1>4, <2>1, StoreSteps
<1>6. CASE ~stored
    <2>1. objects' = objects
        BY <1>2, <1>6
    <2>2. References'
        BY <1>1, <1>2, <2>1 DEF References
    <2>3. \A s \in ReportIds, l \in Keys, g \in FileIds : Claims(s, l, g)' => Claims(s, l, g)
        BY <1>2, <2>1 DEF Claims
    <2>4. ClaimsBacked' /\ ClaimsApart'
        BY <1>1, <1>2, <2>3, ClaimsKept
    <2>5. ServedIsOwn'
        BY <1>1, <1>2 DEF ServedIsOwn
    <2>6. QED
        BY <2>1, <2>2, <2>4, <2>5 DEF ReportsInv
<1>7. QED
    BY <1>5, <1>6

\* A step that touches no report, file or request.
LEMMA ReportsKept ==
    ASSUME ReportsInv,
           UNCHANGED <<reports, files, lastReport, lastFile, objects, create, download, lazy, clashed>>
    PROVE  ReportsInv'
<1>1. References /\ ClaimsBacked /\ ClaimsApart /\ ServedIsOwn
    BY DEF ReportsInv
<1>2. References'
    BY <1>1 DEF References
<1>3. \A s \in ReportIds, l \in Keys, g \in FileIds : Claims(s, l, g)' => Claims(s, l, g)
    BY DEF Claims
<1>4. ClaimsBacked' /\ ClaimsApart'
    BY <1>1, <1>3, ClaimsKept
<1>5. ServedIsOwn'
    BY <1>1 DEF ServedIsOwn
<1>6. QED
    BY <1>2, <1>4, <1>5 DEF ReportsInv

\* The requests and the lazy uploads are lost, the tables and the objects are not.
LEMMA DieSteps ==
    ASSUME ReportsInv, Die
    PROVE  ReportsInv'
<1>1. References /\ ClaimsBacked /\ ClaimsApart /\ ServedIsOwn
    BY DEF ReportsInv
<1>2. /\ create' = [q \in Creates |-> NoCreate] /\ download' = [d \in Downloads |-> NoDownload]
      /\ lazy' = {}
      /\ UNCHANGED <<reports, files, lastReport, lastFile, objects, clashed>>
    BY DEF Die
<1>3. /\ NoCreate \in CreateState /\ NoCreate.pc = "idle"
      /\ NoDownload \in DownloadState /\ NoDownload.pc = "idle"
    BY <1>1, IdleTypes, Bounds
<1>4. /\ create' \in [Creates -> CreateState] /\ \A q \in Creates : create'[q].pc = "idle"
      /\ download' \in [Downloads -> DownloadState] /\ \A d \in Downloads : download'[d].pc = "idle"
    BY <1>2, <1>3
<1>5. References'
    BY <1>1, <1>2, <1>4 DEF References, CreateState, DownloadState
<1>6. \A s \in ReportIds, l \in Keys, g \in FileIds : Claims(s, l, g)' => Claims(s, l, g)
    BY <1>2, <1>4 DEF Claims
<1>7. ClaimsBacked' /\ ClaimsApart'
    BY <1>1, <1>2, <1>6, ClaimsKept
<1>8. ServedIsOwn'
    BY <1>4 DEF ServedIsOwn
<1>9. QED
    BY <1>5, <1>7, <1>8 DEF ReportsInv

-----------------------------------------------------------------------------
(* The server's requests, all together.                                    *)

\* Objects are never lost, and a row is never changed.
TablesGrow ==
    /\ lastFile <= lastFile'
    /\ DOMAIN objects \subseteq DOMAIN objects'
    /\ \A f \in DOMAIN files' :
          \/ f \in DOMAIN files /\ files'[f] = files[f]
          \/ f = lastFile + 1

LEMMA RequestSteps ==
    ASSUME ReportsInv, NewRequest \/ RequestStep
    PROVE  ReportsInv' /\ TablesGrow
<1>0. References /\ lastFile \in Nat
    BY Bounds DEF ReportsInv
<1>1. ASSUME NEW q \in Creates, InsertReport(q) PROVE ReportsInv' /\ TablesGrow
    <2>1. UNCHANGED <<files, lastFile, objects>>
        BY <1>1 DEF InsertReport
    <2>2. QED
        BY <1>0, <1>1, <2>1, InsertReportSteps DEF TablesGrow
<1>2. ASSUME NEW r \in ReportIds, DeleteBugReport(r) PROVE ReportsInv' /\ TablesGrow
    <2>1. /\ UNCHANGED <<lastFile, objects>>
          /\ \A f \in DOMAIN files' : f \in DOMAIN files /\ files'[f] = files[f]
        BY <1>2 DEF DeleteBugReport, Remove
    <2>2. QED
        BY <1>0, <1>2, <2>1, DeleteBugReportSteps DEF TablesGrow
<1>3. ASSUME NEW d \in Downloads,
             \/ \E f \in FileIds : FindFile(d, f)
             \/ GetObject(d) \/ MissObject(d) \/ GetRow(d) \/ EndDownload(d)
      PROVE  ReportsInv' /\ TablesGrow
    <2>1. UNCHANGED <<files, lastFile, objects>>
        BY <1>3 DEF FindFile, GetObject, MissObject, GetRow, EndDownload
    <2>2. ReportsInv'
        BY <1>3, FindFileSteps, GetObjectSteps, MissObjectSteps, GetRowSteps, EndDownloadSteps
    <2>3. QED
        BY <1>0, <2>1, <2>2 DEF TablesGrow
<1>4. ASSUME NEW q \in Creates, NEW name \in Names, InsertFile(q, name)
      PROVE  ReportsInv' /\ TablesGrow
    <2>1. /\ lastFile' = lastFile + 1 /\ UNCHANGED objects
          /\ \E row : files' = Put(files, lastFile + 1, row)
        BY <1>4 DEF InsertFile
    <2>2. \A f \in DOMAIN files' :
              f = lastFile + 1 \/ (f \in DOMAIN files /\ files'[f] = files[f])
        BY <2>1 DEF Put
    <2>3. lastFile <= lastFile'
        BY <1>0, <2>1
    <2>4. QED
        BY <1>4, <2>1, <2>2, <2>3, InsertFileSteps DEF TablesGrow
<1>5. ASSUME NEW q \in Creates, NEW stored \in BOOLEAN, UploadFile(q, stored)
      PROVE  ReportsInv' /\ TablesGrow
    <2>1. UNCHANGED <<files, lastFile>>
        BY <1>5 DEF UploadFile
    <2>2. QED
        BY <1>0, <1>5, <2>1, UploadFileSteps DEF TablesGrow
<1>6. ASSUME NEW q \in Creates, EndCreate(q) PROVE ReportsInv' /\ TablesGrow
    <2>1. UNCHANGED <<files, lastFile, objects>>
        BY <1>6 DEF EndCreate
    <2>2. QED
        BY <1>0, <1>6, <2>1, EndCreateSteps DEF TablesGrow
<1>7. ASSUME NEW u \in lazy, NEW stored \in BOOLEAN, LazyUpload(u, stored)
      PROVE  ReportsInv' /\ TablesGrow
    <2>1. UNCHANGED <<files, lastFile>>
        BY <1>7 DEF LazyUpload
    <2>2. QED
        BY <1>0, <1>7, <2>1, LazyUploadSteps DEF TablesGrow
<1>8. QED
    BY <1>1, <1>2, <1>3, <1>4, <1>5, <1>6, <1>7 DEF NewRequest, RequestStep

-----------------------------------------------------------------------------
(* The migration of the files.                                             *)

\* What was migrated stays stored while rows come and go.
LEMMA MigratedKept ==
    ASSUME References, migrated \subseteq 1..lastFile, MigratedFilesStored, TablesGrow,
           lastFile' \in Nat, UNCHANGED migrated
    PROVE  (migrated \subseteq 1..lastFile)' /\ MigratedFilesStored'
<1>1. lastFile \in Nat
    BY Bounds
<1>2. 1..lastFile \subseteq 1..lastFile'
    BY <1>1 DEF TablesGrow
<1>3. lastFile + 1 \notin migrated
    BY <1>1
<1>4. \A f \in migrated \cap DOMAIN files' : f \in DOMAIN files /\ files'[f] = files[f]
    BY <1>3 DEF TablesGrow
<1>5. MigratedFilesStored'
    BY <1>4 DEF MigratedFilesStored, TablesGrow, NameKey
<1>6. QED
    BY <1>2, <1>5

\* A step of the process that leaves the tables and the objects alone.
LEMMA TablesKept ==
    ASSUME ReportsInv, FilesInv, UNCHANGED <<reportVars, migrated>>
    PROVE  ReportsInv' /\ (migrated \subseteq 1..lastFile)' /\ MigratedFilesStored'
<1>1. ReportsInv'
    BY ReportsKept DEF reportVars
<1>2. (migrated \subseteq 1..lastFile)' /\ MigratedFilesStored'
    BY DEF FilesInv, reportVars, MigratedFilesStored
<1>3. QED
    BY <1>1, <1>2

BootRecord == boot = MkBoot(boot.pc, boot.task, boot.stmt)

LEMMA Goes ==
    ASSUME BootRecord, NEW pc, GoTo(pc)
    PROVE  BootRecord' /\ boot'.pc = pc
BY DEF BootRecord, GoTo, MkBoot

LEMMA MigrateStepSteps ==
    ASSUME BootRecord, SchemaNext
    PROVE  BootRecord' /\ boot'.pc \notin {"listing", "files", "fatal"}
<1>1. CASE Start \/ MigrateFails \/ Restart \/ CrashInMigrate
    BY <1>1 DEF Start, MigrateFails, Restart, CrashInMigrate, Down, MkBoot, BootRecord
<1>2. CASE CheckTask
    <2>1. \E t : boot' = MkBoot("migrated", 0, 1) \/ boot' = MkBoot("exec", t, 1)
        BY <1>2 DEF CheckTask
    <2>2. QED
        BY <2>1 DEF MkBoot, BootRecord
<1>3. CASE ExecStatement
    <2>1. boot.pc = "exec"
          /\ (boot' = [boot EXCEPT !.stmt = @ + 1] \/ boot' = MkBoot("check", boot.task + 1, 1))
        BY <1>3 DEF ExecStatement
    <2>2. QED
        BY <2>1 DEF MkBoot, BootRecord
<1>4. QED
    BY <1>1, <1>2, <1>3 DEF SchemaNext

\* A step that leaves the tables and the objects alone and answers for its workers and rows.
LEMMA MainSteps ==
    ASSUME IInv, UNCHANGED <<reportVars, migrated>>, BootRecord', errors' \in Nat, RowsRead',
           WorkersRun' => \A f \in DOMAIN worker' :
               f \in DOMAIN files /\ (worker'[f] = "done" => Stored(f) \/ errors' > 0)
    PROVE  IInv'
<1>1. ReportsInv /\ FilesInv
    BY DEF IInv, ReportsInv, FilesInv
<1>2. ReportsInv' /\ (migrated \subseteq 1..lastFile)' /\ MigratedFilesStored'
    BY <1>1, TablesKept
<1>3. \A f : Stored(f)' = Stored(f)
    BY DEF Stored, NameKey, reportVars
<1>4. WorkersAccounted'
    BY <1>3 DEF WorkersAccounted, reportVars
<1>5. QED
    BY <1>2, <1>4 DEF IInv, ReportsInv, BootRecord

\* Outside the migration there is nothing to answer for but the type of the rows.
LEMMA NoMigration ==
    ASSUME RowsRead, boot'.pc \notin {"listing", "files"}, rows' \in {rows, NoRows}
    PROVE  RowsRead'
<1>1. NoRows \in [report : 0..MaxReports, over : SUBSET ReportIds, cut : BOOLEAN]
    BY ReportsAssumption DEF NoRows
<1>2. QED
    BY <1>1 DEF RowsRead

\* Each step of the loops over the rows: a row that is read has its worker, and a
\* report is over with all its files under way or with a cut that is known.
LEMMA ReadRowsSteps ==
    ASSUME IInv, ReadRows
    PROVE  IInv'
<1>1. RowsRead /\ WorkersAccounted /\ References /\ BootRecord /\ errors \in Nat
    BY DEF IInv, BootRecord, WorkersAccounted
<1>2. At("listing") /\ UNCHANGED <<reportVars, migrated, errors>>
    BY DEF ReadRows, ReportRow, FileRow, EndOfFilesRows, EndOfReportsRows, ListingFails
<1>3. /\ files' = files /\ reports' = reports /\ WorkersRun
      /\ \A f \in DOMAIN worker :
            f \in DOMAIN files /\ (worker[f] = "done" => Stored(f) \/ errors' > 0)
    BY <1>1, <1>2 DEF reportVars, WorkersRun, At, WorkersAccounted
<1>4. rows \in [report : 0..MaxReports, over : SUBSET ReportIds, cut : BOOLEAN]
    BY <1>1 DEF RowsRead
<1>5. ASSUME NEW r \in ReportIds, ReportRow(r) PROVE IInv'
    <2>1. /\ worker' = worker /\ boot' = boot /\ rows' = [rows EXCEPT !.report = r]
          /\ r \in 0..MaxReports
        BY <1>5, ReportsAssumption DEF ReportRow, schemaVars, ReportIds
    <2>2. /\ rows' \in [report : 0..MaxReports, over : SUBSET ReportIds, cut : BOOLEAN]
          /\ rows'.over = rows.over /\ rows'.cut = rows.cut
        BY <1>4, <2>1
    <2>3. RowsRead'
        BY <1>1, <1>3, <2>1, <2>2 DEF RowsRead, At
    <2>4. BootRecord'
        BY <1>1, <2>1 DEF BootRecord
    <2>5. QED
        BY <1>1, <1>2, <1>3, <2>1, <2>3, <2>4, MainSteps
<1>6. ASSUME NEW f \in FileIds, FileRow(f) PROVE IInv'
    <2>1. /\ worker' = Put(worker, f, "upload") /\ boot' = boot /\ rows' = rows
          /\ f \in DOMAIN files
        BY <1>6 DEF FileRow, schemaVars
    <2>2. /\ DOMAIN worker' = DOMAIN worker \cup {f}
          /\ \A g \in DOMAIN worker' : worker'[g] = IF g = f THEN "upload" ELSE worker[g]
        BY <2>1 DEF Put
    <2>3. RowsRead'
        BY <1>1, <1>3, <2>1, <2>2 DEF RowsRead, At
    <2>4. BootRecord'
        BY <1>1, <2>1 DEF BootRecord
    <2>5. \A g \in DOMAIN worker' :
              g \in DOMAIN files /\ (worker'[g] = "done" => Stored(g) \/ errors' > 0)
        BY <1>3, <2>1, <2>2
    <2>6. QED
        BY <1>1, <1>2, <2>3, <2>4, <2>5, MainSteps
<1>7. CASE EndOfFilesRows
    <2>1. /\ worker' = worker /\ boot' = boot /\ rows.report # 0
          /\ rows' = [report |-> 0, over |-> rows.over \cup {rows.report},
                      cut |-> rows.cut \/ ~(RowsOf(rows.report) \subseteq DOMAIN worker)]
        BY <1>7 DEF EndOfFilesRows, schemaVars
    <2>2. rows.report \in ReportIds /\ 0 \in 0..MaxReports
        BY <1>4, <2>1, ReportsAssumption DEF ReportIds
    <2>3. /\ rows' \in [report : 0..MaxReports, over : SUBSET ReportIds, cut : BOOLEAN]
          /\ rows'.over = rows.over \cup {rows.report}
          /\ ~rows'.cut => ~rows.cut /\ RowsOf(rows.report) \subseteq DOMAIN worker
        BY <1>4, <2>1, <2>2
    <2>4. ASSUME ~rows'.cut, NEW f \in DOMAIN files, files[f].report \in rows'.over
          PROVE  f \in DOMAIN worker
        <3>1. CASE files[f].report = rows.report
            BY <2>3, <2>4, <3>1 DEF RowsOf
        <3>2. CASE files[f].report \in rows.over
            BY <1>1, <1>2, <2>3, <2>4, <3>2 DEF RowsRead, At
        <3>3. QED
            BY <2>3, <2>4, <3>1, <3>2
    <2>5. RowsRead'
        BY <1>2, <1>3, <2>1, <2>3, <2>4 DEF RowsRead, At
    <2>6. BootRecord'
        BY <1>1, <2>1 DEF BootRecord
    <2>7. QED
        BY <1>1, <1>2, <1>3, <2>1, <2>5, <2>6, MainSteps
<1>8. CASE EndOfReportsRows
    <2>1. /\ worker' = worker /\ GoTo("files")
          /\ rows' = [rows EXCEPT !.cut = @ \/ rows.over # reports]
        BY <1>8 DEF EndOfReportsRows
    <2>2. BootRecord' /\ boot'.pc = "files"
        BY <1>1, <2>1, Goes
    <2>3. /\ rows' \in [report : 0..MaxReports, over : SUBSET ReportIds, cut : BOOLEAN]
          /\ rows'.over = rows.over
          /\ ~rows'.cut => ~rows.cut /\ rows.over = reports
        BY <1>4, <2>1
    <2>4. RowsRead'
        BY <1>1, <1>2, <1>3, <2>1, <2>2, <2>3 DEF RowsRead, At
    <2>5. QED
        BY <1>1, <1>2, <1>3, <2>1, <2>2, <2>4, MainSteps
<1>9. CASE ListingFails
    <2>1. worker' = worker /\ GoTo("fatal") /\ rows' = NoRows
        BY <1>9 DEF ListingFails
    <2>2. BootRecord' /\ boot'.pc = "fatal"
        BY <1>1, <2>1, Goes
    <2>3. RowsRead'
        BY <1>1, <2>1, <2>2, NoMigration
    <2>4. QED
        BY <1>1, <1>2, <1>3, <2>1, <2>2, <2>3, MainSteps
<1>10. QED
    BY <1>5, <1>6, <1>7, <1>8, <1>9 DEF ReadRows

\* A worker stores its file, or its error is counted: in both cases it may be done.
LEMMA WorkerSteps ==
    ASSUME IInv, NEW f \in FileIds, WorkerStores(f) \/ WorkerFails(f) \/ WorkerSends(f)
    PROVE  IInv'
<1>1. ReportsInv /\ FilesInv /\ WorkersAccounted /\ RowsRead /\ References /\ BootRecord
    BY DEF IInv, ReportsInv, FilesInv, BootRecord
<1>2. /\ WorkersRun /\ f \in DOMAIN worker /\ f \in DOMAIN files
      /\ UNCHANGED <<schemaVars, migrated, rows, files, reports>>
    BY <1>1 DEF WorkerStores, WorkerFails, WorkerSends, WorkersAccounted, reportVars
<1>3. BootRecord' /\ boot' = boot /\ RowsRead'
    <2>1. BootRecord' /\ boot' = boot
        BY <1>1, <1>2 DEF BootRecord, schemaVars
    <2>2. DOMAIN worker' = DOMAIN worker
        BY DEF WorkerStores, WorkerFails, WorkerSends
    <2>3. RowsRead'
        BY <1>1, <1>2, <2>1, <2>2 DEF RowsRead, At
    <2>4. QED
        BY <2>1, <2>3
<1>4. CASE WorkerStores(f)
    <2> DEFINE r == files[f].report
               k == files[f].name
    <2>1. /\ objects' = Put(objects, <<r, k>>, f)
          /\ worker' = [worker EXCEPT ![f] = "done"]
          /\ UNCHANGED <<reports, files, lastReport, lastFile, create, download, lazy, clashed, errors>>
        BY <1>4 DEF WorkerStores, NameKey
    <2>2. r \in ReportIds /\ k \in Keys /\ Claims(r, k, f)
        BY <1>1, <1>2, OwnClaims
    <2>3. lazy' \subseteq lazy
        BY <2>1
    <2> HIDE DEF r, k
    <2>4. ReportsInv' /\ DOMAIN objects \subseteq DOMAIN objects' /\ <<r, k>> \in DOMAIN objects'
        BY <1>1, <2>1, <2>2, <2>3, StoreSteps
    <2>5. TablesGrow /\ lastFile' \in Nat
        BY <1>1, <2>1, <2>4, Bounds DEF TablesGrow
    <2>6. (migrated \subseteq 1..lastFile)' /\ MigratedFilesStored'
        BY <1>1, <1>2, <2>5, MigratedKept DEF FilesInv
    <2>7. WorkersAccounted'
        <3>1. errors' \in Nat
            BY <1>1, <2>1 DEF WorkersAccounted
        <3>2. ASSUME NEW g \in DOMAIN worker'
              PROVE  g \in DOMAIN files' /\ (worker'[g] = "done" => Stored(g)' \/ errors' > 0)
            <4>1. g \in DOMAIN worker /\ g \in DOMAIN files'
                BY <1>1, <1>2, <2>1 DEF WorkersAccounted
            <4>2. CASE g = f
                BY <2>1, <2>4, <4>1, <4>2 DEF Stored, NameKey, r, k
            <4>3. CASE g # f
                <5>1. worker'[g] = worker[g]
                    BY <2>1, <4>1, <4>3
                <5>2. Stored(g) => Stored(g)'
                    BY <2>1, <2>4 DEF Stored, NameKey
                <5>3. QED
                    BY <1>1, <1>2, <2>1, <4>1, <5>1, <5>2 DEF WorkersAccounted
            <4>4. QED
                BY <4>2, <4>3
        <3>3. QED
            BY <3>1, <3>2 DEF WorkersAccounted
    <2>8. QED
        BY <1>3, <2>4, <2>6, <2>7 DEF IInv, ReportsInv, BootRecord
<1>5. CASE WorkerFails(f) \/ WorkerSends(f)
    <2>1. UNCHANGED <<reportVars, migrated>>
        BY <1>5 DEF WorkerFails, WorkerSends
    <2>2. ReportsInv' /\ (migrated \subseteq 1..lastFile)' /\ MigratedFilesStored'
        BY <1>1, <2>1, TablesKept
    <2>3. \A g : Stored(g)' = Stored(g)
        BY <2>1 DEF Stored, NameKey, reportVars
    <2>4. WorkersAccounted'
        <3>1. CASE WorkerFails(f)
            <4>1. worker' = [worker EXCEPT ![f] = "send"] /\ UNCHANGED <<errors, files>>
                BY <3>1 DEF WorkerFails, reportVars
            <4>2. \A g \in DOMAIN worker' :
                      g \in DOMAIN worker /\ (worker'[g] = "done" => worker[g] = "done")
                BY <4>1
            <4>3. QED
                BY <1>1, <1>2, <2>3, <4>1, <4>2 DEF WorkersAccounted
        <3>2. CASE WorkerSends(f)
            <4>1. /\ worker' = [worker EXCEPT ![f] = "done"]
                  /\ errors' = errors + 1 /\ UNCHANGED files
                BY <3>2 DEF WorkerSends, reportVars
            <4>2. errors' \in Nat /\ errors' > 0
                BY <1>1, <4>1 DEF WorkersAccounted
            <4>3. \A g \in DOMAIN worker' : g \in DOMAIN files'
                BY <1>1, <1>2, <4>1 DEF WorkersAccounted
            <4>4. QED
                BY <4>2, <4>3 DEF WorkersAccounted
        <3>3. QED
            BY <1>5, <3>1, <3>2
    <2>5. QED
        BY <1>3, <2>2, <2>4 DEF IInv, ReportsInv, BootRecord
<1>6. QED
    BY <1>4, <1>5

\* No error, and all are done: everything is stored.
LEMMA FilesMigratedSteps ==
    ASSUME IInv, FilesMigrated
    PROVE  IInv'
<1>1. ReportsInv /\ FilesInv /\ WorkersAccounted /\ RowsRead /\ References /\ BootRecord
    BY DEF IInv, ReportsInv, FilesInv, BootRecord
<1>2. /\ At("files") /\ AllWorkersDone /\ errors = 0 /\ rows' = NoRows
      /\ migrated' = (IF rows.cut THEN DOMAIN worker ELSE DOMAIN files) /\ worker' = <<>>
      /\ GoTo("connected") /\ UNCHANGED <<reportVars, errors>>
    BY DEF FilesMigrated
<1>3. BootRecord' /\ boot'.pc = "connected"
    BY <1>1, <1>2, Goes
<1>4. ReportsInv'
    BY <1>1, <1>2, ReportsKept DEF reportVars
<1>5. \A f \in DOMAIN worker : f \in DOMAIN files /\ Stored(f)
    BY <1>1, <1>2 DEF WorkersAccounted, AllWorkersDone, WorkersRun, At
<1>6. ~rows.cut => DOMAIN files \subseteq DOMAIN worker
    BY <1>1, <1>2 DEF RowsRead, References, At
<1>7. \A f \in migrated' : f \in DOMAIN files /\ Stored(f)
    BY <1>2, <1>5, <1>6
<1>8. (migrated \subseteq 1..lastFile)' /\ MigratedFilesStored'
    BY <1>1, <1>2, <1>7 DEF References, MigratedFilesStored, Stored, reportVars
<1>9. WorkersAccounted' /\ RowsRead'
    BY <1>1, <1>2, <1>3, NoMigration DEF WorkersAccounted, WorkersRun
<1>10. QED
    BY <1>3, <1>4, <1>8, <1>9 DEF IInv, ReportsInv, BootRecord

LEMMA HandleRequestSteps ==
    ASSUME IInv, HandleRequest
    PROVE  IInv'
<1>1. ReportsInv /\ FilesInv /\ WorkersAccounted /\ RowsRead /\ References /\ BootRecord
    BY DEF IInv, ReportsInv, FilesInv, BootRecord
<1>2. /\ NewRequest \/ RequestStep
      /\ boot.pc \in {"serving", "stopping"} /\ boot' = boot
      /\ UNCHANGED <<migrated, errors, rows>>
    BY DEF HandleRequest, At, schemaVars, filesVars
<1>3. ReportsInv' /\ TablesGrow
    BY <1>1, <1>2, RequestSteps
<1>4. lastFile' \in Nat
    BY <1>3 DEF ReportsInv, References
<1>5. (migrated \subseteq 1..lastFile)' /\ MigratedFilesStored'
    BY <1>1, <1>2, <1>3, <1>4, MigratedKept DEF FilesInv
<1>6. WorkersAccounted' /\ RowsRead'
    BY <1>1, <1>2, NoMigration DEF WorkersAccounted, WorkersRun
<1>7. QED
    BY <1>1, <1>2, <1>3, <1>5, <1>6 DEF IInv, ReportsInv, BootRecord

LEMMA DeathSteps ==
    ASSUME IInv, Die
    PROVE  IInv'
<1>1. ReportsInv /\ FilesInv
    BY DEF IInv, ReportsInv, FilesInv
<1>2. /\ boot' = Down /\ errors' = 0 /\ rows' = NoRows /\ RowsRead
      /\ UNCHANGED <<files, lastFile, objects, migrated>>
    BY DEF Die, IInv
<1>3. BootRecord' /\ boot'.pc = "down"
    BY <1>2 DEF BootRecord, Down, MkBoot
<1>4. ReportsInv'
    BY <1>1, DieSteps
<1>5. (migrated \subseteq 1..lastFile)' /\ MigratedFilesStored'
    BY <1>1, <1>2 DEF FilesInv, MigratedFilesStored
<1>6. WorkersAccounted' /\ RowsRead'
    BY <1>2, <1>3, NoMigration DEF WorkersAccounted, WorkersRun
<1>7. QED
    BY <1>3, <1>4, <1>5, <1>6 DEF IInv, ReportsInv, BootRecord

-----------------------------------------------------------------------------
(* The theorems.                                                           *)

\* The inductive invariant: who claims which key of the object store, and what
\* the workers of the migration have left behind.
THEOREM ProcessInvariant == SafetySpec => []IInv
<1>1. Init => IInv
    <2> SUFFICES ASSUME Init PROVE IInv
        OBVIOUS
    <2>1. /\ boot = Down /\ reports = {} /\ files = <<>> /\ objects = <<>> /\ lazy = {}
          /\ lastReport = 0 /\ lastFile = 0 /\ errors = 0 /\ migrated = {} /\ rows = NoRows
          /\ create = [q \in Creates |-> NoCreate] /\ download = [d \in Downloads |-> NoDownload]
        BY DEF Init, SchemaInit, ReportsInit
    <2>2. DOMAIN files = {} /\ DOMAIN objects = {}
        BY <2>1
    <2>3. 0 \in 0..MaxReports /\ 0 \in 0..MaxFiles
        BY ReportsAssumption
    <2>4. /\ NoCreate \in CreateState /\ NoCreate.pc = "idle"
          /\ NoDownload \in DownloadState /\ NoDownload.pc = "idle"
        BY <2>3, IdleTypes
    <2>5. /\ create \in [Creates -> CreateState] /\ \A q \in Creates : create[q].pc = "idle"
          /\ download \in [Downloads -> DownloadState] /\ \A d \in Downloads : download[d].pc = "idle"
        BY <2>1, <2>4
    <2>6. References
        BY <2>1, <2>2, <2>3, <2>5 DEF References, CreateState, DownloadState
    <2>7. \A r, k, g : ~Claims(r, k, g)
        BY <2>1, <2>2, <2>5 DEF Claims
    <2>8. ClaimsBacked /\ ClaimsApart
        BY <2>7 DEF ClaimsBacked, ClaimsApart
    <2>9. ServedIsOwn
        BY <2>5 DEF ServedIsOwn
    <2>10. BootRecord /\ boot.pc = "down"
        BY <2>1 DEF BootRecord, Down, MkBoot
    <2>11. WorkersAccounted /\ migrated \subseteq 1..lastFile /\ MigratedFilesStored
        BY <2>1, <2>10 DEF WorkersAccounted, WorkersRun, MigratedFilesStored
    <2>12. RowsRead
        BY <2>1, <2>3, <2>10 DEF RowsRead, NoRows
    <2>13. QED
        BY <2>6, <2>8, <2>9, <2>10, <2>11, <2>12 DEF IInv, BootRecord
<1>2. IInv /\ [Next]_vars => IInv'
    <2> SUFFICES ASSUME IInv, [Next]_vars PROVE IInv'
        OBVIOUS
    <2>1. BootRecord /\ errors \in Nat /\ ReportsInv /\ FilesInv /\ WorkersAccounted /\ RowsRead
        BY DEF IInv, BootRecord, ReportsInv, FilesInv, WorkersAccounted
    <2>2. CASE MigrateStep
        <3>1. BootRecord' /\ boot'.pc \notin {"listing", "files", "fatal"}
            BY <2>1, <2>2, MigrateStepSteps DEF MigrateStep
        <3>2. UNCHANGED <<reportVars, migrated, errors, rows>>
            BY <2>2 DEF MigrateStep, filesVars
        <3>3. RowsRead' /\ ~WorkersRun'
            BY <2>1, <3>1, <3>2, NoMigration DEF WorkersRun
        <3>4. QED
            BY <2>1, <3>1, <3>2, <3>3, MainSteps
    <2>3. ASSUME NEW reachable \in BOOLEAN, Connect(reachable) PROVE IInv'
        <3>1. BootRecord' /\ boot'.pc = "connected"
            BY <2>1, <2>3, Goes DEF Connect
        <3>2. /\ UNCHANGED <<reports, files, lastReport, lastFile, objects, create, download, lazy,
                             clashed, migrated, errors, rows>>
            BY <2>3 DEF Connect, filesVars
        <3>3. ReportsInv'
            BY <2>1, <3>2, ReportsKept
        <3>4. (migrated \subseteq 1..lastFile)' /\ MigratedFilesStored'
            BY <2>1, <3>2 DEF FilesInv, MigratedFilesStored
        <3>5. WorkersAccounted' /\ RowsRead'
            BY <2>1, <3>1, <3>2, NoMigration DEF WorkersAccounted, WorkersRun
        <3>6. QED
            BY <3>1, <3>3, <3>4, <3>5 DEF IInv, ReportsInv, BootRecord
    <2>4. CASE MigrateFiles
        <3>1. BootRecord' /\ boot'.pc = "listing"
            BY <2>1, <2>4, Goes DEF MigrateFiles
        <3>2. /\ worker' = <<>> /\ errors' = 0 /\ rows' = NoRows
              /\ UNCHANGED <<reportVars, migrated>>
            BY <2>4 DEF MigrateFiles
        <3>3. RowsRead'
            BY <3>1, <3>2, ReportsAssumption DEF RowsRead, NoRows, At
        <3>4. QED
            BY <3>1, <3>2, <3>3, MainSteps
    <2>5. CASE FilesFailed \/ Serve \/ Shutdown
        <3>1. /\ BootRecord' /\ boot'.pc \notin {"listing", "files"}
              /\ boot'.pc = "fatal" => worker' = <<>>
            BY <2>1, <2>5, Goes DEF FilesFailed, Serve, Shutdown
        <3>2. errors' \in Nat /\ rows' \in {rows, NoRows} /\ UNCHANGED <<reportVars, migrated>>
            BY <2>1, <2>5 DEF FilesFailed, Serve, Shutdown, filesVars
        <3>3. RowsRead' /\ (WorkersRun' => worker' = <<>>)
            BY <2>1, <3>1, <3>2, NoMigration DEF WorkersRun
        <3>4. QED
            BY <3>1, <3>2, <3>3, MainSteps
    <2>6. CASE Exit \/ Crash
        BY <2>6, DeathSteps DEF Exit, Crash
    <2>7. CASE UNCHANGED vars
        <3>1. UNCHANGED <<reportVars, migrated, errors, worker, rows, boot>>
            BY <2>7 DEF vars, filesVars, schemaVars
        <3>2. ReportsInv' /\ (migrated \subseteq 1..lastFile)' /\ MigratedFilesStored'
            BY <2>1, <3>1, TablesKept
        <3>3. WorkersAccounted' /\ BootRecord'
            BY <2>1, <3>1 DEF WorkersAccounted, WorkersRun, Stored, NameKey, reportVars, BootRecord
        <3>4. RowsRead'
            BY <2>1, <3>1 DEF RowsRead, At, reportVars
        <3>5. QED
            BY <3>2, <3>3, <3>4 DEF IInv, ReportsInv, BootRecord
    <2>8. QED
        BY <2>2, <2>3, <2>4, <2>5, <2>6, <2>7, WorkerSteps, ReadRowsSteps, FilesMigratedSteps,
           HandleRequestSteps
        DEF Next
<1>3. QED
    BY <1>1, <1>2, PTL DEF SafetySpec

\* A download serves the bytes of the file it names, through failed and late
\* uploads, migrations, deletions and restarts, unless the file shares a key of
\* the object store with another one (GetReportFileByFileID).
THEOREM DownloadsServeTheirOwn == SafetySpec => []ServedIsOwn
<1>1. IInv => ServedIsOwn
    BY DEF IInv
<1>2. QED
    BY <1>1, ProcessInvariant, PTL

\* Once a migration of the files has reported success, the object of every file
\* that still has a row is there, or, when a lost connection has cut the reading of
\* the rows short, of every file whose row it had read (MigrateReportFilesToS3).
THEOREM MigrationStores == SafetySpec => []MigratedFilesStored
<1>1. IInv => MigratedFilesStored
    BY DEF IInv
<1>2. QED
    BY <1>1, ProcessInvariant, PTL

-----------------------------------------------------------------------------
(* The schema.  The steps of the tasks and what they have made.            *)

NTasks == Len(Tasks)
LenOf(k) == Len(Tasks[k].statements)

LEMMA StepForm ==
    /\ NTasks \in Nat
    /\ \A k \in 1..NTasks : LenOf(k) \in Nat \ {0} /\ \A s \in 1..LenOf(k) : <<k, s>> \in Steps
    /\ \A x \in Steps : x[1] \in 1..NTasks /\ x[2] \in 1..LenOf(x[1]) /\ x = <<x[1], x[2]>>
<1>1. NTasks \in Nat /\ \A k \in 1..NTasks : LenOf(k) \in Nat \ {0}
    BY TasksAssumption DEF StepDiscipline, NTasks, LenOf
<1>2. ASSUME NEW k \in 1..NTasks, NEW s \in 1..LenOf(k) PROVE <<k, s>> \in Steps
    <2>1. <<k, s>> \in {k} \X (1..LenOf(k))
        OBVIOUS
    <2>2. QED
        BY <2>1 DEF Steps, NTasks, LenOf
<1>3. ASSUME NEW x \in Steps
      PROVE  x[1] \in 1..NTasks /\ x[2] \in 1..LenOf(x[1]) /\ x = <<x[1], x[2]>>
    <2>1. PICK k \in 1..NTasks : x \in {k} \X (1..LenOf(k))
        BY <1>3 DEF Steps, NTasks, LenOf
    <2>2. QED
        BY <2>1
<1>4. QED
    BY <1>1, <1>2, <1>3

\* Membership in what a task makes and drops, and in what is reached.
LEMMA MakesMember ==
    ASSUME NEW k, NEW o
    PROVE  /\ o \in Makes(k) <=> \E x \in Steps : x[1] = k /\ o \in StepAt(x).makes
           /\ o \in Drops(k) <=> \E x \in Steps : x[1] = k /\ o \in StepAt(x).drops
           /\ o \in Dropped <=> \E x \in Steps : o \in StepAt(x).drops
BY DEF Makes, Drops, Dropped

LEMMA ReachedMember ==
    ASSUME NEW base, NEW k, NEW s, NEW o
    PROVE  o \in Reached(base, k, s) <=>
             /\ o \in base \/ \E x \in Steps : Earlier(x, <<k, s>>) /\ o \in StepAt(x).makes
             /\ \A x \in Steps : Earlier(x, <<k, s>>) => o \notin StepAt(x).drops
BY DEF Reached

LEMMA EarlierMeans ==
    ASSUME NEW x \in Steps, NEW k, NEW s
    PROVE  Earlier(x, <<k, s>>) <=> x[1] < k \/ (x[1] = k /\ x[2] < s)
BY DEF Earlier

\* The two bases: they have the base tables, no task drops anything of them, and a task
\* finds nothing or all that it makes in them.
LEMMA BaseProps ==
    ASSUME NEW base \in Bases
    PROVE  /\ BaseTables \subseteq base /\ base \subseteq InitMakes
           /\ \A x \in Steps : StepAt(x).drops \cap base = {}
           /\ \A k \in 1..NTasks : Makes(k) \cap base = {} \/ (Makes(k) \subseteq base /\ Drops(k) = {})
<1>1. BaseTables \subseteq base /\ base \subseteq InitMakes
    BY TasksAssumption DEF Bases, InitDiscipline
<1>2. \A x \in Steps : StepAt(x).drops \cap base = {}
    BY <1>1, TasksAssumption DEF StepDiscipline
<1>3. ASSUME NEW k \in 1..NTasks
      PROVE  Makes(k) \cap base = {} \/ (Makes(k) \subseteq base /\ Drops(k) = {})
    <2>1. CASE base = InitMakes
        BY <2>1, TasksAssumption DEF ConditionDiscipline, NTasks
    <2>2. CASE base = BaseTables
        <3>1. \A x \in Steps : StepAt(x).makes \cap BaseTables = {}
            BY TasksAssumption DEF StepDiscipline
        <3>2. \A o \in Makes(k) : o \notin BaseTables
            BY <3>1, MakesMember
        <3>3. QED
            BY <2>2, <3>2
    <2>3. QED
        BY <2>1, <2>2 DEF Bases
<1>4. QED
    BY <1>1, <1>2, <1>3

\* The order of the steps: what is before the next one.
LEMMA NextStep ==
    ASSUME NEW k \in 1..NTasks, NEW s \in 1..LenOf(k), NEW y \in Steps
    PROVE  /\ Earlier(y, <<k, s + 1>>) <=> (Earlier(y, <<k, s>>) \/ y = <<k, s>>)
           /\ s = LenOf(k) => (Earlier(y, <<k + 1, 1>>) <=> (Earlier(y, <<k, s>>) \/ y = <<k, s>>))
<1>1. y[1] \in Nat /\ y[2] \in 1..LenOf(y[1]) /\ LenOf(y[1]) \in Nat /\ y = <<y[1], y[2]>>
    BY StepForm
<1>2. k \in Nat /\ s \in Nat /\ s >= 1 /\ LenOf(k) \in Nat
    BY StepForm
<1>3. y = <<k, s>> <=> y[1] = k /\ y[2] = s
    BY <1>1
<1>4. Earlier(y, <<k, s + 1>>) <=> (Earlier(y, <<k, s>>) \/ y = <<k, s>>)
    BY <1>1, <1>2, <1>3, EarlierMeans
<1>5. ASSUME s = LenOf(k)
      PROVE  Earlier(y, <<k + 1, 1>>) <=> (Earlier(y, <<k, s>>) \/ y = <<k, s>>)
    BY <1>1, <1>2, <1>3, <1>5, EarlierMeans
<1>6. QED
    BY <1>4, <1>5

\* A statement that is next in the order finds what it needs and nothing of what it
\* makes, and its effect is the next state reached.
LEMMA StepWorks ==
    ASSUME NEW base \in Bases, NEW k \in 1..NTasks, NEW s \in 1..LenOf(k),
           schema = Reached(base, k, s), Makes(k) \cap base = {}
    PROVE  LET st == StepAt(<<k, s>>) IN
           /\ ~Fails(st)
           /\ After(st) = Reached(base, k, s + 1)
           /\ s = LenOf(k) => After(st) = Reached(base, k + 1, 1)
<1> DEFINE x == <<k, s>>
           st == StepAt(x)
<1>1. x \in Steps /\ x[1] = k
    BY StepForm
<1> HIDE DEF x
<1>2. k \in Nat /\ s \in Nat
    BY StepForm
<1>3. ~Earlier(x, x) /\ \A y \in Steps : Earlier(y, x) => y # x
    BY <1>1, <1>2, EarlierMeans DEF x
<1>4. /\ st.makes \cap BaseTables = {}
      /\ \A o \in st.needs :
            /\ o \in BaseTables \/ \E y \in Steps : Earlier(y, x) /\ o \in StepAt(y).makes
            /\ \A y \in Steps : Earlier(y, x) => o \notin StepAt(y).drops
      /\ \A o \in st.drops :
            o \notin InitMakes /\ \E y \in Steps : Earlier(y, x) /\ o \in StepAt(y).makes
      /\ \A y \in Steps : y # x => /\ st.makes \cap StepAt(y).makes = {}
                                   /\ st.drops \cap StepAt(y).drops = {}
    BY <1>1, TasksAssumption DEF StepDiscipline
<1>5. \A o : o \in schema <=>
         /\ o \in base \/ \E y \in Steps : Earlier(y, x) /\ o \in StepAt(y).makes
         /\ \A y \in Steps : Earlier(y, x) => o \notin StepAt(y).drops
    BY ReachedMember DEF x
<1> HIDE DEF st
<1>6. st.needs \subseteq schema
    BY <1>4, <1>5, BaseProps
<1>7. st.drops \subseteq schema
    BY <1>3, <1>4, <1>5
<1>8. st.makes \cap schema = {}
    <2>1. ASSUME NEW o \in st.makes PROVE o \notin schema
        <3>1. o \in Makes(k)
            BY <1>1, <2>1, MakesMember DEF st
        <3>2. o \notin base
            BY <3>1
        <3>3. \A y \in Steps : Earlier(y, x) => o \notin StepAt(y).makes
            BY <1>3, <1>4, <2>1
        <3>4. QED
            BY <1>5, <3>2, <3>3
    <2>2. QED
        BY <2>1
<1>9. ~Fails(st)
    BY <1>6, <1>7, <1>8 DEF Fails
<1>10. After(st) = (schema \ st.drops) \cup st.makes
    BY <1>8 DEF After
\* What is made now was not dropped before, nor is it by this statement.
<1>11. \A o \in st.makes : o \notin st.drops /\ \A y \in Steps : Earlier(y, x) => o \notin StepAt(y).drops
    <2>1. SUFFICES ASSUME NEW o \in st.makes, NEW y \in Steps, Earlier(y, x) \/ y = x, o \in StepAt(y).drops
                   PROVE  FALSE
        BY <1>1 DEF st
    <2>2. PICK z \in Steps : Earlier(z, y) /\ o \in StepAt(z).makes
        BY <2>1, TasksAssumption DEF StepDiscipline
    <2>3. z = x
        BY <1>4, <2>1, <2>2
    <2>4. Earlier(x, y) /\ (Earlier(y, x) \/ y = x)
        BY <2>1, <2>2, <2>3
    <2>5. y[1] \in Nat /\ y[2] \in Nat /\ x[1] = k /\ x[2] = s
        BY <1>1, StepForm DEF x
    <2>6. QED
        BY <1>2, <2>4, <2>5 DEF Earlier
<1>12. ASSUME NEW k2, NEW s2,
              \A y \in Steps : Earlier(y, <<k2, s2>>) <=> (Earlier(y, x) \/ y = x)
       PROVE  After(st) = Reached(base, k2, s2)
    <2>1. ASSUME NEW o PROVE o \in After(st) <=> o \in Reached(base, k2, s2)
        <3>1. o \in Reached(base, k2, s2) <=>
                /\ \/ o \in base \/ o \in st.makes
                   \/ \E y \in Steps : Earlier(y, x) /\ o \in StepAt(y).makes
                /\ o \notin st.drops
                /\ \A y \in Steps : Earlier(y, x) => o \notin StepAt(y).drops
            BY <1>1, <1>12, ReachedMember DEF st
        <3>2. o \in After(st) <=> (o \in schema /\ o \notin st.drops) \/ o \in st.makes
            BY <1>10
        <3>3. QED
            BY <1>5, <1>11, <3>1, <3>2
    <2>2. QED
        BY <2>1
<1>13. \A y \in Steps : Earlier(y, <<k, s + 1>>) <=> (Earlier(y, x) \/ y = x)
    BY NextStep DEF x
<1>14. ASSUME s = LenOf(k)
       PROVE  \A y \in Steps : Earlier(y, <<k + 1, 1>>) <=> (Earlier(y, x) \/ y = x)
    BY <1>14, NextStep DEF x
<1>15. QED
    <2>1. After(st) = Reached(base, k, s + 1)
        BY <1>12, <1>13
    <2>2. s = LenOf(k) => After(st) = Reached(base, k + 1, 1)
        BY <1>12, <1>14
    <2>3. QED
        BY <1>9, <2>1, <2>2 DEF st, x

\* With the tasks before p done: one of them does not run again ...
LEMMA DoneDoNotRun ==
    ASSUME NEW base \in Bases, NEW p \in 1..(NTasks + 1), schema = Reached(base, p, 1),
           NEW k \in 1..NTasks, k < p
    PROVE  ~ShouldRun(k)
<1>1. k # 0 /\ \A x \in Steps : x[1] = k => Earlier(x, <<p, 1>>)
    BY EarlierMeans
<1>2. ASSUME NEW c \in Tasks[k].conditions PROVE ~Evaluate(c)
    <2>1. IF c.exists THEN c.object \in Drops(k) /\ Makes(k) = {} ELSE c.object \in Makes(k) \ Dropped
        BY TasksAssumption DEF ConditionDiscipline, NTasks
    <2>2. CASE c.exists
        <3>1. PICK x \in Steps : x[1] = k /\ c.object \in StepAt(x).drops
            BY <2>1, <2>2, MakesMember
        <3>2. c.object \notin schema
            BY <1>1, <3>1, ReachedMember
        <3>3. QED
            BY <2>2, <3>2 DEF Evaluate
    <2>3. CASE ~c.exists
        <3>1. PICK x \in Steps : x[1] = k /\ c.object \in StepAt(x).makes
            BY <2>1, <2>3, MakesMember
        <3>2. \A y \in Steps : c.object \notin StepAt(y).drops
            BY <2>1, <2>3, MakesMember
        <3>3. c.object \in schema
            BY <1>1, <3>1, <3>2, ReachedMember
        <3>4. QED
            BY <2>3, <3>3 DEF Evaluate
    <2>4. QED
        BY <2>2, <2>3
<1>3. QED
    BY <1>1, <1>2 DEF ShouldRun

\* ... and one that runs finds nothing of what it makes in the base.
LEMMA RunningIsNew ==
    ASSUME NEW base \in Bases, NEW p \in 1..(NTasks + 1), schema = Reached(base, p, 1),
           NEW k \in 1..NTasks, ShouldRun(k)
    PROVE  Makes(k) \cap base = {}
<1>1. SUFFICES ASSUME Makes(k) \subseteq base, Drops(k) = {} PROVE FALSE
    BY BaseProps
<1>2. k # 0
    OBVIOUS
<1>3. PICK c \in Tasks[k].conditions : Evaluate(c)
    BY <1>2 DEF ShouldRun
<1>4. ~c.exists /\ c.object \in Makes(k) \ Dropped
    BY <1>1, TasksAssumption DEF ConditionDiscipline, NTasks
<1>5. c.object \in schema
    BY <1>1, <1>4, MakesMember, ReachedMember
<1>6. QED
    BY <1>3, <1>4, <1>5 DEF Evaluate

\* A task that is neither done nor runs has nothing to do: it is one that init.sql stands for.
LEMMA SkippedIsIdle ==
    ASSUME NEW base \in Bases, NEW p \in 1..(NTasks + 1), schema = Reached(base, p, 1),
           NEW e \in 1..(NTasks + 1), \A j \in p..(e - 1) : ~ShouldRun(j),
           NEW k \in p..(e - 1)
    PROVE  Makes(k) \subseteq base /\ Drops(k) = {}
<1>1. NTasks \in Nat
    BY StepForm
<1>2. p..(e - 1) \subseteq 1..NTasks /\ 0 \notin p..(e - 1) /\ p \in Nat /\ e \in Nat
    BY <1>1
\* One that makes something.
<1>3. ASSUME NEW j \in p..(e - 1), Makes(j) # {} PROVE Makes(j) \subseteq base /\ Drops(j) = {}
    <2>1. j \in 1..NTasks /\ j # 0 /\ j \in Nat
        BY <1>2
    <2>2. PICK c \in Tasks[j].conditions : c \in Tasks[j].conditions
        BY <2>1, TasksAssumption DEF ConditionDiscipline, NTasks
    <2>3. ~c.exists /\ c.object \in Makes(j) \ Dropped
        BY <1>3, <2>1, <2>2, TasksAssumption DEF ConditionDiscipline, NTasks
    <2>4. c.object \in schema
        BY <1>3, <2>1, <2>2, <2>3 DEF ShouldRun, Evaluate
    <2>5. PICK x \in Steps : x[1] = j /\ c.object \in StepAt(x).makes
        BY <2>3, MakesMember
    <2>6. c.object \in base
        <3>1. SUFFICES ASSUME c.object \notin base PROVE FALSE
            OBVIOUS
        <3>2. PICK y \in Steps : Earlier(y, <<p, 1>>) /\ c.object \in StepAt(y).makes
            BY <2>4, <3>1, ReachedMember
        <3>3. y = x
            BY <2>5, <3>2, TasksAssumption DEF StepDiscipline
        <3>4. y[2] \in Nat /\ y[2] >= 1
            BY StepForm
        <3>5. QED
            BY <1>2, <2>5, <3>2, <3>3, <3>4, EarlierMeans
    <2>7. QED
        BY <2>1, <2>3, <2>6, BaseProps
<1>4. CASE Makes(k) # {}
    BY <1>3, <1>4
\* One that only drops: what it drops is there.
<1>5. CASE Makes(k) = {}
    <2>1. k \in 1..NTasks /\ k # 0 /\ k \in Nat
        BY <1>2
    <2>2. PICK c \in Tasks[k].conditions : c \in Tasks[k].conditions
        BY <2>1, TasksAssumption DEF ConditionDiscipline, NTasks
    <2>3. c.exists /\ c.object \in Drops(k)
        BY <1>5, <2>1, <2>2, TasksAssumption DEF ConditionDiscipline, NTasks
    <2>4. c.object \notin schema
        BY <2>1, <2>2, <2>3 DEF ShouldRun, Evaluate
    <2>5. PICK x \in Steps : x[1] = k /\ c.object \in StepAt(x).drops
        BY <2>3, MakesMember
    <2>6. PICK y \in Steps : Earlier(y, x) /\ c.object \in StepAt(y).makes
        BY <2>5, TasksAssumption DEF StepDiscipline
    <2>7. c.object \notin InitMakes /\ c.object \notin base
        BY <2>5, TasksAssumption, BaseProps DEF StepDiscipline
    <2>8. y[1] \in Nat /\ y[1] <= k
        BY <2>1, <2>5, <2>6, StepForm DEF Earlier
    <2>9. CASE y[1] < p
        <3>1. Earlier(y, <<p, 1>>)
            BY <2>9, EarlierMeans
        <3>2. \A z \in Steps : Earlier(z, <<p, 1>>) => c.object \notin StepAt(z).drops
            <4>1. SUFFICES ASSUME NEW z \in Steps, Earlier(z, <<p, 1>>), c.object \in StepAt(z).drops
                           PROVE  FALSE
                OBVIOUS
            <4>2. z = x
                BY <2>5, <4>1, TasksAssumption DEF StepDiscipline
            <4>3. z[2] \in Nat /\ z[2] >= 1
                BY StepForm
            <4>4. QED
                BY <1>2, <2>1, <2>5, <4>1, <4>2, <4>3, EarlierMeans
        <3>3. QED
            BY <2>4, <2>6, <3>1, <3>2, ReachedMember
    <2>10. CASE ~(y[1] < p)
        <3>1. y[1] \in p..(e - 1) /\ c.object \in Makes(y[1])
            BY <1>2, <2>6, <2>8, <2>10, MakesMember
        <3>2. Makes(y[1]) \subseteq base
            BY <1>3, <3>1
        <3>3. QED
            BY <2>7, <3>1, <3>2
    <2>11. QED
        BY <2>9, <2>10
<1>6. QED
    BY <1>4, <1>5

LEMMA SkippedChangeNothing ==
    ASSUME NEW base \in Bases, NEW p \in 1..(NTasks + 1), schema = Reached(base, p, 1),
           NEW e \in p..(NTasks + 1), \A j \in p..(e - 1) : ~ShouldRun(j)
    PROVE  schema = Reached(base, e, 1)
<1>1. NTasks \in Nat /\ p \in Nat /\ e \in Nat /\ e \in 1..(NTasks + 1) /\ p <= e
    BY StepForm
<1>2. \A k \in p..(e - 1) : Makes(k) \subseteq base /\ Drops(k) = {}
    BY <1>1, SkippedIsIdle
<1>3. ASSUME NEW x \in Steps
      PROVE  /\ Earlier(x, <<p, 1>>) => Earlier(x, <<e, 1>>)
             /\ Earlier(x, <<e, 1>>) /\ ~Earlier(x, <<p, 1>>) =>
                  StepAt(x).makes \subseteq base /\ StepAt(x).drops = {}
    <2>1. x[1] \in Nat /\ x[2] \in Nat /\ x[2] >= 1
        BY StepForm
    <2>2. Earlier(x, <<p, 1>>) <=> x[1] < p
        BY <1>1, <2>1, EarlierMeans
    <2>3. Earlier(x, <<e, 1>>) <=> x[1] < e
        BY <1>1, <2>1, EarlierMeans
    <2>4. ASSUME x[1] < e, ~(x[1] < p) PROVE StepAt(x).makes \subseteq base /\ StepAt(x).drops = {}
        <3>1. x[1] \in p..(e - 1)
            BY <1>1, <2>1, <2>4
        <3>2. Makes(x[1]) \subseteq base /\ Drops(x[1]) = {}
            BY <1>2, <3>1
        <3>3. \A o : (o \in StepAt(x).makes => o \in base) /\ o \notin StepAt(x).drops
            BY <3>2, MakesMember
        <3>4. QED
            BY <3>3
    <2>5. QED
        BY <1>1, <2>1, <2>2, <2>3, <2>4
<1>4. ASSUME NEW o PROVE o \in schema <=> o \in Reached(base, e, 1)
    <2>1. o \in schema <=>
             /\ o \in base \/ \E x \in Steps : Earlier(x, <<p, 1>>) /\ o \in StepAt(x).makes
             /\ \A x \in Steps : Earlier(x, <<p, 1>>) => o \notin StepAt(x).drops
        BY ReachedMember
    <2>2. o \in Reached(base, e, 1) <=>
             /\ o \in base \/ \E x \in Steps : Earlier(x, <<e, 1>>) /\ o \in StepAt(x).makes
             /\ \A x \in Steps : Earlier(x, <<e, 1>>) => o \notin StepAt(x).drops
        BY ReachedMember
    <2>3. QED
        BY <1>3, <2>1, <2>2
<1>5. QED
    BY <1>4

\* Before the first task there is the base alone; while tasks run the base tables are there.
LEMMA ReachedBase ==
    ASSUME NEW base \in Bases
    PROVE  /\ Reached(base, 1, 1) = base
           /\ \A k, s : BaseTables \subseteq Reached(base, k, s)
<1>1. \A x \in Steps : ~Earlier(x, <<1, 1>>)
    <2>1. SUFFICES ASSUME NEW x \in Steps PROVE ~Earlier(x, <<1, 1>>)
        OBVIOUS
    <2>2. x[1] \in Nat /\ x[1] >= 1 /\ x[2] \in Nat /\ x[2] >= 1
        BY StepForm
    <2>3. QED
        BY <2>2, EarlierMeans
<1>2. \A o : o \in Reached(base, 1, 1) <=> o \in base
    BY <1>1, ReachedMember
<1>3. \A k, s : \A o \in BaseTables : o \in Reached(base, k, s)
    BY BaseProps, ReachedMember
<1>4. QED
    BY <1>2, <1>3

\* Every task done is the target, from whichever base.
LEMMA AllDoneIsTarget ==
    ASSUME NEW base \in Bases
    PROVE  Reached(base, NTasks + 1, 1) = Target
<1>1. NTasks \in Nat
    BY StepForm
<1>2. \A x \in Steps : Earlier(x, <<NTasks + 1, 1>>)
    <2>1. SUFFICES ASSUME NEW x \in Steps PROVE Earlier(x, <<NTasks + 1, 1>>)
        OBVIOUS
    <2>2. x[1] \in 1..NTasks
        BY StepForm
    <2>3. QED
        BY <1>1, <2>2, EarlierMeans
<1>3. ASSUME NEW o
      PROVE  o \in Target <=> /\ o \in InitMakes \/ \E x \in Steps : o \in StepAt(x).makes
                              /\ \A x \in Steps : o \notin StepAt(x).drops
    BY MakesMember DEF Target
<1>4. ASSUME NEW o PROVE o \in Reached(base, NTasks + 1, 1) <=> o \in Target
    <2>1. o \in base => o \in InitMakes
        BY BaseProps
    <2>2. o \in InitMakes => o \in base \/ \E x \in Steps : o \in StepAt(x).makes
        BY BaseProps, TasksAssumption DEF InitDiscipline
    <2>3. QED
        BY <1>2, <1>3, <2>1, <2>2, ReachedMember
<1>5. QED
    BY <1>4

\* init.sql: while it is not done a base table is missing, and each of its statements is
\* without effect or the next one.
LEMMA InitMissing ==
    ASSUME NEW m \in 0..(Len(InitSQL) - 1), InitDone(m)
    PROVE  ~(BaseTables \subseteq schema)
<1> DEFINE L == Len(InitSQL)
<1>1. L \in Nat /\ L >= 1 /\ L \in 1..L /\ \A j \in 1..m : j \in 1..L /\ j # L
    BY TasksAssumption DEF InitDiscipline
<1>2. PICK o \in BaseTables : o \in InitSQL[L].makes
    BY <1>1, TasksAssumption DEF InitDiscipline
<1>3. \A j \in 1..m : o \notin InitSQL[j].makes
    BY <1>1, <1>2, TasksAssumption DEF InitDiscipline
<1>4. QED
    BY <1>2, <1>3 DEF InitDone

LEMMA InitStep ==
    ASSUME NEW m \in 0..(Len(InitSQL) - 1), InitDone(m), NEW s \in 1..(m + 1)
    PROVE  LET st == InitSQL[s] IN
           /\ ~Fails(st)
           /\ s <= m => After(st) = schema
           /\ s = m + 1 => After(st) = UNION {InitSQL[j].makes : j \in 1..(m + 1)}
<1> DEFINE st == InitSQL[s]
<1>1. Len(InitSQL) \in Nat /\ s \in 1..Len(InitSQL) /\ m \in Nat
    BY TasksAssumption DEF InitDiscipline
<1>2. /\ st.guarded /\ st.needs = {} /\ st.drops = {} /\ st.makes # {}
      /\ \A j \in 1..Len(InitSQL) : j # s => st.makes \cap InitSQL[j].makes = {}
    BY <1>1, TasksAssumption DEF InitDiscipline
<1>3. ~Fails(st)
    BY <1>2 DEF Fails
<1>4. ASSUME s <= m PROVE After(st) = schema
    <2>1. s \in 1..m
        BY <1>1, <1>4
    <2>2. st.makes \subseteq schema
        BY <2>1 DEF InitDone
    <2>3. st.makes \cap schema # {}
        BY <1>2, <2>2
    <2>4. QED
        BY <1>2, <2>3 DEF After
<1>5. ASSUME s = m + 1 PROVE After(st) = UNION {InitSQL[j].makes : j \in 1..(m + 1)}
    <2>1. \A j \in 1..m : j \in 1..Len(InitSQL) /\ j # s
        BY <1>1, <1>5
    <2>2. st.makes \cap schema = {}
        BY <1>2, <2>1 DEF InitDone
    <2>3. After(st) = schema \cup st.makes
        BY <1>2, <2>2 DEF After
    <2>4. \A j : j \in 1..(m + 1) <=> j \in 1..m \/ j = s
        BY <1>1, <1>5
    <2>5. \A o : o \in After(st) <=> \E j \in 1..(m + 1) : o \in InitSQL[j].makes
        BY <2>3, <2>4 DEF InitDone
    <2>6. QED
        BY <2>5
<1>6. QED
    BY <1>3, <1>4, <1>5

-----------------------------------------------------------------------------
(* The steps of Migrate.                                                   *)

LEMMA BootFields ==
    /\ \A p, t, s : LET b == MkBoot(p, t, s) IN b.pc = p /\ b.task = t /\ b.stmt = s
    /\ Down.pc = "down" /\ Down.task = 0 /\ Down.stmt = 1
BY DEF Down, MkBoot

LEMMA BootTypes ==
    ASSUME SchemaTypeOK
    PROVE  /\ boot = MkBoot(boot.pc, boot.task, boot.stmt)
           /\ boot.task \in Nat /\ boot.task <= NTasks + 1 /\ NTasks \in Nat
           /\ boot.stmt \in Nat /\ boot.stmt >= 1
           /\ boot.pc = "exec" => boot.task <= NTasks /\ boot.stmt <= Len(StatementsOf(boot.task))
           /\ boot.pc = "down" => boot = Down
<1>1. NTasks \in Nat
    BY StepForm
<1>2. QED
    BY <1>1 DEF SchemaTypeOK, NTasks

\* The type of a state of Migrate outside its statements.
LEMMA MkBootTyped ==
    ASSUME NEW p, p \notin {"exec", "down"}, NEW t \in 0..(NTasks + 1), NEW s \in Nat \ {0},
           boot' = MkBoot(p, t, s)
    PROVE  SchemaTypeOK'
<1>1. boot'.pc = p /\ boot'.task = t /\ boot'.stmt = s
    BY BootFields
<1>2. QED
    BY <1>1 DEF SchemaTypeOK, NTasks

\* A step back to the beginning, from a state in which the tasks before k are done or
\* init.sql is done in part.
LEMMA BackToDown ==
    ASSUME boot' = Down, schema' = schema,
           torn' = {} => \/ \E k \in 1..(NTasks + 1) : DoneBefore(k)
                         \/ \E m \in 0..(Len(InitSQL) - 1) : InitDone(m)
    PROVE  SchemaIInv'
<1>1. boot'.pc = "down" /\ boot'.task = 0
    BY BootFields
<1>2. SchemaTypeOK'
    BY BootFields, StepForm DEF SchemaTypeOK, NTasks, Down
<1>3. ASSUME torn' = {} PROVE Untorn'
    <2>1. ChecksGoOn'
        <3>1. \/ \E k \in 1..(NTasks + 1) : DoneBefore(k)'
              \/ \E m \in 0..(Len(InitSQL) - 1) : InitDone(m)'
            BY <1>3 DEF DoneBefore, InitDone
        <3>2. \A k \in 1..(NTasks + 1) : boot'.task <= k
            BY <1>1, StepForm
        <3>3. QED
            BY <1>1, <3>1, <3>2 DEF ChecksGoOn, NTasks
    <2>2. QED
        BY <1>1, <2>1 DEF Untorn, InitGoesOn, TaskGoesOn
<1>4. QED
    BY <1>2, <1>3 DEF SchemaIInv

LEMMA StartSteps ==
    ASSUME SchemaIInv, Start
    PROVE  SchemaIInv'
<1>1. /\ boot.pc = "down" /\ boot' = MkBoot("check", 0, 1) /\ schema' = schema /\ torn' = torn
      /\ SchemaTypeOK /\ (torn = {} => Untorn)
    BY DEF Start, SchemaIInv
<1>2. boot.task = 0
    BY <1>1, BootTypes, BootFields
<1>3. boot'.pc = "check" /\ boot'.task = 0 /\ SchemaTypeOK'
    <2>1. 0 \in 0..(NTasks + 1) /\ 1 \in Nat \ {0}
        BY StepForm
    <2>2. QED
        BY <1>1, <2>1, MkBootTyped, BootFields
<1>4. ASSUME torn' = {} PROVE Untorn'
    <2>1. ChecksGoOn'
        BY <1>1, <1>2, <1>3, <1>4 DEF Untorn, ChecksGoOn, DoneBefore, InitDone
    <2>2. QED
        BY <1>3, <2>1 DEF Untorn, InitGoesOn, TaskGoesOn
<1>5. QED
    BY <1>3, <1>4 DEF SchemaIInv

\* The check of the tasks, when no task is torn: the next one that runs is the next
\* that is to be done.
LEMMA NextNeeded ==
    ASSUME SchemaTypeOK, Untorn, boot.pc = "check", NEW k \in boot.task..NTasks, ShouldRun(k),
           \A j \in boot.task..NTasks : ShouldRun(j) => k <= j
    PROVE  IF k = 0 THEN \E m \in 0..(Len(InitSQL) - 1) : InitDone(m)
           ELSE \E base \in Bases : schema = Reached(base, k, 1) /\ Makes(k) \cap base = {}
<1>1. boot.task \in Nat /\ NTasks \in Nat /\ k \in Nat /\ boot.task <= k /\ k <= NTasks
    BY BootTypes
<1>2. CASE \E p \in 1..(NTasks + 1) : boot.task <= p /\ DoneBefore(p)
    <2>1. PICK p \in 1..(NTasks + 1) : boot.task <= p /\ DoneBefore(p)
        BY <1>2
    <2>2. PICK base \in Bases : schema = Reached(base, p, 1)
        BY <2>1 DEF DoneBefore
    <2>3. k # 0 /\ k \in 1..NTasks
        BY <1>1, <2>2, ReachedBase DEF ShouldRun
    <2>4. ~(k < p)
        BY <2>2, <2>3, DoneDoNotRun
    <2>5. k \in p..(NTasks + 1) /\ p \in Nat
        BY <1>1, <2>4
    <2>6. \A j \in p..(k - 1) : ~ShouldRun(j)
        BY <1>1, <2>1, <2>5
    <2>7. schema = Reached(base, k, 1)
        BY <2>2, <2>5, <2>6, SkippedChangeNothing
    <2>8. Makes(k) \cap base = {}
        BY <2>2, <2>3, RunningIsNew
    <2>9. QED
        BY <2>3, <2>7, <2>8
<1>3. CASE boot.task = 0 /\ \E m \in 0..(Len(InitSQL) - 1) : InitDone(m)
    <2>1. ShouldRun(0)
        BY <1>3, InitMissing DEF ShouldRun
    <2>2. k = 0
        BY <1>1, <1>3, <2>1
    <2>3. QED
        BY <1>3, <2>2
<1>4. QED
    BY <1>2, <1>3 DEF Untorn, ChecksGoOn, NTasks

LEMMA NoneNeeded ==
    ASSUME SchemaTypeOK, Untorn, boot.pc = "check", \A j \in boot.task..NTasks : ~ShouldRun(j)
    PROVE  DoneBefore(NTasks + 1)
<1>1. boot.task \in Nat /\ NTasks \in Nat /\ boot.task <= NTasks + 1
    BY BootTypes
<1>2. CASE \E p \in 1..(NTasks + 1) : boot.task <= p /\ DoneBefore(p)
    <2>1. PICK p \in 1..(NTasks + 1) : boot.task <= p /\ DoneBefore(p)
        BY <1>2
    <2>2. PICK base \in Bases : schema = Reached(base, p, 1)
        BY <2>1 DEF DoneBefore
    <2>3. NTasks + 1 \in p..(NTasks + 1) /\ \A j \in p..((NTasks + 1) - 1) : j \in boot.task..NTasks
        BY <1>1, <2>1
    <2>4. schema = Reached(base, NTasks + 1, 1)
        BY <2>2, <2>3, SkippedChangeNothing
    <2>5. QED
        BY <2>4 DEF DoneBefore
<1>3. CASE boot.task = 0 /\ \E m \in 0..(Len(InitSQL) - 1) : InitDone(m)
    <2>1. ShouldRun(0) /\ 0 \in boot.task..NTasks
        BY <1>1, <1>3, InitMissing DEF ShouldRun
    <2>2. QED
        BY <2>1
<1>4. QED
    BY <1>2, <1>3 DEF Untorn, ChecksGoOn, NTasks

LEMMA CheckTaskSteps ==
    ASSUME SchemaIInv, CheckTask
    PROVE  SchemaIInv'
<1> DEFINE needed == {k \in boot.task..NTasks : ShouldRun(k)}
<1>1. /\ boot.pc = "check" /\ schema' = schema /\ torn' = torn
      /\ SchemaTypeOK /\ (torn = {} => Untorn)
    BY DEF CheckTask, SchemaIInv
<1>2. \/ needed = {} /\ boot' = MkBoot("migrated", 0, 1)
      \/ \E k \in needed : (\A j \in needed : k <= j) /\ boot' = MkBoot("exec", k, 1)
    BY DEF CheckTask, NTasks
<1>3. CASE needed = {} /\ boot' = MkBoot("migrated", 0, 1)
    <2>1. boot'.pc = "migrated" /\ SchemaTypeOK'
        <3>1. 0 \in 0..(NTasks + 1) /\ 1 \in Nat \ {0}
            BY StepForm
        <3>2. QED
            BY <1>3, <3>1, MkBootTyped, BootFields
    <2>2. ASSUME torn' = {} PROVE Untorn'
        <3>1. DoneBefore(NTasks + 1)
            BY <1>1, <1>3, <2>2, NoneNeeded
        <3>2. DoneBefore(Len(Tasks) + 1)'
            BY <1>1, <3>1 DEF DoneBefore, NTasks
        <3>3. QED
            BY <2>1, <3>2 DEF Untorn, InitGoesOn, TaskGoesOn, ChecksGoOn
    <2>3. QED
        BY <2>1, <2>2 DEF SchemaIInv
<1>4. ASSUME NEW k \in needed, \A j \in needed : k <= j, boot' = MkBoot("exec", k, 1)
      PROVE  SchemaIInv'
    <2>1. k \in boot.task..NTasks /\ ShouldRun(k) /\ \A j \in boot.task..NTasks : ShouldRun(j) => k <= j
        BY <1>4
    <2>2. k \in 0..(NTasks + 1) /\ k <= NTasks /\ k \in Nat /\ NTasks \in Nat
        BY <1>1, <2>1, BootTypes
    <2>3. boot'.pc = "exec" /\ boot'.task = k /\ boot'.stmt = 1
        BY <1>4, BootFields
    <2>4. SchemaTypeOK'
        <3>1. 1 <= Len(StatementsOf(k))
            <4>1. CASE k = 0
                BY <4>1, TasksAssumption DEF StatementsOf, InitDiscipline
            <4>2. CASE k # 0
                BY <2>2, <4>2, StepForm DEF StatementsOf, LenOf
            <4>3. QED
                BY <4>1, <4>2
        <3>2. QED
            BY <1>4, <2>2, <2>3, <3>1 DEF SchemaTypeOK, NTasks
    <2>5. ASSUME torn' = {} PROVE Untorn'
        <3>1. IF k = 0 THEN \E m \in 0..(Len(InitSQL) - 1) : InitDone(m)
              ELSE \E base \in Bases : schema = Reached(base, k, 1) /\ Makes(k) \cap base = {}
            BY <1>1, <2>1, <2>5, NextNeeded
        <3>2. CASE k = 0
            <4>1. \A m \in 0..(Len(InitSQL) - 1) : 1 <= m + 1
                BY TasksAssumption DEF InitDiscipline
            <4>2. InitGoesOn'
                BY <1>1, <2>3, <3>1, <3>2, <4>1 DEF InitGoesOn, InitDone
            <4>3. QED
                BY <2>3, <3>2, <4>2 DEF Untorn, TaskGoesOn, ChecksGoOn
        <3>3. CASE k # 0
            <4>1. TaskGoesOn'
                BY <1>1, <2>3, <3>1, <3>3 DEF TaskGoesOn
            <4>2. QED
                BY <2>3, <3>3, <4>1 DEF Untorn, InitGoesOn, ChecksGoOn
        <3>4. QED
            BY <3>2, <3>3
    <2>6. QED
        BY <2>4, <2>5 DEF SchemaIInv
<1>5. QED
    BY <1>2, <1>3, <1>4

\* What a statement of init.sql leaves behind.
LEMMA InitStatementSteps ==
    ASSUME SchemaTypeOK, Untorn, boot.pc = "exec", boot.task = 0
    PROVE  LET st == InitSQL[boot.stmt] IN
           /\ ~Fails(st)
           /\ schema' = After(st) /\ boot.stmt < Len(InitSQL) =>
                \E m \in 0..(Len(InitSQL) - 1) : boot.stmt + 1 <= m + 1 /\ InitDone(m)'
           /\ schema' = After(st) /\ ~(boot.stmt < Len(InitSQL)) => DoneBefore(1)'
<1> DEFINE L == Len(InitSQL)
           s == boot.stmt
<1>1. L \in Nat /\ L >= 1 /\ s \in Nat /\ s >= 1 /\ s <= L
    BY BootTypes, TasksAssumption DEF InitDiscipline, StatementsOf
<1>2. PICK m \in 0..(L - 1) : s <= m + 1 /\ InitDone(m)
    BY DEF Untorn, InitGoesOn
<1>3. m \in Nat /\ m <= L - 1 /\ s \in 1..(m + 1)
    BY <1>1, <1>2
<1>4. /\ ~Fails(InitSQL[s])
      /\ s <= m => After(InitSQL[s]) = schema
      /\ s = m + 1 => After(InitSQL[s]) = UNION {InitSQL[j].makes : j \in 1..(m + 1)}
    BY <1>2, <1>3, InitStep
<1>5. ASSUME schema' = After(InitSQL[s]), s < L
      PROVE  \E i \in 0..(L - 1) : s + 1 <= i + 1 /\ InitDone(i)'
    <2>1. CASE s <= m
        <3>1. InitDone(m)'
            BY <1>2, <1>4, <1>5, <2>1 DEF InitDone
        <3>2. QED
            BY <1>1, <1>3, <2>1, <3>1
    <2>2. CASE s = m + 1
        <3>1. InitDone(m + 1)' /\ m + 1 \in 0..(L - 1)
            BY <1>1, <1>3, <1>4, <1>5, <2>2 DEF InitDone
        <3>2. QED
            BY <1>1, <1>3, <2>2, <3>1
    <2>3. QED
        BY <1>1, <1>3, <2>1, <2>2
<1>6. ASSUME schema' = After(InitSQL[s]), ~(s < L) PROVE DoneBefore(1)'
    <2>1. s = m + 1 /\ m + 1 = L
        BY <1>1, <1>3, <1>6
    <2>2. schema' = InitMakes
        BY <1>4, <1>6, <2>1 DEF InitMakes
    <2>3. schema' = Reached(InitMakes, 1, 1) /\ InitMakes \in Bases
        BY <2>2, ReachedBase DEF Bases
    <2>4. QED
        BY <2>3 DEF DoneBefore
<1>7. QED
    BY <1>4, <1>5, <1>6

\* What a statement of a task leaves behind.
LEMMA TaskStatementSteps ==
    ASSUME SchemaTypeOK, Untorn, boot.pc = "exec", boot.task # 0
    PROVE  LET k == boot.task
               s == boot.stmt
               st == Tasks[k].statements[s]
           IN  /\ k \in 1..NTasks /\ s \in 1..LenOf(k)
               /\ ~Fails(st)
               /\ schema' = After(st) =>
                    \E base \in Bases :
                        /\ Makes(k) \cap base = {} /\ schema' = Reached(base, k, s + 1)
                        /\ s = LenOf(k) => schema' = Reached(base, k + 1, 1)
<1> DEFINE k == boot.task
           s == boot.stmt
<1>1. k \in 1..NTasks /\ LenOf(k) \in Nat /\ s \in 1..LenOf(k)
    <2>1. k \in 1..NTasks
        BY BootTypes
    <2>2. QED
        BY <2>1, BootTypes, StepForm DEF StatementsOf, LenOf
<1>2. PICK base \in Bases : schema = Reached(base, k, s) /\ Makes(k) \cap base = {}
    <2>1. boot.task > 0
        BY <1>1
    <2>2. QED
        BY <2>1 DEF Untorn, TaskGoesOn
<1>3. Tasks[k].statements[s] = StepAt(<<k, s>>)
    BY DEF StepAt
<1> HIDE DEF k, s
<1>4. LET st == StepAt(<<k, s>>) IN
      /\ ~Fails(st)
      /\ After(st) = Reached(base, k, s + 1)
      /\ s = LenOf(k) => After(st) = Reached(base, k + 1, 1)
    BY <1>1, <1>2, StepWorks
<1>5. QED
    BY <1>1, <1>2, <1>3, <1>4 DEF k, s

LEMMA ExecStatementSteps ==
    ASSUME SchemaIInv, ExecStatement
    PROVE  SchemaIInv'
<1> DEFINE k == boot.task
           s == boot.stmt
           L == Len(StatementsOf(k))
           st == StatementsOf(k)[s]
<1>1. /\ boot.pc = "exec" /\ schema' = After(st) /\ torn' = torn
      /\ boot' = IF s < L THEN [boot EXCEPT !.stmt = @ + 1] ELSE MkBoot("check", k + 1, 1)
      /\ SchemaTypeOK /\ (torn = {} => Untorn)
    BY DEF ExecStatement, SchemaIInv
<1>2. /\ k \in Nat /\ k <= NTasks /\ NTasks \in Nat
      /\ s \in Nat /\ s >= 1 /\ s <= L /\ L \in Nat /\ boot = MkBoot("exec", k, s)
    <2>1. L \in Nat
        <3>1. CASE k = 0
            BY <3>1, TasksAssumption DEF StatementsOf, InitDiscipline
        <3>2. CASE k # 0
            BY <1>1, <3>2, BootTypes, StepForm DEF StatementsOf, LenOf
        <3>3. QED
            BY <3>1, <3>2
    <2>2. QED
        BY <1>1, <2>1, BootTypes
<1> HIDE DEF k, s, L, st
<1>3. CASE s < L
    <2>1. boot' = MkBoot("exec", k, s + 1)
        BY <1>1, <1>2, <1>3 DEF MkBoot
    <2>2. boot'.pc = "exec" /\ boot'.task = k /\ boot'.stmt = s + 1
        BY <2>1, BootFields
    <2>3. SchemaTypeOK'
        BY <1>2, <1>3, <2>1, <2>2 DEF SchemaTypeOK, L, NTasks
    <2>4. ASSUME torn' = {} PROVE Untorn'
        <3>1. CASE k = 0
            <4>1. InitGoesOn'
                BY <1>1, <1>3, <2>2, <2>4, <3>1, InitStatementSteps DEF InitGoesOn, StatementsOf, k, s, L, st
            <4>2. QED
                BY <2>2, <3>1, <4>1 DEF Untorn, TaskGoesOn, ChecksGoOn
        <3>2. CASE k # 0
            <4>1. TaskGoesOn'
                <5>1. st = Tasks[k].statements[s]
                    BY <3>2 DEF st, StatementsOf
                <5>2. \E base \in Bases : Makes(k) \cap base = {} /\ schema' = Reached(base, k, s + 1)
                    BY <1>1, <2>4, <3>2, <5>1, TaskStatementSteps DEF k, s
                <5>3. QED
                    BY <2>2, <5>2 DEF TaskGoesOn
            <4>2. QED
                BY <2>2, <3>2, <4>1 DEF Untorn, InitGoesOn, ChecksGoOn
        <3>3. QED
            BY <3>1, <3>2
    <2>5. QED
        BY <2>3, <2>4 DEF SchemaIInv
<1>4. CASE ~(s < L)
    <2>1. boot' = MkBoot("check", k + 1, 1) /\ s = L
        BY <1>1, <1>2, <1>4
    <2>2. boot'.pc = "check" /\ boot'.task = k + 1
        BY <2>1, BootFields
    <2>3. SchemaTypeOK'
        <3>1. k + 1 \in 0..(NTasks + 1) /\ 1 \in Nat \ {0}
            BY <1>2
        <3>2. QED
            BY <2>1, <3>1, MkBootTyped
    <2>4. ASSUME torn' = {} PROVE \E base \in Bases : schema' = Reached(base, k + 1, 1)
        <3>1. CASE k = 0
            <4>1. DoneBefore(1)'
                BY <1>1, <1>4, <2>4, <3>1, InitStatementSteps DEF StatementsOf, k, s, L, st
            <4>2. QED
                BY <3>1, <4>1 DEF DoneBefore
        <3>2. CASE k # 0
            <4>1. st = Tasks[k].statements[s] /\ L = LenOf(k)
                BY <3>2 DEF st, L, StatementsOf, LenOf
            <4>2. QED
                BY <1>1, <2>1, <2>4, <3>2, <4>1, TaskStatementSteps DEF k, s
        <3>3. QED
            BY <3>1, <3>2
    <2>5. ASSUME torn' = {} PROVE Untorn'
        <3>1. k + 1 \in 1..(NTasks + 1) /\ k + 1 <= k + 1
            BY <1>2
        <3>2. ChecksGoOn'
            BY <2>2, <2>4, <2>5, <3>1 DEF ChecksGoOn, DoneBefore, NTasks
        <3>3. QED
            BY <2>2, <3>2 DEF Untorn, InitGoesOn, TaskGoesOn
    <2>6. QED
        BY <2>3, <2>5 DEF SchemaIInv
<1>5. QED
    BY <1>3, <1>4

\* A statement fails only on a database that a task was torn on.
LEMMA MigrateFailsSteps ==
    ASSUME SchemaIInv, MigrateFails
    PROVE  SchemaIInv'
<1>1. /\ boot.pc = "exec" /\ Fails(StatementsOf(boot.task)[boot.stmt]) /\ torn' = torn
      /\ boot' = MkBoot("failed", boot.task, boot.stmt)
      /\ SchemaTypeOK /\ (torn = {} => Untorn)
    BY DEF MigrateFails, SchemaIInv
<1>2. SchemaTypeOK'
    <2>1. boot.task \in 0..(NTasks + 1) /\ boot.stmt \in Nat \ {0}
        BY <1>1 DEF SchemaTypeOK, NTasks
    <2>2. QED
        BY <1>1, <2>1, MkBootTyped
<1>3. torn # {}
    <2>1. CASE boot.task = 0
        BY <1>1, <2>1, InitStatementSteps DEF StatementsOf
    <2>2. CASE boot.task # 0
        BY <1>1, <2>2, TaskStatementSteps DEF StatementsOf
    <2>3. QED
        BY <2>1, <2>2
<1>4. QED
    BY <1>1, <1>2, <1>3 DEF SchemaIInv

LEMMA CrashInMigrateSteps ==
    ASSUME SchemaIInv, CrashInMigrate
    PROVE  SchemaIInv'
<1>1. /\ boot.pc \in {"check", "exec"} /\ boot' = Down /\ schema' = schema
      /\ torn' = (IF boot.pc = "exec" /\ boot.task > 0 /\ boot.stmt > 1 THEN torn \cup {boot.task} ELSE torn)
      /\ SchemaTypeOK /\ (torn = {} => Untorn)
    BY DEF CrashInMigrate, SchemaIInv
<1>2. ASSUME torn' = {}
      PROVE  \/ \E k \in 1..(NTasks + 1) : DoneBefore(k)
             \/ \E m \in 0..(Len(InitSQL) - 1) : InitDone(m)
    <2>1. torn = {} /\ ~(boot.pc = "exec" /\ boot.task > 0 /\ boot.stmt > 1) /\ Untorn
        BY <1>1, <1>2
    <2>2. CASE boot.pc = "check"
        BY <2>1, <2>2 DEF Untorn, ChecksGoOn, NTasks
    <2>3. CASE boot.pc = "exec" /\ boot.task = 0
        BY <2>1, <2>3 DEF Untorn, InitGoesOn
    <2>4. CASE boot.pc = "exec" /\ boot.task # 0
        <3>1. boot.task \in 1..(NTasks + 1) /\ boot.task > 0 /\ boot.stmt = 1
            BY <1>1, <2>1, <2>4, BootTypes
        <3>2. DoneBefore(boot.task)
            BY <2>1, <2>4, <3>1 DEF Untorn, TaskGoesOn, DoneBefore
        <3>3. QED
            BY <3>1, <3>2
    <2>5. QED
        BY <1>1, <2>2, <2>3, <2>4
<1>3. QED
    BY <1>1, <1>2, BackToDown

LEMMA SchemaSteps ==
    ASSUME SchemaIInv, SchemaNext
    PROVE  SchemaIInv'
<1>1. CASE Restart
    <2>1. boot' = Down /\ schema' = schema /\ torn' # {}
        BY <1>1 DEF Restart, SchemaIInv, Untorn
    <2>2. QED
        BY <2>1, BackToDown
<1>2. QED
    BY <1>1, StartSteps, CheckTaskSteps, ExecStatementSteps, MigrateFailsSteps, CrashInMigrateSteps
    DEF SchemaNext

-----------------------------------------------------------------------------
(* The process around Migrate.                                             *)

\* After Migrate the schema is done, and stays so from one part of the start to the next ...
LEMMA SchemaGoTo ==
    ASSUME SchemaIInv, NEW pc, GoTo(pc), pc \notin {"down", "check", "exec", "failed"},
           boot.pc \notin {"down", "check", "exec", "failed"}
    PROVE  SchemaIInv'
<1>1. /\ boot' = [boot EXCEPT !.pc = pc] /\ schema' = schema /\ torn' = torn
      /\ SchemaTypeOK /\ (torn = {} => Untorn)
    BY DEF GoTo, SchemaIInv
<1>2. boot' = MkBoot(pc, boot.task, boot.stmt)
    BY <1>1, BootTypes DEF MkBoot
<1>3. boot'.pc = pc /\ SchemaTypeOK'
    <2>1. boot.task \in 0..(NTasks + 1) /\ boot.stmt \in Nat \ {0}
        BY <1>1 DEF SchemaTypeOK, NTasks
    <2>2. QED
        BY <1>2, <2>1, MkBootTyped, BootFields
<1>4. ASSUME torn' = {} PROVE Untorn'
    <2>1. DoneBefore(Len(Tasks) + 1)'
        BY <1>1, <1>4 DEF Untorn, DoneBefore
    <2>2. QED
        BY <1>3, <2>1 DEF Untorn, InitGoesOn, TaskGoesOn, ChecksGoOn
<1>5. QED
    BY <1>3, <1>4 DEF SchemaIInv

\* ... and when the process ends.
LEMMA SchemaDeath ==
    ASSUME SchemaIInv, Die, boot.pc \notin {"down", "check", "exec", "failed"}
    PROVE  SchemaIInv'
<1>1. boot' = Down /\ schema' = schema /\ torn' = torn /\ (torn = {} => Untorn)
    BY DEF Die, SchemaIInv
<1>2. ASSUME torn' = {} PROVE \E k \in 1..(NTasks + 1) : DoneBefore(k)
    <2>1. DoneBefore(NTasks + 1) /\ NTasks + 1 \in 1..(NTasks + 1)
        BY <1>1, <1>2, StepForm DEF Untorn, NTasks
    <2>2. QED
        BY <2>1
<1>3. QED
    BY <1>1, <1>2, BackToDown

LEMMA SchemaKept ==
    ASSUME SchemaIInv, UNCHANGED schemaVars
    PROVE  SchemaIInv'
<1>1. schema' = schema /\ boot' = boot /\ torn' = torn
    BY DEF schemaVars
<1>2. SchemaTypeOK'
    BY <1>1 DEF SchemaIInv, SchemaTypeOK
<1>3. Untorn => Untorn'
    BY <1>1 DEF Untorn, InitGoesOn, TaskGoesOn, ChecksGoOn, DoneBefore, InitDone
<1>4. QED
    BY <1>1, <1>2, <1>3 DEF SchemaIInv

\* How far Migrate has got can be read off a schema on which no task was torn, from start
\* to start of the process, for every list of tasks that keeps to TasksAssumption.
THEOREM SchemaInvariant == SafetySpec => []SchemaIInv
<1>1. Init => SchemaIInv
    <2>1. SUFFICES ASSUME Init PROVE SchemaIInv
        OBVIOUS
    <2>2. schema \in Legacies /\ boot = Down /\ torn = {}
        BY <2>1 DEF Init, SchemaInit
    <2>3. boot.pc = "down" /\ boot.task = 0 /\ boot.stmt = 1
        BY <2>2, BootFields
    <2>4. SchemaTypeOK
        BY <2>2, <2>3, StepForm DEF SchemaTypeOK, NTasks, Down
    <2>5. ChecksGoOn
        <3>1. CASE schema = {}
            <4>1. InitDone(0) /\ 0 \in 0..(Len(InitSQL) - 1)
                BY <3>1, TasksAssumption DEF InitDone, InitDiscipline
            <4>2. QED
                BY <2>3, <4>1 DEF ChecksGoOn
        <3>2. CASE schema = BaseTables
            <4>1. BaseTables \in Bases
                BY DEF Bases
            <4>2. DoneBefore(1)
                BY <3>2, <4>1, ReachedBase DEF DoneBefore
            <4>3. 1 \in 1..(NTasks + 1) /\ 0 <= 1
                BY StepForm
            <4>4. QED
                BY <2>3, <4>2, <4>3 DEF ChecksGoOn, NTasks
        <3>3. QED
            BY <2>2, <3>1, <3>2 DEF Legacies
    <2>6. QED
        BY <2>3, <2>4, <2>5 DEF SchemaIInv, Untorn, InitGoesOn, TaskGoesOn
<1>2. SchemaIInv /\ [Next]_vars => SchemaIInv'
    <2> SUFFICES ASSUME SchemaIInv, [Next]_vars PROVE SchemaIInv'
        OBVIOUS
    <2>1. CASE MigrateStep
        BY <2>1, SchemaSteps DEF MigrateStep
    <2>2. ASSUME NEW reachable \in BOOLEAN, Connect(reachable) PROVE SchemaIInv'
        BY <2>2, SchemaGoTo DEF Connect, At
    <2>3. CASE MigrateFiles \/ EndOfReportsRows \/ ListingFails \/ FilesMigrated \/ FilesFailed \/ Serve \/ Shutdown
        BY <2>3, SchemaGoTo
        DEF MigrateFiles, EndOfReportsRows, ListingFails, FilesMigrated, FilesFailed, Serve, Shutdown, At
    <2>4. ASSUME NEW f \in FileIds, WorkerStores(f) \/ WorkerFails(f) \/ WorkerSends(f) PROVE SchemaIInv'
        BY <2>4, SchemaKept DEF WorkerStores, WorkerFails, WorkerSends
    <2>5. CASE \/ HandleRequest \/ EndOfFilesRows
               \/ \E r \in ReportIds : ReportRow(r)
               \/ \E f \in FileIds : FileRow(f)
        BY <2>5, SchemaKept DEF HandleRequest, EndOfFilesRows, ReportRow, FileRow
    <2>6. CASE Exit \/ Crash
        BY <2>6, SchemaDeath DEF Exit, Crash, At
    <2>7. CASE UNCHANGED vars
        BY <2>7, SchemaKept DEF vars
    <2>8. QED
        BY <2>1, <2>2, <2>3, <2>4, <2>5, <2>6, <2>7 DEF Next, ReadRows
<1>3. QED
    BY <1>1, <1>2, PTL DEF SafetySpec

\* When Migrate returns, the schema is the whole of what the tasks are for, from whichever
\* database and after however many crashes, unless one fell between two statements of a
\* task (shouldRun, IF NOT EXISTS).
THEOREM MigrateMakesReady == SafetySpec => []SchemaReady
<1>1. SchemaIInv => SchemaReady
    <2>1. SUFFICES ASSUME SchemaIInv, boot.pc = "migrated", torn = {} PROVE schema = Target
        BY DEF SchemaReady
    <2>2. DoneBefore(NTasks + 1)
        BY <2>1 DEF SchemaIInv, Untorn, NTasks
    <2>3. QED
        BY <2>2, AllDoneIsTarget DEF DoneBefore
<1>2. QED
    BY <1>1, SchemaInvariant, PTL

\* Migrate never fails on what an earlier start has done, unless that start ended between
\* two statements of a task (shouldRun, the log.Fatalf of main).
THEOREM StartsFailOnlyTorn == SafetySpec => []StartupFailsOnlyTorn
<1>1. SchemaIInv => StartupFailsOnlyTorn
    BY DEF SchemaIInv, Untorn, StartupFailsOnlyTorn
<1>2. QED
    BY <1>1, SchemaInvariant, PTL
=============================================================================

----------------------------- MODULE BugReports -----------------------------
(***************************************************************************)
(* The bug report routes, internal/bugreports/bug_report.route.go: reports *)
(* and their files in MySQL, and a copy of each file in the object store,  *)
(* written best-effort and read first.  Nothing is in a transaction: every *)
(* INSERT and every upload is a step of its own.                           *)
(*                                                                         *)
(* The bytes of a file are named by the id of its row.  Ids grow and are   *)
(* never used again; a name may look like an id, and is then a number.     *)
(* The status of a report, one UPDATE, is left out, and so are the routes  *)
(* that only read, but for the download of one file.                       *)
(***************************************************************************)
EXTENDS Naturals

CONSTANTS
    Creates,            \* requests of CreateBugReport
    Downloads,          \* requests of GetReportFileByFileID
    Names,              \* file names
    MaxReports, MaxFiles,   \* bounds on the reports and on the files ever inserted
    None

ASSUME ReportsAssumption == MaxReports \in Nat /\ MaxFiles \in Nat

VARIABLES
    reports,            \* the ids of the reports
    files,              \* file id -> [report, name]
    lastReport,         \* AUTO_INCREMENT: the last id given to a report
    lastFile,           \* and to a file
    objects,            \* the object store: key -> the file whose bytes it holds
    s3conn,             \* whether the process has a connector
    create,             \* request -> [pc, report, file, name]
    download,           \* request -> [pc, report, file, name, served]
    lazy,               \* uploads that downloads have started, as pairs <<report, file>>
    clashed             \* history: files that share a key with another one

reportVars == <<reports, files, lastReport, lastFile, objects, s3conn, create, download, lazy, clashed>>

ReportIds == 1..MaxReports
FileIds == 1..MaxFiles

\* Faulty variant: the key leaves out the report.
FaultyNameKey(r, name) == <<0, name>>

\* .../bug-reports/<report>/files/<filename>, which reads and the migration use too,
NameKey(r, name) == <<r, name>>

\* and the key of the lazy uploads, .../files/<file id>.
IdKey(r, f) == <<r, f>>

NoCreate == [pc |-> "idle", report |-> 0, file |-> 0, name |-> None]
Filing(r) == [pc |-> "files", report |-> r, file |-> 0, name |-> None]
NoDownload == [pc |-> "idle", report |-> 0, file |-> 0, name |-> None, served |-> 0]

ReportsInit ==
    /\ reports = {}
    /\ files = <<>>
    /\ lastReport = 0 /\ lastFile = 0
    /\ objects = <<>>
    /\ s3conn = FALSE
    /\ create = [q \in Creates |-> NoCreate]
    /\ download = [d \in Downloads |-> NoDownload]
    /\ lazy = {}
    /\ clashed = {}

Put(f, k, v) == [x \in DOMAIN f \cup {k} |-> IF x = k THEN v ELSE f[x]]
Remove(f, ks) == [x \in DOMAIN f \ ks |-> f[x]]

-----------------------------------------------------------------------------
(* CreateBugReport.                                                        *)

InsertReport(q) ==
    LET r == lastReport + 1 IN
    /\ create[q].pc = "idle"
    /\ r \in ReportIds
    /\ lastReport' = r
    /\ reports' = reports \cup {r}
    /\ create' = [create EXCEPT ![q] = Filing(r)]
    /\ UNCHANGED <<files, lastFile, objects, s3conn, download, lazy, clashed>>

\* The INSERT of the next file; its foreign key needs the report.
InsertFile(q, name) ==
    LET f == lastFile + 1
        r == create[q].report
        \* the other file of a shared key: of the same name, or the one a name denotes
        same == {g \in DOMAIN files : files[g].report = r /\ (files[g].name \in {name, f} \/ g = name)}
    IN  /\ create[q].pc = "files"
        /\ r \in reports
        /\ f \in FileIds
        /\ lastFile' = f
        /\ files' = Put(files, f, [report |-> r, name |-> name])
        /\ clashed' = IF same = {} THEN clashed ELSE clashed \cup same \cup {f}
        /\ create' = [create EXCEPT ![q] =
                          IF s3conn THEN [pc |-> "upload", report |-> r, file |-> f, name |-> name]
                          ELSE Filing(r)]
        /\ UNCHANGED <<reports, lastReport, objects, s3conn, download, lazy>>

\* The upload: done, or failed and logged.  A report deleted meanwhile does not stop it.
UploadFile(q, stored) ==
    /\ create[q].pc = "upload"
    /\ objects' = IF stored
                  THEN Put(objects, NameKey(create[q].report, create[q].name), create[q].file)
                  ELSE objects
    /\ create' = [create EXCEPT ![q] = Filing(@.report)]
    /\ UNCHANGED <<reports, files, lastReport, lastFile, s3conn, download, lazy, clashed>>

\* The answer, after the last file or on an error; what is stored stays.
EndCreate(q) ==
    /\ create[q].pc \in {"files", "upload"}
    /\ create' = [create EXCEPT ![q] = NoCreate]
    /\ UNCHANGED <<reports, files, lastReport, lastFile, objects, s3conn, download, lazy, clashed>>

-----------------------------------------------------------------------------
\* DeleteBugReportByID: the rows go, by the foreign key those of the files too;
\* the objects stay.
DeleteBugReport(r) ==
    /\ r \in reports
    /\ reports' = reports \ {r}
    /\ files' = Remove(files, {f \in DOMAIN files : files[f].report = r})
    /\ UNCHANGED <<lastReport, lastFile, objects, s3conn, create, download, lazy, clashed>>

-----------------------------------------------------------------------------
(* GetReportFileByFileID.                                                  *)

\* The file's name is looked up; without a row the answer is an error.
FindFile(d, f) ==
    /\ download[d].pc = "idle"
    /\ f \in DOMAIN files
    /\ download' = [download EXCEPT ![d] =
                       [pc |-> IF s3conn THEN "object" ELSE "row", report |-> files[f].report,
                        file |-> f, name |-> files[f].name, served |-> 0]]
    /\ UNCHANGED <<reports, files, lastReport, lastFile, objects, s3conn, create, lazy, clashed>>

GetObject(d) ==
    LET key == NameKey(download[d].report, download[d].name) IN
    /\ download[d].pc = "object"
    /\ key \in DOMAIN objects
    /\ download' = [download EXCEPT ![d].pc = "done", ![d].served = objects[key]]
    /\ UNCHANGED <<reports, files, lastReport, lastFile, objects, s3conn, create, lazy, clashed>>

\* Not found, or the store failed.
MissObject(d) ==
    /\ download[d].pc = "object"
    /\ download' = [download EXCEPT ![d].pc = "row"]
    /\ UNCHANGED <<reports, files, lastReport, lastFile, objects, s3conn, create, lazy, clashed>>

\* The copy in the database, which also starts an upload.
GetRow(d) ==
    LET f == download[d].file IN
    /\ download[d].pc = "row"
    /\ IF f \in DOMAIN files
       THEN /\ download' = [download EXCEPT ![d].pc = "done", ![d].served = f]
            /\ lazy' = IF s3conn THEN lazy \cup {<<download[d].report, f>>} ELSE lazy
       ELSE /\ download' = [download EXCEPT ![d] = NoDownload]
            /\ UNCHANGED lazy
    /\ UNCHANGED <<reports, files, lastReport, lastFile, objects, s3conn, create, clashed>>

LazyUpload(u, stored) ==
    /\ u \in lazy
    /\ lazy' = lazy \ {u}
    /\ objects' = IF stored THEN Put(objects, IdKey(u[1], u[2]), u[2]) ELSE objects
    /\ UNCHANGED <<reports, files, lastReport, lastFile, s3conn, create, download, clashed>>

EndDownload(d) ==
    /\ download[d].pc = "done"
    /\ download' = [download EXCEPT ![d] = NoDownload]
    /\ UNCHANGED <<reports, files, lastReport, lastFile, objects, s3conn, create, lazy, clashed>>

-----------------------------------------------------------------------------
\* What begins a request, and what goes on with one.
NewRequest ==
    \/ \E q \in Creates : InsertReport(q)
    \/ \E r \in ReportIds : DeleteBugReport(r)
    \/ \E d \in Downloads, f \in FileIds : FindFile(d, f)

RequestStep ==
    \/ \E q \in Creates :
        \/ \E name \in Names : InsertFile(q, name)
        \/ \E stored \in BOOLEAN : UploadFile(q, stored)
        \/ EndCreate(q)
    \/ \E d \in Downloads : GetObject(d) \/ MissObject(d) \/ GetRow(d) \/ EndDownload(d)
    \/ \E u \in lazy, stored \in BOOLEAN : LazyUpload(u, stored)

Idle == (\A q \in Creates : create[q] = NoCreate) /\ (\A d \in Downloads : download[d] = NoDownload)

-----------------------------------------------------------------------------
\* A download hands out the bytes of the file it names, from the row or from the
\* object, through failed uploads, migrations, deletions and restarts, unless
\* another file of the report shares the object's key with it (the keys of
\* CreateBugReport, GetReportFileByFileID and MigrateReportFilesToS3).
ServedIsOwn ==
    \A d \in Downloads :
        download[d].pc = "done" /\ download[d].file \notin clashed
            => download[d].served = download[d].file

-----------------------------------------------------------------------------
(* The inductive invariant behind it (ProcessProofs).                      *)

Keys == Names \cup FileIds

\* What exists refers to what exists, and what is in flight to what existed.
References ==
    /\ lastReport \in 0..MaxReports /\ lastFile \in 0..MaxFiles
    /\ reports \subseteq 1..lastReport
    /\ \A f \in DOMAIN files :
          f \in 1..lastFile /\ files[f].report \in reports /\ files[f].name \in Names
    /\ \A key \in DOMAIN objects : key \in ReportIds \X Keys /\ objects[key] \in FileIds
    /\ create \in [Creates ->
          [pc : {"idle", "files", "upload"}, report : 0..MaxReports, file : 0..MaxFiles,
           name : Names \cup {None}]]
    /\ \A q \in Creates : create[q].pc = "upload" =>
          create[q].report \in ReportIds /\ create[q].file \in FileIds /\ create[q].name \in Names
    /\ download \in [Downloads ->
          [pc : {"idle", "object", "row", "done"}, report : 0..MaxReports, file : 0..MaxFiles,
           name : Names \cup {None}, served : 0..MaxFiles]]
    /\ \A d \in Downloads : download[d].pc \in {"object", "row"} =>
          download[d].report \in ReportIds /\ download[d].file \in FileIds /\ download[d].name \in Names
    /\ lazy \subseteq ReportIds \X FileIds

\* The bytes of the file g are under the key <<r, k>>, or may come to be.
Claims(r, k, g) ==
    \/ g \in DOMAIN files /\ files[g].report = r /\ k \in {files[g].name, g}
    \/ <<r, k>> \in DOMAIN objects /\ objects[<<r, k>>] = g
    \/ <<r, g>> \in lazy /\ k = g
    \/ \E q \in Creates :
          /\ create[q].pc = "upload"
          /\ create[q].report = r /\ create[q].file = g /\ create[q].name = k
    \/ \E d \in Downloads :
          /\ download[d].pc \in {"object", "row"}
          /\ download[d].report = r /\ download[d].file = g /\ k \in {download[d].name, g}

\* A claim under a report that is still there is that of one of its rows: rows
\* are deleted with their report only, whose id is never given out again.
ClaimsBacked ==
    \A r \in ReportIds, k \in Keys, g \in FileIds : Claims(r, k, g) =>
        /\ r <= lastReport /\ g <= lastFile
        /\ r \in reports => g \in DOMAIN files /\ files[g].report = r /\ k \in {files[g].name, g}

\* Two files that claim one key are known to clash.
ClaimsApart ==
    \A r \in ReportIds, k \in Keys, g, h \in FileIds :
        Claims(r, k, g) /\ Claims(r, k, h) /\ g # h => g \in clashed
=============================================================================

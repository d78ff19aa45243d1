------------------------------- MODULE Process ------------------------------
(***************************************************************************)
(* The process, main.go: Migrate, the connector of the file bucket,        *)
(* --migrate-files (internal/storage/migrateFiles.go), then the server and *)
(* its shutdown, and a crash at any point.  The database and the object    *)
(* store outlive it.                                                       *)
(*                                                                         *)
(* boot.pc goes on from "migrated" to "connected"; to "listing" while the  *)
(* rows of the files are read and "files" while their uploads are waited   *)
(* for ("fatal" after errors); to "serving" and "stopping".                *)
(***************************************************************************)
EXTENDS SchemaMigrator, BugReports, FiniteSets

CONSTANTS
    ErrBuffer,          \* the buffer of errCh, 128 in the code
    MaxCrashes          \* bound on the ends of the process

ASSUME ProcessAssumption == ErrBuffer \in Nat /\ MaxCrashes \in Nat

VARIABLES
    worker,             \* file whose row has been read -> the state of its upload
    rows,               \* reportsRows and filesRows, see NoRows
    errors,             \* errors in errCh
    migrated,           \* history: the files that the last migration to return nil was
                        \* to move; those whose rows it read, when the reading was cut short
    crashes

filesVars == <<worker, rows, errors, migrated>>
vars == <<schemaVars, reportVars, filesVars, crashes>>

\* report  the report whose filesRows are read, 0 between two reports
\* over    the reports that are done with
\* cut     history: some Next was FALSE before the last row
NoRows == [report |-> 0, over |-> {}, cut |-> FALSE]

Init ==
    /\ SchemaInit
    /\ ReportsInit
    /\ worker = <<>>
    /\ rows = NoRows
    /\ errors = 0
    /\ migrated = {}
    /\ crashes = 0

At(pc) == boot.pc = pc
GoTo(pc) == boot' = [boot EXCEPT !.pc = pc] /\ UNCHANGED <<schema, torn>>

-----------------------------------------------------------------------------
(* From Migrate to the server.                                             *)

MigrateStep ==
    /\ SchemaNext
    /\ boot'.pc = "down" => crashes < MaxCrashes
    /\ crashes' = IF boot'.pc = "down" THEN crashes + 1 ELSE crashes
    /\ UNCHANGED <<reportVars, filesVars>>

\* NewS3Connector and Ping: an unreachable store is as none.
Connect(reachable) ==
    /\ At("migrated")
    /\ s3conn' = reachable
    /\ GoTo("connected")
    /\ UNCHANGED <<reports, files, lastReport, lastFile, objects, create, download, lazy, clashed>>
    /\ UNCHANGED <<filesVars, crashes>>

\* --migrate-files with a connector: the query of the reports.
MigrateFiles ==
    /\ At("connected") /\ s3conn
    /\ worker' = <<>>
    /\ rows' = NoRows
    /\ errors' = 0
    /\ GoTo("listing")
    /\ UNCHANGED <<reportVars, migrated, crashes>>

\* reportsRows.Next, and the query of the report's files.
ReportRow(r) ==
    /\ At("listing") /\ rows.report = 0
    /\ r \in reports \ rows.over
    /\ rows' = [rows EXCEPT !.report = r]
    /\ UNCHANGED <<schemaVars, reportVars, worker, errors, migrated, crashes>>

\* filesRows.Next, the SELECT of the data, and a goroutine for the upload.  Nobody
\* deletes rows before the server runs, so none is skipped.
FileRow(f) ==
    /\ At("listing")
    /\ f \in DOMAIN files \ DOMAIN worker
    /\ files[f].report = rows.report
    /\ worker' = Put(worker, f, "upload")
    /\ UNCHANGED <<schemaVars, reportVars, rows, errors, migrated, crashes>>

RowsOf(r) == {f \in DOMAIN files : files[f].report = r}

\* filesRows.Next is FALSE: after the last row, or because the connection is lost,
\* which only filesRows.Err would tell; the Close of what is closed is no error.
EndOfFilesRows ==
    /\ At("listing") /\ rows.report # 0
    /\ rows' = [report |-> 0, over |-> rows.over \cup {rows.report},
                cut |-> rows.cut \/ ~(RowsOf(rows.report) \subseteq DOMAIN worker)]
    /\ UNCHANGED <<schemaVars, reportVars, worker, errors, migrated, crashes>>

\* reportsRows.Next is FALSE, in the same way; wg.Wait is next.
EndOfReportsRows ==
    /\ At("listing") /\ rows.report = 0
    /\ rows' = [rows EXCEPT !.cut = @ \/ rows.over # reports]
    /\ GoTo("files")
    /\ UNCHANGED <<reportVars, worker, errors, migrated, crashes>>

\* A query, a Scan or a SELECT of the data fails: the error is returned and
\* log.Fatalf is next, with uploads under way.
ListingFails ==
    /\ At("listing")
    /\ rows' = NoRows
    /\ GoTo("fatal")
    /\ UNCHANGED <<reportVars, worker, errors, migrated, crashes>>

\* What the loops over the rows do next.
ReadRows ==
    \/ \E r \in ReportIds : ReportRow(r)
    \/ \E f \in FileIds : FileRow(f)
    \/ EndOfFilesRows \/ EndOfReportsRows \/ ListingFails

\* The workers run from the row to the end of the process.
WorkersRun == boot.pc \in {"listing", "files", "fatal"}

WorkerStores(f) ==
    /\ WorkersRun
    /\ f \in DOMAIN worker /\ worker[f] = "upload"
    /\ objects' = Put(objects, NameKey(files[f].report, files[f].name), f)
    /\ worker' = [worker EXCEPT ![f] = "done"]
    /\ UNCHANGED <<reports, files, lastReport, lastFile, s3conn, create, download, lazy, clashed>>
    /\ UNCHANGED <<schemaVars, rows, errors, migrated, crashes>>

WorkerFails(f) ==
    /\ WorkersRun
    /\ f \in DOMAIN worker /\ worker[f] = "upload"
    /\ worker' = [worker EXCEPT ![f] = "send"]
    /\ UNCHANGED <<schemaVars, reportVars, rows, errors, migrated, crashes>>

\* Faulty variant: the channel has no buffer.
FaultyWorkerSends(f) ==
    /\ WorkersRun
    /\ f \in DOMAIN worker /\ worker[f] = "send"
    /\ errors < 0
    /\ errors' = errors + 1
    /\ worker' = [worker EXCEPT ![f] = "done"]
    /\ UNCHANGED <<schemaVars, reportVars, rows, migrated, crashes>>

\* Faulty variant: the error is logged and not sent.
FaultyWorkerLogs(f) ==
    /\ WorkersRun
    /\ f \in DOMAIN worker /\ worker[f] = "send"
    /\ worker' = [worker EXCEPT ![f] = "done"]
    /\ UNCHANGED <<schemaVars, reportVars, rows, errors, migrated, crashes>>

\* errCh <- err blocks when the buffer is full: nobody reads before wg.Wait.
WorkerSends(f) ==
    /\ WorkersRun
    /\ f \in DOMAIN worker /\ worker[f] = "send"
    /\ errors < ErrBuffer
    /\ errors' = errors + 1
    /\ worker' = [worker EXCEPT ![f] = "done"]
    /\ UNCHANGED <<schemaVars, reportVars, rows, migrated, crashes>>

AllWorkersDone == \A f \in DOMAIN worker : worker[f] = "done"

\* wg.Wait and the errors: none, and the next argument or the server is next;
FilesMigrated ==
    /\ At("files") /\ AllWorkersDone
    /\ errors = 0
    /\ migrated' = IF rows.cut THEN DOMAIN worker ELSE DOMAIN files
    /\ worker' = <<>>
    /\ rows' = NoRows
    /\ GoTo("connected")
    /\ UNCHANGED <<reportVars, errors, crashes>>

\* some, and log.Fatalf ends the process.
FilesFailed ==
    /\ At("files") /\ AllWorkersDone
    /\ errors > 0
    /\ worker' = <<>>
    /\ rows' = NoRows
    /\ errors' = 0
    /\ GoTo("fatal")
    /\ UNCHANGED <<reportVars, migrated, crashes>>

Serve ==
    /\ At("connected")
    /\ GoTo("serving")
    /\ UNCHANGED <<reportVars, filesVars, crashes>>

-----------------------------------------------------------------------------
(* The server.                                                             *)

\* A request that runs goes on while the server is stopping.
HandleRequest ==
    /\ \/ At("serving") /\ NewRequest
       \/ boot.pc \in {"serving", "stopping"} /\ RequestStep
    /\ UNCHANGED <<schemaVars, filesVars, crashes>>

\* SIGTERM.
Shutdown ==
    /\ At("serving")
    /\ GoTo("stopping")
    /\ UNCHANGED <<reportVars, filesVars, crashes>>

\* What is in memory is gone: the requests, the lazy uploads and the workers.
Die ==
    /\ crashes < MaxCrashes
    /\ crashes' = crashes + 1
    /\ boot' = Down
    /\ create' = [q \in Creates |-> NoCreate]
    /\ download' = [d \in Downloads |-> NoDownload]
    /\ lazy' = {}
    /\ s3conn' = FALSE
    /\ worker' = <<>>
    /\ rows' = NoRows
    /\ errors' = 0
    /\ UNCHANGED <<schema, torn, reports, files, lastReport, lastFile, objects, clashed, migrated>>

\* srv.Shutdown has waited for the requests; for the lazy uploads nobody waits.
Exit == At("stopping") /\ Idle /\ Die

\* A crash, log.Fatalf, or the end of the 30 s of the shutdown.
Crash == boot.pc \in {"migrated", "connected", "listing", "files", "fatal", "serving", "stopping"} /\ Die

Next ==
    \/ MigrateStep
    \/ \E reachable \in BOOLEAN : Connect(reachable)
    \/ MigrateFiles \/ ReadRows \/ FilesMigrated \/ FilesFailed \/ Serve
    \/ \E f \in FileIds : WorkerStores(f) \/ WorkerFails(f) \/ WorkerSends(f)
    \/ HandleRequest \/ Shutdown \/ Exit \/ Crash

\* The loops over the rows and the uploads of the migration go on, one way or the
\* other, and so do the goroutines that can.
Fairness ==
    /\ WF_vars(ReadRows) /\ WF_vars(FilesMigrated) /\ WF_vars(FilesFailed)
    /\ \A f \in FileIds :
        WF_vars(WorkerStores(f) \/ WorkerFails(f)) /\ WF_vars(WorkerSends(f))

SafetySpec == Init /\ [][Next]_vars
Spec == SafetySpec /\ Fairness

-----------------------------------------------------------------------------
\* After a migration of the files that reported success, every file that is still
\* there has an object under its name, for good: the loops over the rows miss none,
\* and an upload that failed, in whatever order the workers end, is an error of the
\* whole (errCh and the count after wg.Wait).  Unless a connection was lost in the
\* middle of the rows, which the loops do not tell from their end (no rows.Err):
\* then it is so for the files whose rows had been read, and the rest is left
\* behind by a migration that reports success.
MigratedFilesStored ==
    \A f \in migrated \cap DOMAIN files :
        NameKey(files[f].report, files[f].name) \in DOMAIN objects

\* Uploads of the migration that have failed.
Failed == errors + Cardinality({f \in DOMAIN worker : worker[f] = "send"})

\* The migration of the files ends, and with it the start of the server, unless
\* more of its uploads fail than errCh has room for: then the workers wait for a
\* reader that waits for them (errCh and wg.Wait).
FilesMigrationEnds ==
    boot.pc \in {"listing", "files"} ~>
        (boot.pc \notin {"listing", "files"} \/ Failed > ErrBuffer)

-----------------------------------------------------------------------------
Stored(f) == NameKey(files[f].report, files[f].name) \in DOMAIN objects

\* A worker that is done has stored its file, or has left an error.
WorkersAccounted ==
    /\ errors \in Nat
    /\ WorkersRun => \A f \in DOMAIN worker :
          f \in DOMAIN files /\ (worker[f] = "done" => Stored(f) \/ errors > 0)

\* Unless the rows were cut, the reports that are done with have all their files
\* under way, and in the end they are all the reports.
RowsRead ==
    /\ rows \in [report : 0..MaxReports, over : SUBSET ReportIds, cut : BOOLEAN]
    /\ boot.pc \in {"listing", "files"} /\ ~rows.cut =>
          /\ \A f \in DOMAIN files : files[f].report \in rows.over => f \in DOMAIN worker
          /\ At("files") => reports = rows.over

\* The inductive invariant.
IInv ==
    /\ boot = MkBoot(boot.pc, boot.task, boot.stmt)
    /\ References
    /\ ClaimsBacked
    /\ ClaimsApart
    /\ ServedIsOwn
    /\ WorkersAccounted
    /\ RowsRead
    /\ migrated \subseteq 1..lastFile
    /\ MigratedFilesStored
=============================================================================

--------------------------- MODULE SchemaMigrator ---------------------------
(***************************************************************************)
(* schema.Migrate, internal/database/schema/migrator.go: init.sql on a     *)
(* database that lacks a base table, then every task of tasks.json whose   *)
(* conditions ask for it.  The statements of a task are executed one by    *)
(* one, outside any transaction (MySQL commits each DDL statement), so the *)
(* process may end between any two of them.                                *)
(*                                                                         *)
(* The database is the set of its tables, columns and indexes.  A          *)
(* statement that only fills in data leaves a mark among them.  Columns    *)
(* and indexes that a task adds together are one object.  A statement      *)
(* makes and drops objects and fails on one that is missing or already     *)
(* there; a guarded one (IF NOT EXISTS, a repeatable UPDATE) is then       *)
(* without effect.                                                         *)
(***************************************************************************)
EXTENDS Naturals, Sequences

CONSTANTS
    InitSQL,            \* the statements of init.sql: [needs, makes, drops, guarded]
    Tasks               \* the tasks of tasks.json: [conditions, statements]

BaseTables == {"bug_reports", "bug_report_files", "rate_limit_hwid", "user", "session"}

-----------------------------------------------------------------------------
(* What the list of tasks keeps to.  No statement undoes or repeats        *)
(* another, so that where Migrate has got to can be read off the schema.   *)

\* The statements of the tasks, by task and place, in the order of execution.
Steps == UNION {{k} \X (1..Len(Tasks[k].statements)) : k \in 1..Len(Tasks)}
StepAt(x) == Tasks[x[1]].statements[x[2]]
Earlier(x, y) == x[1] < y[1] \/ (x[1] = y[1] /\ x[2] < y[2])

InitMakes == UNION {InitSQL[j].makes : j \in 1..Len(InitSQL)}
Makes(k) == UNION {StepAt(x).makes : x \in {y \in Steps : y[1] = k}}
Drops(k) == UNION {StepAt(x).drops : x \in {y \in Steps : y[1] = k}}
Dropped == UNION {StepAt(x).drops : x \in Steps}

\* Every statement of init.sql creates a table, and what belongs to it, if it is missing.
InitDiscipline ==
    /\ Len(InitSQL) \in Nat \ {0}
    /\ \A i \in 1..Len(InitSQL) :
        /\ InitSQL[i].guarded /\ InitSQL[i].needs = {} /\ InitSQL[i].drops = {}
        /\ InitSQL[i].makes \cap BaseTables # {}
        /\ \A j \in 1..Len(InitSQL) : j # i => InitSQL[i].makes \cap InitSQL[j].makes = {}
    /\ BaseTables \subseteq InitMakes
    /\ \A o \in InitMakes : o \in BaseTables \/ \E x \in Steps : o \in StepAt(x).makes

\* A statement finds what it needs and makes what no other one makes; what one drops
\* has been made by an earlier one, and is not of init.sql.
StepDiscipline ==
    /\ Len(Tasks) \in Nat
    /\ \A k \in 1..Len(Tasks) : Len(Tasks[k].statements) \in Nat \ {0}
    /\ \A x \in Steps :
        /\ StepAt(x).makes \cap BaseTables = {}
        /\ \A o \in StepAt(x).needs :
            /\ o \in BaseTables \/ \E y \in Steps : Earlier(y, x) /\ o \in StepAt(y).makes
            /\ \A y \in Steps : Earlier(y, x) => o \notin StepAt(y).drops
        /\ \A o \in StepAt(x).drops :
            o \notin InitMakes /\ \E y \in Steps : Earlier(y, x) /\ o \in StepAt(y).makes
        /\ \A y \in Steps : y # x => /\ StepAt(x).makes \cap StepAt(y).makes = {}
                                    /\ StepAt(x).drops \cap StepAt(y).drops = {}

\* A task asks for something it makes for good, or only drops and asks for what it
\* drops; init.sql makes all that it is for, or nothing of it.
ConditionDiscipline ==
    \A k \in 1..Len(Tasks) :
        /\ Tasks[k].conditions # {}
        /\ \A c \in Tasks[k].conditions :
            IF c.exists THEN c.object \in Drops(k) /\ Makes(k) = {}
            ELSE c.object \in Makes(k) \ Dropped
        /\ \/ Makes(k) \cap InitMakes = {}
           \/ Makes(k) \subseteq InitMakes /\ Drops(k) = {}

ASSUME TasksAssumption == InitDiscipline /\ StepDiscipline /\ ConditionDiscipline

VARIABLES
    schema,             \* the objects that exist
    boot,               \* [pc, task, stmt]: main up to the end of Migrate
    torn                \* history: tasks that were interrupted between two statements

schemaVars == <<schema, boot, torn>>

\* A database from before the first task, and an empty one.
Legacies == {{}, BaseTables}

-----------------------------------------------------------------------------
StatementsOf(k) == IF k = 0 THEN InitSQL ELSE Tasks[k].statements

\* Faulty variant: a condition on an index that exists is read as the others are.
FaultyEvaluate(c) == c.object \notin schema

\* evaluate, for all six types of condition.
Evaluate(c) == c.object \in schema <=> c.exists

\* Faulty variant: every task runs at every start.
FaultyShouldRun(k) == k > 0

\* The table checks for init.sql (k = 0); shouldRun for a task: one condition that
\* is met is enough.
ShouldRun(k) == IF k = 0 THEN ~(BaseTables \subseteq schema)
                ELSE \E c \in Tasks[k].conditions : Evaluate(c)

Fails(st) ==
    \/ ~(st.needs \subseteq schema)
    \/ ~st.guarded /\ (st.makes \cap schema # {} \/ ~(st.drops \subseteq schema))

After(st) ==
    IF st.guarded /\ st.makes \cap schema # {} THEN schema ELSE (schema \ st.drops) \cup st.makes

MkBoot(pc, task, stmt) == [pc |-> pc, task |-> task, stmt |-> stmt]
Down == MkBoot("down", 0, 1)

SchemaInit ==
    /\ schema \in Legacies
    /\ boot = Down
    /\ torn = {}

\* main, up to schema.Migrate.
Start ==
    /\ boot.pc = "down"
    /\ boot' = MkBoot("check", 0, 1)
    /\ UNCHANGED <<schema, torn>>

\* The tasks that are not needed are skipped; after the last one Migrate returns.
CheckTask ==
    /\ boot.pc = "check"
    /\ LET needed == {k \in boot.task..Len(Tasks) : ShouldRun(k)}
       IN  \/ needed = {} /\ boot' = MkBoot("migrated", 0, 1)
           \/ \E k \in needed : (\A j \in needed : k <= j) /\ boot' = MkBoot("exec", k, 1)
    /\ UNCHANGED <<schema, torn>>

ExecStatement ==
    LET sts == StatementsOf(boot.task)
        st == sts[boot.stmt]
    IN  /\ boot.pc = "exec"
        /\ ~Fails(st)
        /\ schema' = After(st)
        /\ boot' = IF boot.stmt < Len(sts) THEN [boot EXCEPT !.stmt = @ + 1]
                   ELSE MkBoot("check", boot.task + 1, 1)
        /\ UNCHANGED torn

\* log.Fatalf: Migrate has returned an error.
MigrateFails ==
    /\ boot.pc = "exec"
    /\ Fails(StatementsOf(boot.task)[boot.stmt])
    /\ boot' = MkBoot("failed", boot.task, boot.stmt)
    /\ UNCHANGED <<schema, torn>>

\* The supervisor starts the process again.
Restart ==
    /\ boot.pc = "failed"
    /\ boot' = Down
    /\ UNCHANGED <<schema, torn>>

\* The process ends during Migrate, or a statement cannot be executed.
CrashInMigrate ==
    /\ boot.pc \in {"check", "exec"}
    /\ boot' = Down
    /\ torn' = IF boot.pc = "exec" /\ boot.task > 0 /\ boot.stmt > 1
               THEN torn \cup {boot.task} ELSE torn
    /\ UNCHANGED schema

SchemaNext ==
    Start \/ CheckTask \/ ExecStatement \/ MigrateFails \/ Restart \/ CrashInMigrate

-----------------------------------------------------------------------------
\* What all the statements together leave behind.
Target == (InitMakes \cup UNION {StepAt(x).makes : x \in Steps}) \ Dropped

\* When Migrate returns, the database has everything every task is for and none
\* of what it drops, whatever was there and however often the process ended on
\* the way, unless it ended between two statements of one task: init.sql and the
\* tasks of one statement can be taken up again (shouldRun, IF NOT EXISTS).
SchemaReady == boot.pc = "migrated" /\ torn = {} => schema = Target

\* A start never fails on what an earlier one has done, unless that one ended
\* between two statements of one task (shouldRun, the log.Fatalf of main).
StartupFailsOnlyTorn == boot.pc = "failed" => torn # {}

-----------------------------------------------------------------------------
(* The inductive invariant of both (ProcessProofs): on a database that no  *)
(* task was torn on, how far the statements have got.                      *)

\* What a database that had the base tables, or got them from init.sql, has
\* when the statements before the one at (k, s) have been executed.
Bases == {BaseTables, InitMakes}

Reached(base, k, s) ==
    LET done == {x \in Steps : Earlier(x, <<k, s>>)}
    IN  (base \cup UNION {StepAt(x).makes : x \in done}) \ UNION {StepAt(x).drops : x \in done}

\* The tasks before k are done, and no other one has begun.
DoneBefore(k) == \E base \in Bases : schema = Reached(base, k, 1)

\* The first m statements of init.sql are done, and nothing else.
InitDone(m) == schema = UNION {InitSQL[j].makes : j \in 1..m}

SchemaTypeOK ==
    /\ boot = MkBoot(boot.pc, boot.task, boot.stmt)
    /\ boot.task \in 0..(Len(Tasks) + 1) /\ boot.stmt \in Nat \ {0}
    /\ boot.pc = "exec" => boot.task <= Len(Tasks) /\ boot.stmt <= Len(StatementsOf(boot.task))
    /\ boot.pc = "down" => boot = Down

InitGoesOn ==
    boot.pc = "exec" /\ boot.task = 0 =>
        \E m \in 0..(Len(InitSQL) - 1) : boot.stmt <= m + 1 /\ InitDone(m)

TaskGoesOn ==
    boot.pc = "exec" /\ boot.task > 0 =>
        \E base \in Bases :
            schema = Reached(base, boot.task, boot.stmt) /\ Makes(boot.task) \cap base = {}

ChecksGoOn ==
    boot.pc \in {"down", "check"} =>
        \/ \E k \in 1..(Len(Tasks) + 1) : boot.task <= k /\ DoneBefore(k)
        \/ boot.task = 0 /\ \E m \in 0..(Len(InitSQL) - 1) : InitDone(m)

Untorn ==
    /\ InitGoesOn /\ TaskGoesOn /\ ChecksGoOn
    /\ boot.pc # "failed"
    /\ boot.pc \in {"down", "check", "exec"} \/ DoneBefore(Len(Tasks) + 1)

SchemaIInv == SchemaTypeOK /\ (torn = {} => Untorn)
=============================================================================

---------------------------- MODULE SchemaTasks -----------------------------
(***************************************************************************)
(* init.sql and migrations/tasks.json, internal/database/schema: the       *)
(* statements and the conditions that SchemaMigrator works through.        *)
(***************************************************************************)

Statement(needs, makes, drops, guarded) ==
    [needs |-> needs, makes |-> makes, drops |-> drops, guarded |-> guarded]

Create(objects) == Statement({}, objects, {}, TRUE)
Alter(table, makes, drops) == Statement({table}, makes, drops, FALSE)
Fill(needs, mark) == Statement(needs, {mark}, {}, TRUE)

NotExists(o) == [object |-> o, exists |-> FALSE]
Exists(o) == [object |-> o, exists |-> TRUE]

Task(conditions, statements) == [conditions |-> conditions, statements |-> statements]
TableTask(objects, table) == Task({NotExists(table)}, <<Create(objects)>>)
AlterTask(table, o) == Task({NotExists(o)}, <<Alter(table, {o}, {})>>)
DropIndexTask(table, idx) == Task({Exists(idx)}, <<Alter(table, {}, {idx})>>)

InitScript == <<Create({"bug_reports", "hostname", "os_user", "idx_hostname", "idx_os_user"}),
                Create({"bug_report_files"}), Create({"rate_limit_hwid"}),
                Create({"user", "enabled"}), Create({"session"})>>

TaskList == <<
    Task({NotExists(o) : o \in {"hostname", "os_user", "idx_hostname", "idx_os_user"}},
         <<Alter("bug_reports", {"hostname"}, {}), Alter("bug_reports", {"os_user"}, {}),
           Alter("bug_reports", {"idx_hostname"}, {}), Alter("bug_reports", {"idx_os_user"}, {})>>),
    AlterTask("user", "enabled"),
    TableTask({"update_releases", "channel"}, "update_releases"),
    AlterTask("update_releases", "critical_version"),
    Task({NotExists("updater_clients")},
         <<Create({"updater_clients"}), Create({"updater_events", "idx_client_id"})>>),
    Task({NotExists("is_stable")},
         <<Alter("update_releases", {"is_stable"}, {}),
           Fill({"is_stable", "channel"}, "stable flags"), Fill({"is_stable", "channel"}, "beta flags"),
           Alter("update_releases", {"idx_is_stable"}, {"channel"})>>),
    TableTask({"updater_releases"}, "updater_releases"),
    Task({NotExists("product")}, <<Alter("updater_events", {"product", "idx_product_created"}, {})>>),
    AlterTask("updater_clients", "hwid"),
    TableTask({"remote_config_revisions"}, "remote_config_revisions"),
    AlterTask("updater_clients", "config_revision"),
    AlterTask("updater_events", "idx_product_event_created"),
    DropIndexTask("updater_events", "idx_product_created"),
    AlterTask("updater_clients", "logged_user"),
    TableTask({"bans"}, "bans"),
    AlterTask("updater_clients", "emly_version"),
    AlterTask("updater_clients", "logged_user_state"),
    AlterTask("updater_clients", "os_version"),
    AlterTask("updater_events", "idx_client_created"),
    DropIndexTask("updater_events", "idx_client_id"),
    Task({NotExists("updater_event_hourly")},
         <<Create({"updater_event_hourly"}), Fill({"updater_events"}, "hourly counts")>>)>>
=============================================================================

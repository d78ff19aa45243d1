CONSTANTS
    InitSQL <- InitScript
    Tasks <- TaskList
    Creates = {q1}
    Downloads = {d1}
    n1 = n1
    Names <- FileNames
    MaxReports = 2
    MaxFiles = 2
    None = None
    ErrBuffer = 1
    MaxCrashes = 2
SPECIFICATION MCSpec
INVARIANTS
    SchemaReady
    StartupFailsOnlyTorn
    ServedIsOwn
    MigratedFilesStored
PROPERTIES
    FilesMigrationEnds
CHECK_DEADLOCK FALSE

SPECIFICATION FairSpec
CONSTANTS
    old = old
    new1 = new1
    new2 = new2
    NoMigrator = NoMigrator
    Migrators = {old, new1, new2}
    NFiles = 3
    Embedded <- MCEmbedded
    Rerunnable = {1}
INVARIANTS
    RecordedIsApplied
    ScriptRunsOnce
    FailureIsOnesOwn
PROPERTIES
    ImplementsSchemaVersion
    EveryCallEnds

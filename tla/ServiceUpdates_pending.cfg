\* One compatible release and one with a migration.
SPECIFICATION Spec
CONSTANTS
    LastRelease = 3
    Migrating = {3}
    NewSeries = {}
    Connector = {c1}
CHECK_DEADLOCK FALSE
PROPERTIES UpdaterWaitsForUpgrade

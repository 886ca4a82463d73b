SPECIFICATION Spec
CONSTANTS
    Programmes <- MCProgrammes
    MaxJobs = 2
    MaxBackups = 1
    MaxBackedUp = 1
    LastBackup = 0
    MaxTime = 2
INVARIANT JobsTellTheTruth
PROPERTIES
    ImplementsJobs
    JobsSettle

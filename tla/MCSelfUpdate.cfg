SPECIFICATION Spec
CONSTANTS
    owners = owners
    sys = sys
    bin = bin
    added = added
    Old <- MCOld
    New <- MCNew
    Param = sys
    MaxAttempts = 2
    Faults = {"timeout", "undo", "kill"}
INVARIANTS
    TargetWhole
    OldEntriesKept
    CancelRespected
    FailedChangesNothing
    ClosedOnce
PROPERTIES
    ImplementsUpdate
    AttemptEnds
    HelperEnds
CHECK_DEADLOCK FALSE

SPECIFICATION Spec
CONSTANTS
    owners = owners
    sys = sys
    bin = bin
    added = added
    Old <- MCOld
    New <- MCNew
    Param = sys
    MaxAttempts = 1
    Faults = {}
INVARIANTS
    OnlyClosedAppTouched

SPECIFICATION Spec
CONSTANTS
    NoFile = NoFile
    Unreadable = Unreadable
    MayFail <- AnyOperation
    MaxSaves = 3
INVARIANTS
    OnlyCopyNotInBackup
PROPERTIES
    ImplementsAtomicStore
    NoStaleReturn

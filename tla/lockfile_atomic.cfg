CONSTANTS
    None = None
    Torn = Torn
    Writers = {w1, w2}
    Locks = {v1, v2}
SPECIFICATION Spec
CHECK_DEADLOCK FALSE
INVARIANTS
    TypeOK
    LockIsWhole
    LockIsReadable
    FailureLeavesNoFile
PROPERTIES
    ImplementsAtomicLock

\* Liveness: no symmetry.
SPECIFICATION ProcessorFairSpec
CONSTANTS
    Threads = {t1, t2}
    Numbers = {n1}
    Timestamps = {1}
    Absent = Absent
    MaxMutations = 2
PROPERTIES
    PrintReturns
    StaleSnapshotsAreInvalidated
    CommandsAreAnswered

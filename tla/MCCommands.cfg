\* Two clients, one number: every interleaving of two commands' calls and of
\* the steps of the store inside them.
SPECIFICATION ProcessorSpec
CONSTANTS
    Threads = {t1, t2}
    Numbers = {n1}
    Timestamps = {1, 2}
    Absent = Absent
    MaxMutations = 3
SYMMETRY Symmetry
INVARIANTS
    TypeOK
    StoreInv
    PrintIsFresh
    PrintIsAPastState
    RefreshIsExclusive
    ProcessorTypeOK
    EffectsAreLinearizable
    ClearReportsEarlierCount
    ProcessorInv
PROPERTIES
    NeverOverwrites
    KeepsItsPromise

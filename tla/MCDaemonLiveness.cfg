\* Liveness: no symmetry.
SPECIFICATION FairSpec
CONSTANTS
    Handlers = {h1, h2}
    Requests <- OneSends
    Main = Main
    Signals = {s1}
    MaxConnections = 1
    NoHandler = NoHandler
PROPERTIES
    ShutdownCompletes
    ClientsAreNotLeftWaiting
    AcceptingResumes

\* Three connections, one place: the list can hold a connection too many. One sends requests of every kind.
SPECIFICATION Spec
CONSTANTS
    Handlers = {h1, h2, h3}
    Requests <- OneSends
    Main = Main
    Signals = {s1}
    MaxConnections = 1
    NoHandler = NoHandler
SYMMETRY Symmetry
INVARIANTS
    TypeOK
    ConnectionsAreBounded
    HandlersOutliveThreads
    ShutdownStopsService

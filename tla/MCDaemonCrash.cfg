\* A signal in the start-up of the daemon.
SPECIFICATION Spec
CONSTANTS
    Handlers = {h1}
    Requests <- OneSends
    Main = Main
    Signals = {s1}
    MaxConnections = 1
    NoHandler = NoHandler
INVARIANTS
    SignalsDoNotCrash

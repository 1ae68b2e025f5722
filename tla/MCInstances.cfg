\* Two daemons and two clients, started and ended at will.
SPECIFICATION FairSpec
CONSTANTS
    Daemons = {d1, d2}
    Clients = {c1, c2}
    NoClient = NoClient
INVARIANTS
    TypeOK
    OneDaemonListens
PROPERTIES
    ConnectedClientsAreServed

\* One daemon, two clients that start at the same time.
SPECIFICATION Spec
CONSTANTS
    Daemons = {d1}
    Clients = {c1, c2}
    NoClient = NoClient
PROPERTIES
    SimultaneousConnects

SPECIFICATION Spec
CONSTANTS
    Keys <- AllKeys
    Remotes = {r1, r2}
    AnyRemote = any
    Ports = {4, 5}
    PORT_MIN = 4
    PORT_MAX = 5
    PRESERVE_MIN = 2
    TIMEOUT <- NoTimeouts
    TCP_ESTABLISHED = 1
    LEASE = 0
    EXPECT = 0
    ALG_OPEN_WINDOW = 0
    RECLAIM_INTERVAL = 1
    SWEEP_INTERVAL = 1
    MAX_PEERS = 2
    MAX_EXPECTATIONS = 2
    Scopes <- TablesAndSessions
    h1 = h1
    h2 = h2
INVARIANTS TablesAgree PortsAccounted ForwardsRule ExpectedPortKept
PROPERTIES SweepComplete SessionKept
SYMMETRY Symmetry

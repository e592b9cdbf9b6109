SPECIFICATION Spec
CONSTANTS
    Peers = {p, q}
    Threads = {t1, t2}
    Indexes = {i1, i2, i3}
    UNKNOWN_PEER_LIMIT = 1
    MAX_TOMBSTONES = 1
    MAX_REMOVALS = 1
    Scopes <- PeersRekeysClose
SYMMETRY Symmetry
INVARIANTS RemovedHasNoSession NoTakeover UnknownBounded SlotsIndexed SendsConfirmed InitiationOnce
CHECK_DEADLOCK FALSE

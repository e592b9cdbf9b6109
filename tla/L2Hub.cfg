SPECIFICATION Spec
CONSTANTS
    Threads = {t1, t2}
    Macs = {a, b}
    Group = g
    Vlans = {0, 1, 2}
    MAX_PORTS = 3
    MAC_AGING = 1
    MAC_TABLE_MAX_SIZE = 2
    Scopes <- TableAndVlans
INVARIANTS CountsMatch CopiesKeepVlan
PROPERTY HeldNotStolen
SYMMETRY Symmetry
CHECK_DEADLOCK FALSE

SPECIFICATION Spec
CONSTANTS
    t1 = t1
    t2 = t2
    s1 = s1
    s2 = s2
    Tickers = {t1, t2}
    Servers = {s1, s2}
    Anonymous = {s2}
    NoServer = nobody
    Addrs = {1}
    LEASE = 3
    T1 = 1
    T2 = 2
    MAX_REQUESTS = 2
    PROBE_NUM = 1
    ANNOUNCE_NUM = 2
    MAX_TIME = 3
    Scopes <- ChecksTickersServers
INVARIANTS AdapterFollows LeaseCovered DeclinesJustified
CHECK_DEADLOCK FALSE

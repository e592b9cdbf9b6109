SPECIFICATION FairSpec
CONSTANTS
    Client = client
    Server = server
    Opener = client
    MTU = 1
    N_SEND_BUFFERS = 1
    N_REC_BUFFERS = 1
    ACK_MAX = 1
    MAX_UNPROVEN_TLS = 2
    MAX_HELD_TLS = 2
    LOSSY = TRUE
    CLIENT_UNITS = 2
    SERVER_UNITS = 1
PROPERTY AllDelivered
CHECK_DEADLOCK FALSE

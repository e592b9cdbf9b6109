SPECIFICATION Spec
CONSTANTS
    Client = client
    Server = server
    Opener = client
    MTU = 1
    N_SEND_BUFFERS = 2
    N_REC_BUFFERS = 2
    ACK_MAX = 1
    MAX_UNPROVEN_TLS = 1
    MAX_HELD_TLS = 1
    LOSSY = FALSE
    CLIENT_UNITS = 3
    SERVER_UNITS = 1
INVARIANTS AckedMeansTaken NoTlsBeforeProof
PROPERTY ImplementsStream
CHECK_DEADLOCK FALSE

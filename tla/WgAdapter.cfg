CONSTANTS
    Readers = {r1, r2}
    Maint = maint
    App = app
    Operator = operator
    MAX_TIMER_HANDSHAKES = 1
    KEEPALIVE_TIMEOUT = 2
    MAX_STAGED_PACKETS = 2
    Scopes <- AllScopes
SPECIFICATION FairSpec
INVARIANTS OneInitiation DevicesFollow AllowedAgree
PROPERTIES NoEndlessWait ComesToRest
CHECK_DEADLOCK FALSE

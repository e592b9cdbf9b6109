SPECIFICATION Spec
CONSTANTS
    WORD_BITS = 2
    BITMAP_WORDS = 3
    REJECT_AFTER_MESSAGES = 11
    MAX_COUNTER = 11
    Threads = {t1, t2}
INVARIANTS
    AcceptedOnce
    WindowExact
PROPERTY OldStaysOld
CHECK_DEADLOCK FALSE

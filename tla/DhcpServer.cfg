SPECIFICATION Spec
CONSTANTS
    Keys = {k1, k2, k3, k4}
    Nobody = nobody
    Subnet = {1, 2, 3, 4}
    Others = {9}
    LEASE = 3
    OFFER_HOLD = 2
    PROVISIONAL_MIN_AGE = 1
    MAX_LEASES_PER_MAC = 1
    Scopes <- MixedAndRelayed
    m1 = m1
    m2 = m2
INVARIANTS IndexesAgree LeaseKept NoSharedAddress ProvisionalBounded
PROPERTY RenewalHonoured
SYMMETRY Symmetry

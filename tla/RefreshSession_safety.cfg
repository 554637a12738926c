\* Two rotations and two devices; fingerprints change, every call may fail.
CONSTANTS
    Procs = {r1, r2}
    Devices = {d1, d2}
    Tokens = {t1, t2, t3, t4}
    Roaming = TRUE
    Faults = {"get", "set", "del"}
    None = none
SPECIFICATION Spec
SYMMETRY Symmetry
INVARIANTS
    FreshTokensWork
    OnlyStaleRevokes
    RedeemedBounded
PROPERTIES
    ImplementsRegister

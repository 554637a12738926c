\* Two rotations present one token at once.
CONSTANTS
    Procs = {r1, r2}
    Devices = {d1, d2}
    Tokens = {t1, t2, t3, t4}
    Roaming = FALSE
    Faults = {}
    None = none
SPECIFICATION Spec
SYMMETRY Symmetry
INVARIANT ReusedIsRejected

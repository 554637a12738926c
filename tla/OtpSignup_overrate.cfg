\* Two requests race: more codes than the limit go out within a window.
CONSTANTS
    Procs = {h1, h2}
    Sessions = {s1, s2}
    Emails = {e1}
    OtpRateMaxPerHour = 1
    OtpMaxVerifyAttempts = 1
    MaxTries = 1
    Faults = {}
    None = none
SPECIFICATION Spec
SYMMETRY Symmetry
INVARIANT NeverOverRate

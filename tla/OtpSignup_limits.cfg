\* Two handlers race over one email with four codes.
CONSTANTS
    Procs = {h1, h2}
    Sessions = {s1, s2, s3, s4}
    Emails = {e1}
    OtpRateMaxPerHour = 2
    OtpMaxVerifyAttempts = 1
    MaxTries = 2
    Faults <- ExactCounters
    None = none
SPECIFICATION Spec
SYMMETRY Symmetry
INVARIANTS
    RateBounded
    AttemptsBounded
    CountersExpire
    ConsumedHasAccount

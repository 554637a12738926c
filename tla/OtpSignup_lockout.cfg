\* Two handlers, fair scheduling and expiry: lockouts end.
CONSTANTS
    Procs = {h1, h2}
    Sessions = {s1, s2}
    Emails = {e1}
    OtpRateMaxPerHour = 1
    OtpMaxVerifyAttempts = 1
    MaxTries = 1
    Faults <- ExactCounters
    None = none
SPECIFICATION FairSpec
PROPERTIES
    LockoutEnds

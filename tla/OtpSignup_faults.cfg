\* Two handlers, two codes, two emails, and every fault except a false report.
CONSTANTS
    Procs = {h1, h2}
    Sessions = {s1, s2}
    Emails = {e1, e2}
    OtpRateMaxPerHour = 1
    OtpMaxVerifyAttempts = 1
    MaxTries = 0
    Faults <- TrueReports
    None = none
SPECIFICATION Spec
SYMMETRY Symmetry
INVARIANTS
    MailHasSession
    VerifiedWasMailed
    OneWelcome

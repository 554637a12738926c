\* Two sign-ins with any claims, two emails, every fault; failures end.
CONSTANTS
    Clients = {c1, c2}
    Providers = {google}
    Subjects = {s1, s2}
    Emails = {e1, e2}
    Uids = {u1, u2}
    Faults = {"read", "insert", "commit", "crash"}
    None = none
SPECIFICATION FairSpec
INVARIANTS
    SameIdentitySameAccount
    WaitsAreShort
PROPERTIES
    ImplementsDirectory
    RetrySucceeds

\* Two topics, valid and invalid events on either, every fault, and the fairness
\* of FairSpec.
CONSTANTS
    Topics = {otp, welcome}
    Unsupported = {}
    Kinds = {valid, invalid}
    Valid = {valid}
    MaxLog = 2
    Faults <- AllFaults
    MailerConfig <- Mailtrap
SPECIFICATION FairSpec
INVARIANTS
    NoSilentSkip
    OncePerAssignment
PROPERTIES
    CommitIsFinal
    ImplementsAtLeastOnce
    MailedUnlessBlocked

\* One handler, two codes for one address; publishes and mails fail, the
\* notification service is stopped and started.
CONSTANTS
    Procs = {h1}
    Sessions = {s1, s2}
    Emails = {e1}
    Unparsable = {}
    OtpRateMaxPerHour = 1
    OtpMaxVerifyAttempts = 1
    MaxTries = 0
    SignupFaults = {"kafka"}
    ServiceFaults = {"mail"}
    MailerConfig <- Mailtrap
    None = none
SPECIFICATION FairSpec
INVARIANT
    AcknowledgedNotLost
PROPERTIES
    ImplementsJourney
    AcknowledgedIsMailed

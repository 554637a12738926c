\* One event the handler rejects stands in front of a valid one.
CONSTANTS
    Topics = {otp}
    Unsupported = {}
    Kinds = {valid, invalid}
    Valid = {valid}
    MaxLog = 2
    Faults = {}
    MailerConfig <- Resend
SPECIFICATION FairSpec
PROPERTIES
    EveryEventMailed

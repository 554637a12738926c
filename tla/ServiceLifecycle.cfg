\* One GetUser or sign-in handler, one SendOTP request, every configuration of
\* one setting.
CONSTANTS
    Readers = {r1}
    Versions = {1, 2}
    Publishers = {p1}
    Envs <- EnvsDef
    Files <- FilesDef
SPECIFICATION FairSpec
INVARIANTS
    GracefulStopIsClean
    PublishKeepsRest
    SettingsByPrecedence
PROPERTIES
    StaleCopiesDoNotSpread
    SignalEnds
    StaleCopiesGo

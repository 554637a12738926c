\* Two publishes race two closes and fatal events, under fair scheduling.
CONSTANTS
    Publishes = {p1, p2}
    Closes = {c1, c2}
    Watcher = watcher
    Nobody = nobody
SPECIFICATION FairSpec
INVARIANTS
    TypeOK
    ClientOutlivesPublishes
    NilCloseLosesNothing
    OutcomeHonest
    NobodyWaitsInVain
PROPERTIES
    NoLateEntry
    ImplementsGate
    PublishReturns
    CloseReturns

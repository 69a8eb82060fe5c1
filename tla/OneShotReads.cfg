SPECIFICATION Spec
CONSTANTS
    first = first
    second = second
    alice = alice
    bob = bob
    Reader <- MCReader
    Target <- MCTarget
    MaxVersion = 1
    MaxFaults = 1
    MaxUnderWay = 2
INVARIANTS
    TypeOK
    SyncedAnswerIsFresh
    TokenCoversCache
    OutstandingIsUnderWay
    TimersAreNeeded

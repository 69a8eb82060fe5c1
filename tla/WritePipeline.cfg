SPECIFICATION FairSpec
CONSTANTS
    alice = alice
    bob = bob
    User <- MCUser
    MaxPendingWrites = 2
    MaxWrites = 3
INVARIANTS
    TypeOK
    PipelineHeadsQueue
    ResponsesMatchPipeline
    IdsIdentifyWrites
    SettledOnce
    NewestWriteOnTop
    IdleStreamNotNeeded
PROPERTIES
    WritesSettle
    KeepsTheContract

SPECIFICATION FairSpec
CONSTANTS
    first = first
    second = second
    alice = alice
    bob = bob
    Reader <- MCReader
    Target <- OneTarget
    MaxVersion = 2
    MaxFaults = 1
    MaxUnderWay = 4
PROPERTIES
    ReadsAreAnswered

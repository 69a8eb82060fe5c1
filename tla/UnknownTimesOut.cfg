SPECIFICATION HangingSpec
CONSTANTS
    first = first
    second = second
    alice = alice
    bob = bob
    Reader <- OneReader
    Target <- OneTarget
    MaxVersion = 1
    MaxFaults = 1
    MaxUnderWay = 2
PROPERTIES
    UnknownTimesOut
